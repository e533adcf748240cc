----------------------------- MODULE PskConfig ------------------------------
(***************************************************************************)
(* derivePskConfig (psk_config.go) and the clamping at the head of         *)
(* heartbeatLoop (session_v2.go).  out is the output of HKDF, of which     *)
(* nothing is known but that its members are bytes; indices are the code's.*)
(* Times are in milliseconds, sizes in bytes.                              *)
(***************************************************************************)
EXTENDS Integers

Byte == 0 .. 255
Used == {2, 3, 4, 5, 6, 8}
Outputs == [Used -> Byte]

heartbeatMinMs(out) == 20000 + out[2] * 100
heartbeatMaxMs(out) == 45000 + out[3] * 100
heartbeatPadMin(out) == 32 + out[4]
heartbeatPadMax(out) == 512 + ((out[5] * 256 + out[6]) % 3584)
idleThresholdMs(out) == 10000 + out[8] * 50

maxPlaintextSize == 16384 - 2
v2FrameHeader == 7
padCap == maxPlaintextSize - v2FrameHeader

Positive(n) == IF n < 0 THEN 0 ELSE n

\* Mutant: a minimum above the maximum is not thought of.
RangeMsUnclamped(out) == heartbeatMaxMs(out) - heartbeatMinMs(out)

\* rangeMs: how much longer than the minimum a sleep may be.
RangeMs(out) == Positive(heartbeatMaxMs(out) - heartbeatMinMs(out))

\* The longest sleep of the heartbeat loop.
LongestMs(out) == heartbeatMinMs(out) + RangeMs(out)

\* padMin and padRange after they were capped: the smallest PING payload, and
\* how much larger it may be.
PadMin(out) == IF heartbeatPadMin(out) > padCap THEN padCap ELSE heartbeatPadMin(out)

PadRange(out) ==
    LET range == Positive(heartbeatPadMax(out) - heartbeatPadMin(out))
    IN  IF PadMin(out) + range > padCap THEN padCap - PadMin(out) ELSE range

v2SessionIdleTimeoutMs == 300000

\* The client's SO_TIMEOUT (docs/PROTOCOL.md), and how much of it is left for
\* the network even with the least favourable PSK.
SoTimeoutMs(out) == heartbeatMaxMs(out) + 30000
GraceMs == 6750

-----------------------------------------------------------------------------
(* Properties of an output *)

\* The longest silence of a session whose writes are taken (MaxSilence of module
\* Heartbeat) is one that neither the reaper nor the client's read timeout ends,
\* and mrand.IntN, which panics and ends the heartbeat unless its argument
\* rangeMs + 1 is positive, gets one that is, also if the minimum derived exceeds
\* the maximum.
CadenceFits(out) ==
    LET silence == idleThresholdMs(out) + LongestMs(out)
    IN  /\ idleThresholdMs(out) > 0 /\ heartbeatMinMs(out) > 0
        /\ RangeMs(out) + 1 > 0
        /\ silence <= v2SessionIdleTimeoutMs
        /\ silence + GraceMs <= SoTimeoutMs(out)

\* A PING fits into a frame, and its padding is drawn from a range that is not
\* negative either.
PadFits(out) ==
    /\ PadRange(out) >= 0
    /\ PadMin(out) + PadRange(out) <= padCap
=============================================================================
