---------------------------- MODULE MCHeartbeat -----------------------------
(* An instance of Heartbeat for TLC, in a deployment whose PSK derives knobs *)
(* at the ends of their ranges.  Heartbeat's own constants are in ticks and  *)
(* keep the order of these knobs, not their values in milliseconds.          *)
EXTENDS Heartbeat, PskConfig

VARIABLE out        \* the output of HKDF for the deployment's PSK

mcvars == <<vars, out>>

\* The bytes of each knob.
Knobs == {{2}, {3}, {4}, {5, 6}, {8}}

\* All knobs low, all high, or one of them against the others.
HighBytes == {{}, Used} \cup Knobs \cup {Used \ k : k \in Knobs}

MCInit ==
    /\ Init
    /\ out \in {[i \in Used |-> IF i \in high THEN 255 ELSE 0] : high \in HighBytes}

MCNext == Next /\ UNCHANGED out

MCSpec == MCInit /\ [][MCNext]_mcvars

\* Whatever the PSK, silence stays within the patience of client and reaper, so
\* that the knobs of derivePskConfig fulfil what Heartbeat assumes of them, and
\* heartbeatLoop can build and send its PING.
KnobsFit == CadenceFits(out) /\ PadFits(out)
=============================================================================
