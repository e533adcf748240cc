-------------------------- MODULE HeartbeatProofs ---------------------------
(***************************************************************************)
(* The timing properties of module Heartbeat for every cadence, and that   *)
(* the cadence derivePskConfig derives from any PSK is one of them.        *)
(***************************************************************************)
EXTENDS MCHeartbeat, TLAPS

\* What is needed of the constants, for the provers.
LEMMA Constants ==
    /\ HbMin \in Nat /\ HbMin > 0 /\ HbMax \in Nat
    /\ JitterRange \in Nat /\ Longest \in Nat /\ Longest = HbMin + JitterRange
    /\ IdleThreshold \in Nat /\ IdleThreshold > 0
    /\ ReapEvery \in Nat /\ ReapEvery > 0
    /\ IdleTimeout \in Nat /\ MaxSilence \in Nat /\ MaxSilence <= IdleTimeout
    /\ MaxSilence = IdleThreshold + Longest
    /\ MaxPongs \in Nat
    /\ Horizon \in Nat /\ Horizon > IdleTimeout + ReapEvery
BY TimingAssumption DEF JitterRange, Longest, MaxSilence

\* A sleep the loop may choose is at most Longest.
LEMMA JitterBound ==
    ASSUME NEW t \in Jitters
    PROVE  t \in 0 .. Longest /\ t < MaxSilence
BY Constants DEF Jitters

\* While the heartbeat sleeps, the silence so far and the rest of its sleep stay
\* below MaxSilence; a write is an activity; the reaper's next round comes before
\* the age of the last activity passes its bound; the heartbeat and the read loop
\* outlive the connection.
Timing ==
    /\ hb = "sleep" => sinceWrite + hbTimer < MaxSilence
    /\ sinceActivity <= sinceWrite
    /\ conn = "open" => sinceActivity + reapTimer <= IdleTimeout + ReapEvery
    /\ hb = "exit" => conn = "closed"
    /\ Done => conn = "closed"
    /\ lingers > 0 => hb = "exit" /\ pongs = 0 /\ Done

HbInv == TypeOK /\ Timing

\* The invariant holds initially.
LEMMA HbInit == Init => HbInv
<1> SUFFICES ASSUME Init PROVE HbInv
  OBVIOUS
<1>1. hbTimer \in 0 .. Longest /\ hbTimer < MaxSilence
  BY JitterBound DEF Init
<1>2. sinceWrite + hbTimer < MaxSilence /\ sinceActivity + reapTimer <= IdleTimeout + ReapEvery
  BY <1>1, Constants DEF Init
<1>3. TypeOK
  <2>1. pongs \in 0 .. MaxPongs /\ reapTimer \in 0 .. ReapEvery
    BY Constants DEF Init
  <2>2. /\ sinceWrite \in 0 .. Horizon /\ sinceActivity \in 0 .. Horizon
        /\ lingers \in 0 .. Horizon
    BY Constants DEF Init
  <2> QED BY <1>1, <2>1, <2>2 DEF Init, TypeOK
<1>4. Timing
  BY <1>2 DEF Init, Timing, Done
<1> QED BY <1>3, <1>4 DEF HbInv

\* Steps of the heartbeat loop keep the invariant.
LEMMA HbLoopStep ==
    ASSUME HbInv, HbFires \/ HbWrites \/ HbWriteFails \/ HbStops
    PROVE  HbInv'
<1>1. CASE HbFires
  BY <1>1, Constants DEF HbInv, TypeOK, Timing, Done, HbFires, QuietLongEnough, Jitters
<1>2. CASE HbWrites
  <2>1. hbTimer' \in 0 .. Longest /\ hbTimer' < MaxSilence
    BY <1>2, JitterBound DEF HbWrites
  <2>0. sinceWrite' = 0
    BY <1>2 DEF HbWrites, Stamp
  <2>2. sinceWrite' + hbTimer' < MaxSilence
    BY <2>0, <2>1
  <2>3. TypeOK'
    BY <1>2, <2>1, Constants DEF HbInv, TypeOK, HbWrites, Stamp
  <2>4. Timing'
    BY <1>2, <2>2, Constants DEF HbInv, TypeOK, Timing, Done, HbWrites, Stamp, Writable
  <2> QED BY <2>3, <2>4 DEF HbInv
<1>3. CASE HbWriteFails
  BY <1>3, Constants DEF HbInv, TypeOK, Timing, Done, HbWriteFails
<1>4. CASE HbStops
  BY <1>4, Constants DEF HbInv, TypeOK, Timing, Done, HbStops, SeesDone
<1> QED BY <1>1, <1>2, <1>3, <1>4

\* Steps of the read loop, of the PONGs and of the streams keep the invariant.
LEMMA FrameStep ==
    ASSUME HbInv,
           PeerFrame \/ PeerPing \/ ReaderWrites \/ ReaderEnds \/ PongEnds \/ Traffic
    PROVE  HbInv'
<1>1. CASE PeerFrame
  BY <1>1, Constants DEF HbInv, TypeOK, Timing, Done, PeerFrame
<1>2. CASE PeerPing
  BY <1>2, Constants DEF HbInv, TypeOK, Timing, Done, PeerPing
<1>3. CASE ReaderWrites
  BY <1>3, Constants DEF HbInv, TypeOK, Timing, Done, ReaderWrites, Stamp, Writable
<1>4. CASE ReaderEnds
  BY <1>4, Constants DEF HbInv, TypeOK, Timing, Done, ReaderEnds
<1>5. CASE PongEnds
  BY <1>5, Constants DEF HbInv, TypeOK, Timing, Done, PongEnds, Stamp, Writable
<1>6. CASE Traffic
  BY <1>6, Constants DEF HbInv, TypeOK, Timing, Done, Traffic, Stamp, Writable
<1> QED BY <1>1, <1>2, <1>3, <1>4, <1>5, <1>6

\* Time, the reaper and the peer keep the invariant.
LEMMA WorldStep ==
    ASSUME HbInv, Reap \/ PeerStalls \/ PeerCloses \/ Tick
    PROVE  HbInv'
<1>1. CASE Reap
  BY <1>1, Constants DEF HbInv, TypeOK, Timing, Done, Reap, Overdue
<1>2. CASE PeerStalls
  BY <1>2, Constants DEF HbInv, TypeOK, Timing, Done, PeerStalls
<1>3. CASE PeerCloses
  BY <1>3, Constants DEF HbInv, TypeOK, Timing, Done, PeerCloses
<1>4. CASE Tick
  <2>1. TypeOK'
    BY <1>4, Constants DEF HbInv, TypeOK, Tick, EveryoneWaits, Aged
  <2>2. Timing'
    BY <1>4, Constants
    DEF HbInv, TypeOK, Timing, Done, Tick, EveryoneWaits, SeesDone, Stuck, Aged
  <2> QED BY <2>1, <2>2 DEF HbInv
<1> QED BY <1>1, <1>2, <1>3, <1>4

\* The invariant is inductive.
THEOREM HbInvHolds == Spec => []HbInv
<1>1. HbInv /\ [Next]_vars => HbInv'
  <2> SUFFICES ASSUME HbInv, [Next]_vars PROVE HbInv'
    OBVIOUS
  <2>1. CASE Next
    BY <2>1, HbLoopStep, FrameStep, WorldStep, Zenon DEF Next
  <2>2. CASE UNCHANGED vars
    BY <2>2 DEF vars, HbInv, TypeOK, Timing, Done
  <2> QED BY <2>1, <2>2
<1> QED BY HbInit, <1>1, PTL DEF Spec

\* An open connection is silent for MaxSilence only while its heartbeat is
\* inside a write.
THEOREM SilenceBoundHolds == Spec => []SilenceBound
<1>1. HbInv => SilenceBound
  BY Constants DEF HbInv, TypeOK, Timing, SilenceBound
<1> QED BY HbInvHolds, <1>1, PTL

\* The reaper closes only connections whose heartbeat is stuck in a write.
THEOREM ReapsOnlyStalledHolds == Spec => ReapsOnlyStalled
<1>1. HbInv /\ [Next]_vars => [reaped' # reaped => hb = "write"]_vars
  <2> SUFFICES ASSUME HbInv, Next, reaped' # reaped PROVE hb = "write"
    BY Zenon DEF vars
  <2>0. Reap
    BY Zenon DEF Next, HbFires, HbWrites, HbWriteFails, HbStops, PeerFrame, PeerPing,
        ReaderWrites, ReaderEnds, PongEnds, Traffic, PeerStalls, PeerCloses, Tick
  <2>1. Reap /\ Overdue
    BY <2>0 DEF HbInv, TypeOK, Reap
  <2>2. conn = "open" /\ sinceWrite >= MaxSilence
    BY <2>1, Constants DEF HbInv, TypeOK, Timing, Overdue
  <2> QED BY <2>2, Constants DEF HbInv, TypeOK, Timing
<1> QED BY HbInvHolds, <1>1, PTL DEF Spec, ReapsOnlyStalled

\* A connection without a frame in either direction is closed within the
\* timeout and one round of the reaper.
THEOREM ReapedInTimeHolds == Spec => []ReapedInTime
<1>1. HbInv => ReapedInTime
  BY Constants DEF HbInv, TypeOK, Timing, ReapedInTime
<1> QED BY HbInvHolds, <1>1, PTL

\* No heartbeat and no PONG goroutine outlives closeAll.
THEOREM ReleasedPromptlyHolds == Spec => []ReleasedPromptly
<1>1. HbInv => ReleasedPromptly
  BY DEF HbInv, Timing, ReleasedPromptly
<1> QED BY HbInvHolds, <1>1, PTL

\* n lies between two bounds.
Between(lo, n, hi) == n \in Int /\ lo <= n /\ n <= hi

\* The ranges of the knobs derivePskConfig derives.
LEMMA KnobRanges ==
    ASSUME NEW o \in Outputs
    PROVE  /\ Between(20000, heartbeatMinMs(o), 45500)
           /\ Between(45000, heartbeatMaxMs(o), 70500)
           /\ Between(32, heartbeatPadMin(o), 287)
           /\ Between(512, heartbeatPadMax(o), 4095)
           /\ Between(10000, idleThresholdMs(o), 22750)
<1>1. \A i \in Used : Between(0, o[i], 255)
  BY DEF Outputs, Byte, Between
<1>2. /\ Between(0, o[2], 255) /\ Between(0, o[3], 255) /\ Between(0, o[4], 255)
      /\ Between(0, o[5], 255) /\ Between(0, o[6], 255) /\ Between(0, o[8], 255)
  BY <1>1, Zenon DEF Used
<1>3. Between(20000, heartbeatMinMs(o), 45500)
  BY <1>2 DEF heartbeatMinMs, Between
<1>4. Between(45000, heartbeatMaxMs(o), 70500)
  BY <1>2 DEF heartbeatMaxMs, Between
<1>5. Between(10000, idleThresholdMs(o), 22750)
  BY <1>2 DEF idleThresholdMs, Between
<1>6. Between(32, heartbeatPadMin(o), 287)
  BY <1>2 DEF heartbeatPadMin, Between
<1>7. Between(512, heartbeatPadMax(o), 4095)
  <2> DEFINE n == o[5] * 256 + o[6]
  <2>1. n \in Nat
    BY <1>2 DEF Between
  <2> HIDE DEF n
  <2>2. Between(0, n % 3584, 3583)
    BY <2>1 DEF Between
  <2>3. Between(512, 512 + (n % 3584), 4095)
    BY <2>2 DEF Between
  <2> QED BY <2>3 DEF heartbeatPadMax, n
<1> QED BY <1>3, <1>4, <1>5, <1>6, <1>7

\* Whatever the PSK, the silence heartbeatLoop allows stays below the reaper's
\* timeout and, by at least GraceMs, below the client's read timeout, and its sleep
\* is drawn from a range that is not empty.
THEOREM PskCadence == \A o \in Outputs : CadenceFits(o)
<1> SUFFICES ASSUME NEW o \in Outputs PROVE CadenceFits(o)
  OBVIOUS
<1>1. /\ Between(20000, heartbeatMinMs(o), 45500)
      /\ Between(45000, heartbeatMaxMs(o), 70500)
      /\ Between(10000, idleThresholdMs(o), 22750)
  BY KnobRanges
<1> QED BY <1>1
    DEF CadenceFits, LongestMs, RangeMs, Positive, v2SessionIdleTimeoutMs, SoTimeoutMs, GraceMs, Between

\* Whatever the PSK, a PING can be drawn and fits into a frame.
THEOREM PskPads == \A o \in Outputs : PadFits(o)
<1> SUFFICES ASSUME NEW o \in Outputs PROVE PadFits(o)
  OBVIOUS
<1>1. Between(32, heartbeatPadMin(o), 287) /\ Between(512, heartbeatPadMax(o), 4095)
  BY KnobRanges
<1> QED BY <1>1
    DEF PadFits, PadMin, PadRange, Positive, padCap, maxPlaintextSize, v2FrameHeader, Between

\* Whatever output of HKDF a deployment lives with, and not only those at the ends
\* of the ranges that TLC starts from, its knobs fit in every state: nothing the
\* session does changes what derivePskConfig derived.
THEOREM KnobsFitHolds == out \in Outputs /\ [][MCNext]_mcvars => []KnobsFit
<1>1. out \in Outputs /\ [MCNext]_mcvars => (out \in Outputs)'
  BY DEF MCNext, mcvars
<1>2. out \in Outputs => KnobsFit
  BY PskCadence, PskPads DEF KnobsFit
<1> QED BY <1>1, <1>2, PTL

\* The outputs TLC starts from are such outputs.
COROLLARY ExtremeKnobsFit == MCSpec => []KnobsFit
<1>1. MCInit => out \in Outputs
  BY DEF MCInit, Outputs, Byte
<1> QED BY <1>1, KnobsFitHolds, PTL DEF MCSpec
=============================================================================
