----------------------------- MODULE Heartbeat ------------------------------
(***************************************************************************)
(* The timers of one server session (session_v2.go): the heartbeat loop,   *)
(* the PONG goroutines, the read loop's touch() and the process-wide       *)
(* reaper, over a connection that may stop taking bytes.                   *)
(*                                                                         *)
(* Time is discrete.  A Tick happens only when every goroutine waits: for a*)
(* timer, for a frame, or inside a conn.Write that makes no progress (no   *)
(* write deadline is ever set, so such a write lasts until the peer reads  *)
(* again or the connection is closed).  Ages are kept instead of           *)
(* timestamps and stop counting at Horizon.                                *)
(***************************************************************************)
EXTENDS Integers

CONSTANTS
    HbMin, HbMax,    \* pskCfg.heartbeatMinMs, heartbeatMaxMs
    IdleThreshold,   \* pskCfg.idleThresholdMs
    IdleTimeout,     \* v2SessionIdleTimeout
    ReapEvery,       \* the reaper's ticker
    MaxPongs,        \* bound: PONG goroutines at one time
    Horizon          \* bound: ages beyond it are not told apart

\* rangeMs is clamped at zero: a PSK may derive a minimum above the maximum.
JitterRange == IF HbMax >= HbMin THEN HbMax - HbMin ELSE 0
Longest == HbMin + JitterRange

\* The longest silence of a session whose writes are taken.
MaxSilence == IdleThreshold + Longest

ASSUME TimingAssumption ==
    /\ HbMin \in Nat \ {0} /\ HbMax \in Nat
    /\ IdleThreshold \in Nat \ {0}
    /\ ReapEvery \in Nat \ {0}
    /\ IdleTimeout \in Nat /\ MaxSilence <= IdleTimeout
    /\ MaxPongs \in Nat
    /\ Horizon \in Nat /\ Horizon > IdleTimeout + ReapEvery

VARIABLES
    conn,            \* "open" or "closed"
    blocked,         \* the connection takes no bytes: the peer does not read
    reader,          \* the read loop: "read", "write" or "ended"
    hb,              \* the heartbeat loop: "sleep", "write" or "exit"
    hbTimer,         \* what is left of its time.After
    pongs,           \* PONG goroutines that have not written yet
    sinceWrite,      \* age of lastWriteAt
    sinceActivity,   \* age of lastActivity
    reapTimer,       \* what is left until the reaper's next round
    reaped,          \* history: the reaper closed the connection
    lingers          \* history: time since closeAll closed the done channel

vars == <<conn, blocked, reader, hb, hbTimer, pongs, sinceWrite, sinceActivity,
          reapTimer, reaped, lingers>>

Done == reader = "ended"
Writable == conn = "open" /\ ~blocked

\* minMs + mrand.IntN(rangeMs+1)
Jitters == HbMin .. (HbMin + JitterRange)

\* handleTCPv2 sets both stamps before it starts the heartbeat; the reaper is
\* anywhere in its round.
Init ==
    /\ conn = "open" /\ blocked = FALSE
    /\ reader = "read"
    /\ hb = "sleep" /\ hbTimer \in Jitters
    /\ pongs = 0
    /\ sinceWrite = 0 /\ sinceActivity = 0
    /\ reapTimer \in 1 .. ReapEvery
    /\ reaped = FALSE
    /\ lingers = 0

\* Mutant (HI3-01): a write is no activity.
StampWriteOnly == sinceWrite' = 0 /\ UNCHANGED sinceActivity

\* The end of writeStreamFrame, after the frame went out.
Stamp == sinceWrite' = 0 /\ sinceActivity' = 0

-----------------------------------------------------------------------------
(* The heartbeat loop. *)

\* Mutant: frames of the peer count as well.
QuietBothWays == sinceActivity >= IdleThreshold

QuietLongEnough == sinceWrite >= IdleThreshold

\* The timer fires: write a PING if nothing was written for a while.
HbFires ==
    /\ hb = "sleep" /\ hbTimer = 0
    /\ IF QuietLongEnough
       THEN hb' = "write" /\ UNCHANGED hbTimer
       ELSE hbTimer' \in Jitters /\ UNCHANGED hb
    /\ UNCHANGED <<conn, blocked, reader, pongs, sinceWrite, sinceActivity>>
    /\ UNCHANGED <<reapTimer, reaped, lingers>>

HbWrites ==
    /\ hb = "write" /\ Writable
    /\ Stamp
    /\ hb' = "sleep" /\ hbTimer' \in Jitters
    /\ UNCHANGED <<conn, blocked, reader, pongs, reapTimer, reaped, lingers>>

HbWriteFails ==
    /\ hb = "write" /\ conn = "closed"
    /\ hb' = "exit"
    /\ UNCHANGED <<conn, blocked, reader, hbTimer, pongs, sinceWrite, sinceActivity>>
    /\ UNCHANGED <<reapTimer, reaped, lingers>>

\* Mutant (H2-02): the loop sleeps without looking at done.
SleepsThrough == FALSE

\* case <-s.done
SeesDone == hb = "sleep" /\ Done

HbStops ==
    /\ SeesDone
    /\ hb' = "exit"
    /\ UNCHANGED <<conn, blocked, reader, hbTimer, pongs, sinceWrite, sinceActivity>>
    /\ UNCHANGED <<reapTimer, reaped, lingers>>

-----------------------------------------------------------------------------
(* The read loop, the PONG goroutines and the streams' readers. *)

\* A frame arrives and is handled; refusing an OPEN or shedding a stream makes
\* the loop itself write.
PeerFrame ==
    /\ conn = "open" /\ reader = "read"
    /\ sinceActivity' = 0
    /\ reader' \in {"read", "write"}
    /\ UNCHANGED <<conn, blocked, hb, hbTimer, pongs, sinceWrite, reapTimer, reaped, lingers>>

PeerPing ==
    /\ conn = "open" /\ reader = "read"
    /\ pongs < MaxPongs
    /\ sinceActivity' = 0
    /\ pongs' = pongs + 1
    /\ UNCHANGED <<conn, blocked, reader, hb, hbTimer, sinceWrite, reapTimer, reaped, lingers>>

\* The write ends, well or with an error that the loop ignores.
ReaderWrites ==
    /\ reader = "write"
    /\ \/ Writable /\ Stamp
       \/ conn = "closed" /\ UNCHANGED <<sinceWrite, sinceActivity>>
    /\ reader' = "read"
    /\ UNCHANGED <<conn, blocked, hb, hbTimer, pongs, reapTimer, reaped, lingers>>

\* readFrame fails, or the frame is malformed; the deferred closeAll closes done
\* and the connection.
ReaderEnds ==
    /\ reader = "read"
    /\ reader' = "ended" /\ conn' = "closed"
    /\ UNCHANGED <<blocked, hb, hbTimer, pongs, sinceWrite, sinceActivity>>
    /\ UNCHANGED <<reapTimer, reaped, lingers>>

\* After at most 15 ms, less than a Tick: write, or give up because of done or
\* of an error.
PongEnds ==
    /\ pongs > 0
    /\ \/ Writable /\ Stamp
       \/ conn = "closed" /\ UNCHANGED <<sinceWrite, sinceActivity>>
    /\ pongs' = pongs - 1
    /\ UNCHANGED <<conn, blocked, reader, hb, hbTimer, reapTimer, reaped, lingers>>

\* A stream's reader, handleOpen or a pump writes a frame.
Traffic ==
    /\ Writable
    /\ Stamp
    /\ UNCHANGED <<conn, blocked, reader, hb, hbTimer, pongs, reapTimer, reaped, lingers>>

-----------------------------------------------------------------------------
(* The reaper, the peer and the network, and time. *)

Overdue == conn = "open" /\ sinceActivity > IdleTimeout

\* Mutant: the round takes as long as the idle timeout.
ReapRarely ==
    /\ reapTimer = 0
    /\ conn' = IF Overdue THEN "closed" ELSE conn
    /\ reaped' = (reaped \/ Overdue)
    /\ reapTimer' = IdleTimeout
    /\ UNCHANGED <<blocked, reader, hb, hbTimer, pongs, sinceWrite, sinceActivity, lingers>>

\* One round of reapV2Sessions, as far as this session goes.
Reap ==
    /\ reapTimer = 0
    /\ conn' = IF Overdue THEN "closed" ELSE conn
    /\ reaped' = (reaped \/ Overdue)
    /\ reapTimer' = ReapEvery
    /\ UNCHANGED <<blocked, reader, hb, hbTimer, pongs, sinceWrite, sinceActivity, lingers>>

\* The peer stops reading and the buffers fill, or it reads again.
PeerStalls ==
    /\ conn = "open"
    /\ blocked' = ~blocked
    /\ UNCHANGED <<conn, reader, hb, hbTimer, pongs, sinceWrite, sinceActivity>>
    /\ UNCHANGED <<reapTimer, reaped, lingers>>

PeerCloses ==
    /\ conn = "open"
    /\ conn' = "closed"
    /\ UNCHANGED <<blocked, reader, hb, hbTimer, pongs, sinceWrite, sinceActivity>>
    /\ UNCHANGED <<reapTimer, reaped, lingers>>

Stuck == conn = "open" /\ blocked

EveryoneWaits ==
    /\ ~SeesDone
    /\ hb = "sleep" => hbTimer > 0
    /\ hb = "write" => Stuck
    /\ pongs > 0 => Stuck
    /\ reader = "write" => Stuck
    /\ conn = "closed" => Done
    /\ reapTimer > 0

Aged(n) == IF n < Horizon THEN n + 1 ELSE n

Tick ==
    /\ EveryoneWaits
    /\ hbTimer' = IF hb = "sleep" THEN hbTimer - 1 ELSE hbTimer
    /\ sinceWrite' = Aged(sinceWrite)
    /\ sinceActivity' = Aged(sinceActivity)
    /\ reapTimer' = reapTimer - 1
    /\ lingers' = IF Done THEN Aged(lingers) ELSE 0
    /\ UNCHANGED <<conn, blocked, reader, hb, pongs, reaped>>

-----------------------------------------------------------------------------
Next ==
    \/ HbFires \/ HbWrites \/ HbWriteFails \/ HbStops
    \/ PeerFrame \/ PeerPing \/ ReaderWrites \/ ReaderEnds \/ PongEnds \/ Traffic
    \/ Reap \/ PeerStalls \/ PeerCloses
    \/ Tick

Spec == Init /\ [][Next]_vars

-----------------------------------------------------------------------------
(* Properties *)

\* The variables have their types; the heartbeat's timer never exceeds Longest.
TypeOK ==
    /\ conn \in {"open", "closed"} /\ blocked \in BOOLEAN
    /\ reader \in {"read", "write", "ended"}
    /\ hb \in {"sleep", "write", "exit"} /\ hbTimer \in 0 .. Longest
    /\ pongs \in 0 .. MaxPongs
    /\ sinceWrite \in 0 .. Horizon /\ sinceActivity \in 0 .. Horizon
    /\ reapTimer \in 0 .. ReapEvery
    /\ reaped \in BOOLEAN /\ lingers \in 0 .. Horizon

\* heartbeatLoop keeps an open connection from falling silent: one that has
\* carried nothing to the client for MaxSilence is one whose heartbeat is inside
\* a write.  (The client closes a session it reads nothing from.)
SilenceBound == conn = "open" /\ sinceWrite >= MaxSilence => hb = "write"

\* reapV2Sessions closes only connections that stopped taking bytes: a download
\* or an idle session with a live peer is never reaped (HI3-01).
ReapsOnlyStalled == [][reaped' # reaped => hb = "write"]_vars

\* ... and it does close those: no connection stays open without a frame in
\* either direction for longer than the timeout and one round of the reaper.
ReapedInTime == conn = "open" => sinceActivity <= IdleTimeout + ReapEvery

\* A closed session holds no goroutine: its heartbeat, whatever its timer, and
\* its PONGs are gone before any time has passed since closeAll (H2-02).
ReleasedPromptly == lingers > 0 => hb = "exit" /\ pongs = 0
=============================================================================
