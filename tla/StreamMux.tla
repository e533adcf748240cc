----------------------------- MODULE StreamMux ------------------------------
(***************************************************************************)
(* The stream multiplexer of mxtr-server (cmd/mxtr-server/session_v2.go):  *)
(* the read loop of every session (handleTCPv2), the handleOpen goroutine  *)
(* of every OPEN frame, and the two goroutines of every open stream (the   *)
(* upstream reader and the client->upstream pump), with closeStream and    *)
(* closeAll as the several unsynchronised steps they are.                  *)
(*                                                                         *)
(* A member of Opens is one OPEN frame and the v2Stream object its         *)
(* handleOpen builds.  The peer is arbitrary: it sends any frame at any    *)
(* time, may reuse an id (IdOf need not be injective) and, if EarlyData,   *)
(* may send DATA before it has seen OPEN_OK.  Dial, Read and Write results *)
(* of upstream connections, and the fate of the session's own connection,  *)
(* are chosen by the environment.  Payloads are abstracted to lengths.     *)
(* Padding, AEAD, logging and PING/PONG/unknown frames, which change none  *)
(* of this state, are left out; when a WINDOW_UPDATE is due is the subject *)
(* of module FlowControl and is left open here.                            *)
(*                                                                         *)
(* A step is what a goroutine does between two points where another one    *)
(* can tell the difference: a compare-and-swap, a map operation, a section *)
(* under st.mu; what only it can see is joined to the step it belongs to.  *)
(***************************************************************************)
EXTENDS Totals

CONSTANTS
    Sessions,       \* v2Session objects
    Opens,          \* OPEN frames, each with the v2Stream it may create
    Ids,            \* stream ids
    SessOf,         \* [Opens -> Sessions]: the session an OPEN arrives on
    IdOf,           \* [Opens -> Ids]: the stream id the OPEN carries
    ChunkSizes,     \* lengths of DATA payloads (0 is legal on the wire)
    MaxOpens,       \* v2MaxConcurrentOpens
    SessionCap,     \* v2SessionBufferCap
    GlobalCap,      \* v2GlobalBufferCap
    MaxChunk,       \* the largest member of ChunkSizes (maxPlaintextSize - header)
    EarlyData,      \* may the peer send DATA for a stream not yet confirmed?
    Faulty,         \* sessions whose connection or peer may fail
    PeerReads,      \* does the peer keep reading, so that no write blocks forever?
    CloseLog,       \* do the histories keep CLOSE frames?  (no action reads them)
    MaxData,        \* bound: DATA frames read per session
    None            \* no stream

ASSUME MuxAssumption ==
    /\ IsFiniteSet(Sessions) /\ Sessions # {}
    /\ IsFiniteSet(Opens)
    /\ SessOf \in [Opens -> Sessions]
    /\ IdOf \in [Opens -> Ids]
    /\ MaxChunk \in Nat
    /\ ChunkSizes \subseteq 0 .. MaxChunk
    /\ MaxOpens \in Nat /\ SessionCap \in Nat /\ GlobalCap \in Nat
    /\ MaxData \in Nat
    /\ Faulty \subseteq Sessions
    /\ EarlyData \in BOOLEAN /\ PeerReads \in BOOLEAN /\ CloseLog \in BOOLEAN
    /\ None \notin Opens

VARIABLES
    conn,           \* the session's TLS connection: "up", "broken" (by the
                    \* peer or the network), "closed" (by this process)
    sclosed,        \* v2Session.closed
    streams,        \* v2Session.streams: id -> stream, or None
    openSem,        \* tokens held in v2Session.openSem
    buffered,       \* v2Session.buffered
    globalBuffered, \* v2GlobalBuffered
    closed,         \* v2Stream.closed (and its closing channel)
    upstream,       \* v2Stream.conn: "none", "open", "closed" (by this process)
    queue,          \* v2Stream.queue, as the lengths of its chunks
    qbytes,         \* v2Stream.qbytes
    pc,             \* where each goroutine is
    target,         \* the *v2Stream a goroutine has loaded from the map
    frameId,        \* the stream id of the frame the read loop is handling
    frameLen,       \* ... and the length of its payload
    due,            \* closeAll: streams in the map when its Range began
    visited,        \* closeAll: keys its Range has been called with
    dataIn,         \* DATA frames read so far (bounded by MaxData)
    told,           \* history: frames the server has written for a stream
    peerClosed      \* history: the peer sent CLOSE after this OPEN

svars == <<conn, sclosed, streams, openSem, buffered, globalBuffered>>
ovars == <<closed, upstream, queue, qbytes>>
lvars == <<target, frameId, frameLen, due, visited, dataIn>>
hvars == <<told, peerClosed>>
vars == <<svars, ovars, pc, lvars, hvars>>

-----------------------------------------------------------------------------
(* Goroutines and their control points. *)

Loop(s) == <<"loop", s>>
Opener(o) == <<"open", o>>
Reader(o) == <<"reader", o>>
Pump(o) == <<"pump", o>>

OpenProcs == {"open", "reader", "pump"} \X Opens
Procs == ({"loop"} \X Sessions) \cup OpenProcs

SessionOf(p) == IF p[1] = "loop" THEN p[2] ELSE SessOf[p[2]]
StreamId(p) == IF p[1] = "loop" THEN frameId[p[2]] ELSE IdOf[p[2]]
OpensOf(s) == {o \in Opens : SessOf[o] = s}

CloseLabels == {"cs_load", "cs_cas", "cs_reclaim"}
LoopLabels == {"read", "enqueue", "ca_range", "ca_cas", "ca_reclaim", "exit"}
                  \cup CloseLabels
OpenLabels == {"idle", "dial", "check", "openok", "exit"} \cup CloseLabels
ReaderLabels == {"idle", "top", "read", "exit"} \cup CloseLabels
PumpLabels == {"idle", "take", "parked", "write", "exit"} \cup CloseLabels

Init ==
    /\ conn = [s \in Sessions |-> "up"]
    /\ sclosed = [s \in Sessions |-> FALSE]
    /\ streams = [s \in Sessions |-> [i \in Ids |-> None]]
    /\ openSem = [s \in Sessions |-> 0]
    /\ buffered = [s \in Sessions |-> 0]
    /\ globalBuffered = 0
    /\ closed = [o \in Opens |-> FALSE]
    /\ upstream = [o \in Opens |-> "none"]
    /\ queue = [o \in Opens |-> <<>>]
    /\ qbytes = [o \in Opens |-> 0]
    /\ pc = [p \in Procs |-> IF p[1] = "loop" THEN "read" ELSE "idle"]
    /\ target = [p \in Procs |-> None]
    /\ frameId = [s \in Sessions |-> None]
    /\ frameLen = [s \in Sessions |-> 0]
    /\ due = [s \in Sessions |-> {}]
    /\ visited = [s \in Sessions |-> {}]
    /\ dataIn = [s \in Sessions |-> 0]
    /\ told = [o \in Opens |-> {}]
    /\ peerClosed = [o \in Opens |-> FALSE]

At(p, l) == pc[p] = l
Goto(p, l) == pc' = [pc EXCEPT ![p] = l]

-----------------------------------------------------------------------------
(* writeStreamFrame, as its callers see it.  A write on a broken connection *)
(* may still succeed into the socket buffer.                                *)

Kept(f) == IF f = "CLOSE" /\ ~CloseLog THEN {} ELSE {f}

Written(o, f) ==
    /\ conn[SessOf[o]] \in {"up", "broken"}
    /\ told' = [told EXCEPT ![o] = @ \cup Kept(f)]

WriteFails(o) ==
    /\ conn[SessOf[o]] \in {"broken", "closed"}
    /\ UNCHANGED told

\* "_ = s.writeStreamFrame(...)": the result is ignored.
Notify(o, f) == Written(o, f) \/ WriteFails(o)

(* Waking the pump: cond.Signal and cond.Broadcast, whose only waiter is the *)
(* stream's pump.                                                            *)
GotoAndWake(p, l, o) ==
    pc' = [q \in Procs |-> IF q = p THEN l
                           ELSE IF q = Pump(o) /\ pc[q] = "parked" THEN "take"
                           ELSE pc[q]]

-----------------------------------------------------------------------------
(* The session's connection: the peer or the network breaks it, or the idle *)
(* reaper closes it (module Heartbeat says when).                           *)

ConnBreaks(s) ==
    /\ s \in Faulty /\ conn[s] = "up"
    /\ conn' = [conn EXCEPT ![s] = "broken"]
    /\ UNCHANGED <<sclosed, streams, openSem, buffered, globalBuffered>>
    /\ UNCHANGED <<ovars, pc, lvars, hvars>>

ReapConn(s) ==
    /\ s \in Faulty /\ conn[s] # "closed" /\ ~sclosed[s]
    /\ conn' = [conn EXCEPT ![s] = "closed"]
    /\ UNCHANGED <<sclosed, streams, openSem, buffered, globalBuffered>>
    /\ UNCHANGED <<ovars, pc, lvars, hvars>>

-----------------------------------------------------------------------------
(* The read loop of handleTCPv2. *)

Reading(s) == At(Loop(s), "read") /\ conn[s] # "closed"

\* Mutant: the semaphore is counted but never full.
ReadOpenUnbounded(o) ==
    LET s == SessOf[o] IN
    /\ Reading(s) /\ At(Opener(o), "idle")
    /\ openSem' = [openSem EXCEPT ![s] = @ + 1]
    /\ Goto(Opener(o), "dial")
    /\ UNCHANGED <<conn, sclosed, streams, buffered, globalBuffered>>
    /\ UNCHANGED <<ovars, lvars, hvars>>

\* OPEN, with a token of the semaphore free: handleOpen starts.
ReadOpen(o) ==
    LET s == SessOf[o] IN
    /\ Reading(s) /\ At(Opener(o), "idle")
    /\ openSem[s] < MaxOpens
    /\ openSem' = [openSem EXCEPT ![s] = @ + 1]
    /\ Goto(Opener(o), "dial")
    /\ UNCHANGED <<conn, sclosed, streams, buffered, globalBuffered>>
    /\ UNCHANGED <<ovars, lvars, hvars>>

\* OPEN, with MaxOpens dispatches in flight: refused, "server busy".
RefuseOpen(o) ==
    LET s == SessOf[o] IN
    /\ Reading(s) /\ At(Opener(o), "idle")
    /\ openSem[s] >= MaxOpens
    /\ Notify(o, "OPEN_ERR")
    /\ Goto(Opener(o), "exit")
    /\ UNCHANGED <<svars, ovars, lvars, peerClosed>>

\* Mutant: the process-wide budget is not looked at.
OverBudgetOwn(s, n) == buffered[s] + n > SessionCap

\* The byte budgets, compared before the stream's lock is taken.
OverBudget(s, n) ==
    buffered[s] + n > SessionCap \/ globalBuffered + n > GlobalCap

\* DATA frames a peer sends: any, or only on streams it was told are open.
PeerSendsData(s, i) ==
    /\ Reading(s) /\ dataIn[s] < MaxData
    /\ EarlyData \/ \E o \in OpensOf(s) : IdOf[o] = i /\ "OPEN_OK" \in told[o]
    /\ dataIn' = [dataIn EXCEPT ![s] = @ + 1]

\* DATA for an id that has no stream: skipped.
SkipData(s, i) ==
    /\ PeerSendsData(s, i)
    /\ streams[s][i] = None
    /\ UNCHANGED <<svars, ovars, pc, target, frameId, frameLen, due, visited, hvars>>

\* DATA within the budgets: the loop holds the stream, not yet its lock.
ReadData(s, i, n) ==
    /\ PeerSendsData(s, i)
    /\ streams[s][i] # None /\ ~OverBudget(s, n)
    /\ target' = [target EXCEPT ![Loop(s)] = streams[s][i]]
    /\ frameId' = [frameId EXCEPT ![s] = i]
    /\ frameLen' = [frameLen EXCEPT ![s] = n]
    /\ Goto(Loop(s), "enqueue")
    /\ UNCHANGED <<svars, ovars, due, visited, hvars>>

\* Mutant: the stream is dropped without a word to the peer.
ShedSilently(s, i, n) ==
    /\ PeerSendsData(s, i)
    /\ streams[s][i] # None /\ OverBudget(s, n)
    /\ frameId' = [frameId EXCEPT ![s] = i] /\ UNCHANGED frameLen
    /\ Goto(Loop(s), "cs_load")
    /\ UNCHANGED <<svars, ovars, target, due, visited, hvars>>

\* DATA over budget: CLOSE to the peer, then closeStream.
ShedStream(s, i, n) ==
    /\ PeerSendsData(s, i)
    /\ streams[s][i] # None /\ OverBudget(s, n)
    /\ Notify(streams[s][i], "CLOSE")
    /\ frameId' = [frameId EXCEPT ![s] = i] /\ UNCHANGED frameLen
    /\ Goto(Loop(s), "cs_load")
    /\ UNCHANGED <<svars, ovars, target, due, visited, peerClosed>>

\* The loop is done with the frame and with the stream it loaded.
LoopForgets(s) ==
    /\ target' = [target EXCEPT ![Loop(s)] = None]
    /\ frameId' = [frameId EXCEPT ![s] = None]
    /\ frameLen' = [frameLen EXCEPT ![s] = 0]

\* Mutant: closed is not looked at again under st.mu.
EnqueueBlindly(s) ==
    LET o == target[Loop(s)]  n == frameLen[s] IN
    /\ At(Loop(s), "enqueue")
    /\ queue' = [queue EXCEPT ![o] = Append(@, n)]
    /\ qbytes' = [qbytes EXCEPT ![o] = @ + n]
    /\ buffered' = [buffered EXCEPT ![s] = @ + n]
    /\ globalBuffered' = globalBuffered + n
    /\ GotoAndWake(Loop(s), "read", o)
    /\ LoopForgets(s)
    /\ UNCHANGED <<conn, sclosed, streams, openSem, closed, upstream>>
    /\ UNCHANGED <<due, visited, dataIn, hvars>>

\* The chunk joins the queue under st.mu ...
Enqueue(s) ==
    LET o == target[Loop(s)]  n == frameLen[s] IN
    /\ At(Loop(s), "enqueue") /\ ~closed[o]
    /\ queue' = [queue EXCEPT ![o] = Append(@, n)]
    /\ qbytes' = [qbytes EXCEPT ![o] = @ + n]
    /\ buffered' = [buffered EXCEPT ![s] = @ + n]
    /\ globalBuffered' = globalBuffered + n
    /\ GotoAndWake(Loop(s), "read", o)
    /\ LoopForgets(s)
    /\ UNCHANGED <<conn, sclosed, streams, openSem, closed, upstream>>
    /\ UNCHANGED <<due, visited, dataIn, hvars>>

\* ... unless the stream was closed meanwhile.
DropChunk(s) ==
    /\ At(Loop(s), "enqueue") /\ closed[target[Loop(s)]]
    /\ Goto(Loop(s), "read")
    /\ LoopForgets(s)
    /\ UNCHANGED <<svars, ovars, due, visited, dataIn, hvars>>

\* CLOSE from the peer: closeStream.
ReadClose(s, i) ==
    /\ Reading(s)
    /\ Goto(Loop(s), "cs_load")
    /\ frameId' = [frameId EXCEPT ![s] = i] /\ UNCHANGED frameLen
    /\ peerClosed' = [o \in Opens |->
           \/ peerClosed[o]
           \/ CloseLog /\ SessOf[o] = s /\ IdOf[o] = i /\ pc[Opener(o)] # "idle"]
    /\ UNCHANGED <<svars, ovars, target, due, visited, dataIn, told>>

-----------------------------------------------------------------------------
(* closeStream(id), run by the read loop, a handleOpen, a reader or a pump. *)

\* Returning from closeStream: the loop reads on, the others end.
AfterClose(p) == IF p[1] = "loop" THEN "read" ELSE "exit"

\* A handleOpen and a reader close their own upstream as they end (a pump did
\* so before the call), and a handleOpen gives its semaphore token back.
CloseReturns(p) ==
    /\ target' = [target EXCEPT ![p] = None]
    /\ frameId' = [s \in Sessions |-> IF p = Loop(s) THEN None ELSE frameId[s]]
    /\ UNCHANGED frameLen
    /\ openSem' = [s \in Sessions |->
           IF p[1] = "open" /\ s = SessionOf(p) THEN openSem[s] - 1 ELSE openSem[s]]

OwnUpstream(p) == IF p[1] = "loop" THEN {} ELSE {p[2]}

CloseUpstreams(os) ==
    upstream' = [o \in Opens |-> IF o \in os THEN "closed" ELSE upstream[o]]

\* s.streams.LoadAndDelete(streamID) finds a stream ...
CloseLoad(p) ==
    LET s == SessionOf(p)  o == streams[s][StreamId(p)] IN
    /\ At(p, "cs_load") /\ o # None
    /\ streams' = [streams EXCEPT ![s][StreamId(p)] = None]
    /\ target' = [target EXCEPT ![p] = o]
    /\ Goto(p, "cs_cas")
    /\ UNCHANGED <<conn, sclosed, openSem, buffered, globalBuffered, ovars>>
    /\ UNCHANGED <<frameId, frameLen, due, visited, dataIn, hvars>>

\* ... or none: somebody else closed it, or is closing it.
CloseMisses(p) ==
    /\ At(p, "cs_load") /\ streams[SessionOf(p)][StreamId(p)] = None
    /\ Goto(p, AfterClose(p))
    /\ CloseReturns(p)
    /\ CloseUpstreams(OwnUpstream(p))
    /\ UNCHANGED <<conn, sclosed, streams, buffered, globalBuffered>>
    /\ UNCHANGED <<closed, queue, qbytes, due, visited, dataIn, hvars>>

\* st.closed.CompareAndSwap(false, true) succeeds; close(st.closing).
CloseCas(p) ==
    /\ At(p, "cs_cas") /\ ~closed[target[p]]
    /\ closed' = [closed EXCEPT ![target[p]] = TRUE]
    /\ Goto(p, "cs_reclaim")
    /\ UNCHANGED <<svars, upstream, queue, qbytes, lvars, hvars>>

\* It fails: closeAll got there first.
CloseLoses(p) ==
    /\ At(p, "cs_cas") /\ closed[target[p]]
    /\ Goto(p, AfterClose(p))
    /\ CloseReturns(p)
    /\ CloseUpstreams(OwnUpstream(p))
    /\ UNCHANGED <<conn, sclosed, streams, buffered, globalBuffered>>
    /\ UNCHANGED <<closed, queue, qbytes, due, visited, dataIn, hvars>>

\* Mutants: only the global budget is reclaimed, as closeAll does; the
\* upstream of the closed stream is left to its reader.
CloseReclaimGlobal(p) ==
    LET o == target[p] IN
    /\ At(p, "cs_reclaim")
    /\ globalBuffered' = globalBuffered - qbytes[o]
    /\ qbytes' = [qbytes EXCEPT ![o] = 0]
    /\ queue' = [queue EXCEPT ![o] = <<>>]
    /\ GotoAndWake(p, AfterClose(p), o)
    /\ CloseReturns(p)
    /\ CloseUpstreams({o} \cup OwnUpstream(p))
    /\ UNCHANGED <<conn, sclosed, streams, buffered, closed>>
    /\ UNCHANGED <<due, visited, dataIn, hvars>>
CloseReclaimConnOpen(p) ==
    LET o == target[p]  s == SessionOf(p) IN
    /\ At(p, "cs_reclaim")
    /\ buffered' = [buffered EXCEPT ![s] = @ - qbytes[o]]
    /\ globalBuffered' = globalBuffered - qbytes[o]
    /\ qbytes' = [qbytes EXCEPT ![o] = 0]
    /\ queue' = [queue EXCEPT ![o] = <<>>]
    /\ GotoAndWake(p, AfterClose(p), o)
    /\ CloseReturns(p)
    /\ CloseUpstreams(OwnUpstream(p))
    /\ UNCHANGED <<conn, sclosed, streams, closed, due, visited, dataIn, hvars>>

\* Under st.mu: give the queued bytes back to both budgets and wake the pump;
\* then st.conn.Close() and return.
CloseReclaim(p) ==
    LET o == target[p]  s == SessionOf(p) IN
    /\ At(p, "cs_reclaim")
    /\ buffered' = [buffered EXCEPT ![s] = @ - qbytes[o]]
    /\ globalBuffered' = globalBuffered - qbytes[o]
    /\ qbytes' = [qbytes EXCEPT ![o] = 0]
    /\ queue' = [queue EXCEPT ![o] = <<>>]
    /\ GotoAndWake(p, AfterClose(p), o)
    /\ CloseReturns(p)
    /\ CloseUpstreams({o} \cup OwnUpstream(p))
    /\ UNCHANGED <<conn, sclosed, streams, closed, due, visited, dataIn, hvars>>

CloseStream(p) ==
    \/ CloseLoad(p) \/ CloseMisses(p) \/ CloseCas(p) \/ CloseLoses(p)
    \/ CloseReclaim(p)

-----------------------------------------------------------------------------
(* closeAll, run once by the read loop when it leaves: the deferred call of *)
(* handleTCPv2.  sync.Map.Range calls back at most once per key, visits     *)
(* every entry that stays in the map, and may or may not see later stores.  *)

InMap(s) == {o \in Opens : \E i \in Ids : streams[s][i] = o}

\* A read error, a bad tag, a short frame or a wrong payload length.
LoopFails(s) ==
    /\ s \in Faulty /\ At(Loop(s), "read")
    /\ sclosed' = [sclosed EXCEPT ![s] = TRUE]
    /\ due' = [due EXCEPT ![s] = InMap(s)]
    /\ Goto(Loop(s), "ca_range")
    /\ UNCHANGED <<conn, streams, openSem, buffered, globalBuffered>>
    /\ UNCHANGED <<ovars, target, frameId, frameLen, visited, dataIn, hvars>>

AllVisit(s, i) ==
    /\ At(Loop(s), "ca_range")
    /\ i \notin visited[s] /\ streams[s][i] # None
    /\ target' = [target EXCEPT ![Loop(s)] = streams[s][i]]
    /\ frameId' = [frameId EXCEPT ![s] = i] /\ UNCHANGED frameLen
    /\ visited' = [visited EXCEPT ![s] = @ \cup {i}]
    /\ Goto(Loop(s), "ca_cas")
    /\ UNCHANGED <<svars, ovars, due, dataIn, hvars>>

\* The callback returns after s.streams.Delete(k), whatever k maps to by now.
AllVisited(s) ==
    /\ streams' = [streams EXCEPT ![s][frameId[s]] = None]
    /\ LoopForgets(s)

AllCas(s) ==
    LET o == target[Loop(s)] IN
    /\ At(Loop(s), "ca_cas") /\ ~closed[o]
    /\ closed' = [closed EXCEPT ![o] = TRUE]
    /\ Goto(Loop(s), "ca_reclaim")
    /\ UNCHANGED <<svars, upstream, queue, qbytes, lvars, hvars>>

\* The stream is being closed by closeStream already.
AllLoses(s) ==
    /\ At(Loop(s), "ca_cas") /\ closed[target[Loop(s)]]
    /\ Goto(Loop(s), "ca_range")
    /\ AllVisited(s)
    /\ UNCHANGED <<conn, sclosed, openSem, buffered, globalBuffered, ovars>>
    /\ UNCHANGED <<due, visited, dataIn, hvars>>

\* Mutants: the queue is dropped but the global counter keeps its bytes; the
\* queue and the counter are both left alone.
AllReclaimLeaks(s) ==
    LET o == target[Loop(s)] IN
    /\ At(Loop(s), "ca_reclaim")
    /\ qbytes' = [qbytes EXCEPT ![o] = 0]
    /\ queue' = [queue EXCEPT ![o] = <<>>]
    /\ GotoAndWake(Loop(s), "ca_range", o)
    /\ upstream' = [upstream EXCEPT ![o] = "closed"]
    /\ AllVisited(s)
    /\ UNCHANGED <<conn, sclosed, openSem, buffered, globalBuffered, closed>>
    /\ UNCHANGED <<due, visited, dataIn, hvars>>
AllReclaimNothing(s) ==
    LET o == target[Loop(s)] IN
    /\ At(Loop(s), "ca_reclaim")
    /\ GotoAndWake(Loop(s), "ca_range", o)
    /\ upstream' = [upstream EXCEPT ![o] = "closed"]
    /\ AllVisited(s)
    /\ UNCHANGED <<conn, sclosed, openSem, buffered, globalBuffered, closed>>
    /\ UNCHANGED <<queue, qbytes, due, visited, dataIn, hvars>>

\* Only the global budget: the session's own counter dies with it.
AllReclaim(s) ==
    LET o == target[Loop(s)] IN
    /\ At(Loop(s), "ca_reclaim")
    /\ globalBuffered' = globalBuffered - qbytes[o]
    /\ qbytes' = [qbytes EXCEPT ![o] = 0]
    /\ queue' = [queue EXCEPT ![o] = <<>>]
    /\ GotoAndWake(Loop(s), "ca_range", o)
    /\ upstream' = [upstream EXCEPT ![o] = "closed"]
    /\ AllVisited(s)
    /\ UNCHANGED <<conn, sclosed, openSem, buffered, closed, due, visited, dataIn, hvars>>

\* Range ends; the deferred conn.Close() of handleTCPv2 runs.
AllDone(s) ==
    /\ At(Loop(s), "ca_range")
    /\ \A o \in due[s] : streams[s][IdOf[o]] # o \/ IdOf[o] \in visited[s]
    /\ conn' = [conn EXCEPT ![s] = "closed"]
    /\ due' = [due EXCEPT ![s] = {}]
    /\ visited' = [visited EXCEPT ![s] = {}]
    /\ Goto(Loop(s), "exit")
    /\ UNCHANGED <<sclosed, streams, openSem, buffered, globalBuffered>>
    /\ UNCHANGED <<ovars, target, frameId, frameLen, dataIn, hvars>>

CloseAll(s) ==
    \/ LoopFails(s) \/ AllCas(s) \/ AllLoses(s) \/ AllReclaim(s) \/ AllDone(s)
    \/ \E i \in Ids : AllVisit(s, i)

-----------------------------------------------------------------------------
(* handleOpen *)

\* handleOpen returns: its deferred release of the semaphore.
OpenReturns(o) ==
    /\ openSem' = [openSem EXCEPT ![SessOf[o]] = @ - 1]
    /\ Goto(Opener(o), "exit")

\* Mutants: the peer is not told; the semaphore token is kept.
DialFailsSilently(o) ==
    /\ At(Opener(o), "dial")
    /\ OpenReturns(o)
    /\ UNCHANGED <<conn, sclosed, streams, buffered, globalBuffered>>
    /\ UNCHANGED <<ovars, lvars, hvars>>
DialFailsKeepingToken(o) ==
    /\ At(Opener(o), "dial")
    /\ Notify(o, "OPEN_ERR")
    /\ Goto(Opener(o), "exit")
    /\ UNCHANGED <<svars, ovars, lvars, peerClosed>>

\* Bad target, target not allowed, or the dial failed or timed out.
DialFails(o) ==
    /\ At(Opener(o), "dial")
    /\ Notify(o, "OPEN_ERR")
    /\ OpenReturns(o)
    /\ UNCHANGED <<conn, sclosed, streams, buffered, globalBuffered>>
    /\ UNCHANGED <<ovars, lvars, peerClosed>>

\* The dial succeeded and LoadOrStore finds the id free.
StoreStream(o) ==
    LET s == SessOf[o] IN
    /\ At(Opener(o), "dial")
    /\ streams[s][IdOf[o]] = None
    /\ upstream' = [upstream EXCEPT ![o] = "open"]
    /\ streams' = [streams EXCEPT ![s][IdOf[o]] = o]
    /\ Goto(Opener(o), "check")
    /\ UNCHANGED <<conn, sclosed, openSem, buffered, globalBuffered>>
    /\ UNCHANGED <<closed, queue, qbytes, lvars, hvars>>

\* Mutant: the superfluous upstream is not closed.
RefuseDuplicateLeaks(o) ==
    /\ At(Opener(o), "dial")
    /\ streams[SessOf[o]][IdOf[o]] # None
    /\ upstream' = [upstream EXCEPT ![o] = "open"]
    /\ OpenReturns(o)
    /\ UNCHANGED <<conn, sclosed, streams, buffered, globalBuffered>>
    /\ UNCHANGED <<closed, queue, qbytes, lvars, hvars>>

\* The dial succeeded but the id is taken: the new upstream is closed again,
\* and the peer is told nothing.
RefuseDuplicate(o) ==
    /\ At(Opener(o), "dial")
    /\ streams[SessOf[o]][IdOf[o]] # None
    /\ upstream' = [upstream EXCEPT ![o] = "closed"]
    /\ OpenReturns(o)
    /\ UNCHANGED <<conn, sclosed, streams, buffered, globalBuffered>>
    /\ UNCHANGED <<closed, queue, qbytes, lvars, hvars>>

\* Mutants: no check against closeAll; the check forgets upstream.Close().
CheckNothing(o) ==
    /\ At(Opener(o), "check")
    /\ Goto(Opener(o), "openok")
    /\ UNCHANGED <<svars, ovars, lvars, hvars>>
UndoStoreLeaks(o) ==
    LET s == SessOf[o] IN
    /\ At(Opener(o), "check") /\ sclosed[s]
    /\ streams' = [streams EXCEPT ![s][IdOf[o]] = None]
    /\ OpenReturns(o)
    /\ UNCHANGED <<conn, sclosed, buffered, globalBuffered, ovars, lvars, hvars>>

\* if s.closed.Load(): go on only if closeAll has not begun ...
CheckClosed(o) ==
    /\ At(Opener(o), "check") /\ ~sclosed[SessOf[o]]
    /\ Goto(Opener(o), "openok")
    /\ UNCHANGED <<svars, ovars, lvars, hvars>>

\* ... otherwise its Range may have missed this stream: undo the store.
UndoStore(o) ==
    LET s == SessOf[o] IN
    /\ At(Opener(o), "check") /\ sclosed[s]
    /\ streams' = [streams EXCEPT ![s][IdOf[o]] = None]
    /\ upstream' = [upstream EXCEPT ![o] = "closed"]
    /\ OpenReturns(o)
    /\ UNCHANGED <<conn, sclosed, buffered, globalBuffered>>
    /\ UNCHANGED <<closed, queue, qbytes, lvars, hvars>>

\* OPEN_OK reaches the connection: reader and pump start.
SendOpenOk(o) ==
    /\ At(Opener(o), "openok")
    /\ Written(o, "OPEN_OK")
    /\ openSem' = [openSem EXCEPT ![SessOf[o]] = @ - 1]
    /\ pc' = [pc EXCEPT ![Opener(o)] = "exit", ![Reader(o)] = "top",
                        ![Pump(o)] = "take"]
    /\ UNCHANGED <<conn, sclosed, streams, buffered, globalBuffered>>
    /\ UNCHANGED <<ovars, lvars, peerClosed>>

OpenOkFails(o) ==
    /\ At(Opener(o), "openok")
    /\ WriteFails(o)
    /\ Goto(Opener(o), "cs_load")
    /\ UNCHANGED <<svars, ovars, lvars, peerClosed>>

HandleOpen(o) ==
    \/ DialFails(o) \/ StoreStream(o) \/ RefuseDuplicate(o)
    \/ CheckClosed(o) \/ UndoStore(o) \/ SendOpenOk(o) \/ OpenOkFails(o)

-----------------------------------------------------------------------------
(* upstream -> client reader *)

\* select on st.closing: not closed, so block in upstream.Read ...
ReaderReads(o) ==
    /\ At(Reader(o), "top") /\ ~closed[o]
    /\ Goto(Reader(o), "read")
    /\ UNCHANGED <<svars, ovars, lvars, hvars>>

\* ... or closed: return, with the deferred upstream.Close().
ReaderEnds(o) ==
    /\ At(Reader(o), "top") /\ closed[o]
    /\ Goto(Reader(o), "exit")
    /\ upstream' = [upstream EXCEPT ![o] = "closed"]
    /\ UNCHANGED <<svars, closed, queue, qbytes, lvars, hvars>>

\* upstream.Read returns bytes, which it cannot once this process closed the
\* socket, and they go out as a DATA frame.
ReaderForwards(o) ==
    /\ At(Reader(o), "read")
    /\ upstream[o] = "open"
    /\ conn[SessOf[o]] \in {"up", "broken"}
    /\ Goto(Reader(o), "top")
    /\ UNCHANGED <<svars, ovars, lvars, hvars>>

\* Read returns bytes but the DATA frame cannot be written: closeStream.
ReaderCannotForward(o) ==
    /\ At(Reader(o), "read")
    /\ upstream[o] = "open"
    /\ conn[SessOf[o]] \in {"broken", "closed"}
    /\ Goto(Reader(o), "cs_load")
    /\ UNCHANGED <<svars, ovars, lvars, hvars>>

\* Read returns io.EOF or an error: CLOSE to the peer, closeStream.
ReaderGetsError(o) ==
    /\ At(Reader(o), "read")
    /\ Notify(o, "CLOSE")
    /\ Goto(Reader(o), "cs_load")
    /\ UNCHANGED <<svars, ovars, lvars, peerClosed>>

ReadUpstream(o) ==
    \/ ReaderReads(o) \/ ReaderEnds(o) \/ ReaderForwards(o) \/ ReaderCannotForward(o)
    \/ ReaderGetsError(o)

-----------------------------------------------------------------------------
(* client -> upstream pump *)

\* Under st.mu: nothing queued and not closed, so cond.Wait.
PumpWaits(o) ==
    /\ At(Pump(o), "take")
    /\ ~closed[o] /\ queue[o] = <<>>
    /\ Goto(Pump(o), "parked")
    /\ UNCHANGED <<svars, ovars, lvars, hvars>>

PumpEnds(o) ==
    /\ At(Pump(o), "take")
    /\ closed[o]
    /\ Goto(Pump(o), "exit")
    /\ UNCHANGED <<svars, ovars, lvars, hvars>>

\* Under st.mu: the head chunk leaves the queue and both budgets.
PumpTakes(o) ==
    LET s == SessOf[o]  n == Head(queue[o]) IN
    /\ At(Pump(o), "take")
    /\ ~closed[o] /\ queue[o] # <<>>
    /\ queue' = [queue EXCEPT ![o] = Tail(@)]
    /\ qbytes' = [qbytes EXCEPT ![o] = @ - n]
    /\ buffered' = [buffered EXCEPT ![s] = @ - n]
    /\ globalBuffered' = globalBuffered - n
    /\ Goto(Pump(o), "write")
    /\ UNCHANGED <<conn, sclosed, streams, openSem, closed, upstream, lvars, hvars>>

\* upstream.Write succeeds; no WINDOW_UPDATE is due, or it is written.
PumpDelivers(o) ==
    /\ At(Pump(o), "write")
    /\ upstream[o] = "open"
    /\ Goto(Pump(o), "take")
    /\ UNCHANGED <<svars, ovars, lvars, hvars>>

\* upstream.Write succeeds but the WINDOW_UPDATE cannot be written:
\* upstream.Close(), closeStream.
PumpCannotCredit(o) ==
    /\ At(Pump(o), "write")
    /\ upstream[o] = "open"
    /\ conn[SessOf[o]] \in {"broken", "closed"}
    /\ upstream' = [upstream EXCEPT ![o] = "closed"]
    /\ Goto(Pump(o), "cs_load")
    /\ UNCHANGED <<svars, closed, queue, qbytes, lvars, hvars>>

\* upstream.Write fails: CLOSE to the peer, upstream.Close(), closeStream.
PumpFails(o) ==
    /\ At(Pump(o), "write")
    /\ Notify(o, "CLOSE")
    /\ upstream' = [upstream EXCEPT ![o] = "closed"]
    /\ Goto(Pump(o), "cs_load")
    /\ UNCHANGED <<svars, closed, queue, qbytes, lvars, peerClosed>>

PumpUpstream(o) ==
    \/ PumpWaits(o) \/ PumpEnds(o) \/ PumpTakes(o) \/ PumpDelivers(o)
    \/ PumpCannotCredit(o) \/ PumpFails(o)

-----------------------------------------------------------------------------
ReadFrame(s) ==
    \/ \E o \in OpensOf(s) : ReadOpen(o) \/ RefuseOpen(o)
    \/ \E i \in Ids, n \in ChunkSizes : ReadData(s, i, n) \/ ShedStream(s, i, n)
    \/ \E i \in Ids : SkipData(s, i) \/ ReadClose(s, i)

Running(p) == pc[p] \notin {"idle", "exit"}

\* The session's read loop has ended and so have all goroutines it started.
SessionOver(s) ==
    /\ At(Loop(s), "exit")
    /\ \A o \in OpensOf(s) : \A k \in {"open", "reader", "pump"} : ~Running(<<k, o>>)

\* Every session is over: nothing is left to do.
Finished == (\A s \in Sessions : SessionOver(s)) /\ UNCHANGED vars

Next ==
    \/ \E s \in Sessions :
           \/ ConnBreaks(s) \/ ReapConn(s) \/ ReadFrame(s)
           \/ Enqueue(s) \/ DropChunk(s) \/ CloseAll(s)
    \/ \E o \in Opens : HandleOpen(o) \/ ReadUpstream(o) \/ PumpUpstream(o)
    \/ \E p \in Procs : CloseStream(p)
    \/ Finished

Spec == Init /\ [][Next]_vars

-----------------------------------------------------------------------------
(* Fairness.  A goroutine that can run does, but it may wait forever for    *)
(* the environment: the loop for a frame, a reader for upstream bytes, a    *)
(* pump for an upstream that accepts no more and, unless PeerReads, any     *)
(* writer for a peer that stopped reading (the session's connection has no  *)
(* write deadline).  Dialling ends by dialTimeout.  Reads and writes on a   *)
(* connection this process closed, or that broke, end.                      *)

MayBlock(p) ==
    \/ At(p, "read") /\ p[1] = "loop"
    \/ At(p, "read") /\ p[1] = "reader" /\ upstream[p[2]] = "open"
    \/ At(p, "write") /\ upstream[p[2]] = "open"
    \/ /\ pc[p] \in {"openok", "read", "write"}
       /\ conn[SessionOf(p)] = "up" /\ ~PeerReads

Step(p) ==
    \/ p[1] = "loop" /\ (Enqueue(p[2]) \/ DropChunk(p[2]) \/ CloseAll(p[2]))
    \/ p[1] = "open" /\ HandleOpen(p[2])
    \/ p[1] = "reader" /\ ReadUpstream(p[2])
    \/ p[1] = "pump" /\ PumpUpstream(p[2])
    \/ CloseStream(p)

\* A broken or closed connection yields only finitely many more frames.
Fairness ==
    /\ \A p \in Procs : WF_vars(~MayBlock(p) /\ Step(p))
    /\ \A s \in Sessions : SF_vars(conn[s] # "up" /\ LoopFails(s))

FairSpec == Spec /\ Fairness

-----------------------------------------------------------------------------
(* Properties *)

\* Every variable keeps its kind: in particular openSem never exceeds the
\* capacity of the semaphore channel, and neither qbytes nor v2GlobalBuffered
\* goes below zero.
TypeOK ==
    /\ conn \in [Sessions -> {"up", "broken", "closed"}]
    /\ sclosed \in [Sessions -> BOOLEAN]
    /\ streams \in [Sessions -> [Ids -> Opens \cup {None}]]
    /\ openSem \in [Sessions -> 0 .. MaxOpens]
    /\ buffered \in [Sessions -> Int]
    /\ globalBuffered \in Nat
    /\ closed \in [Opens -> BOOLEAN]
    /\ upstream \in [Opens -> {"none", "open", "closed"}]
    /\ queue \in [Opens -> Seq(Nat)]
    /\ qbytes \in [Opens -> Nat]
    /\ pc \in [Procs -> LoopLabels \cup OpenLabels \cup ReaderLabels \cup PumpLabels]
    /\ target \in [Procs -> Opens \cup {None}]
    /\ frameId \in [Sessions -> Ids \cup {None}]
    /\ frameLen \in [Sessions -> ChunkSizes \cup {0}]
    /\ due \in [Sessions -> SUBSET Opens]
    /\ visited \in [Sessions -> SUBSET Ids]
    /\ dataIn \in [Sessions -> 0 .. MaxData]
    /\ told \in [Opens -> SUBSET {"OPEN_OK", "OPEN_ERR", "CLOSE"}]
    /\ peerClosed \in [Opens -> BOOLEAN]

\* The counters agree with the queues at every step: qbytes is the length of
\* the queued chunks, v2GlobalBuffered the sum over every stream that ever
\* was, and a session's buffered counter, until closeAll abandons it, the sum
\* over its streams.  No byte is reclaimed twice, by the pump, closeStream and
\* closeAll together, and none is forgotten.
BudgetExact ==
    /\ \A o \in Opens : qbytes[o] = Total(queue[o])
    /\ globalBuffered = Total(qbytes)
    /\ \A s \in Sessions : ~sclosed[s] => buffered[s] = TotalOn(OpensOf(s), qbytes)

\* A stream that is closed holds no byte of the budgets, unless the goroutine
\* that won the CompareAndSwap is just about to give them back.
ClosedIsReclaimed ==
    \A o \in Opens :
        closed[o] /\ qbytes[o] > 0 =>
            \E p \in Procs : target[p] = o /\ pc[p] \in {"cs_reclaim", "ca_reclaim"}

\* The session cap is exact, because only the session's own read loop adds to
\* its counter after comparing.  The global cap is overshot by at most one
\* chunk per other session: every loop compares before it adds.
CapsHold ==
    /\ \A s \in Sessions : ~sclosed[s] => buffered[s] <= SessionCap
    /\ globalBuffered <= GlobalCap + (Cardinality(Sessions) - 1) * MaxChunk

\* The semaphore counts the handleOpen goroutines in flight, so an OPEN is
\* refused only when MaxOpens of them are running.
SemaphoreExact ==
    \A s \in Sessions :
        openSem[s] = Cardinality({o \in OpensOf(s) : Running(Opener(o))})

\* "The peer gets a CLOSE so the upload fails loudly": while the connection is
\* up, a stream the peer did not close itself is closed only after a CLOSE
\* frame for it was written.
FailsLoudly ==
    \A o \in Opens :
        LET s == SessOf[o] IN
        closed[o] /\ conn[s] = "up" /\ ~sclosed[s] =>
            "CLOSE" \in told[o] \/ peerClosed[o]

\* When a session and its goroutines have ended, no upstream connection and no
\* map entry of it is left, however closeAll, closeStream and handleOpen raced.
NoOrphan ==
    \A s \in Sessions : SessionOver(s) =>
        /\ InMap(s) = {}
        /\ \A o \in OpensOf(s) : upstream[o] # "open"

\* ... and it holds no byte of the process-wide budget: "the process-global
\* one must be reclaimed or it leaks upward" (closeAll).
GlobalReclaimed ==
    \A s \in Sessions : SessionOver(s) => \A o \in OpensOf(s) : qbytes[o] = 0

\* Another OPEN of the session carries the same id.
IdShared(o) == \E u \in Opens \ {o} : SessOf[u] = SessOf[o] /\ IdOf[u] = IdOf[o]

\* A stream that is open but no longer in the map, because closeAll or the undo
\* of another handleOpen deleted its id: closeAll has no way to find it.
Displaced(o) == IdShared(o) /\ ~closed[o] /\ o \notin InMap(SessOf[o])

\* A connection that broke or was closed by the reaper takes the whole session
\* with it: closeAll runs and every goroutine of every stream ends, the pump
\* parked in cond.Wait and the reader blocked in Read included.  Only a stream
\* whose id the peer reused may be left, if its map entry was deleted in the
\* other's name: its reader lasts until its upstream ends, a parked pump for good.
TornDown ==
    \A s \in Sessions : conn[s] # "up" ~>
        /\ At(Loop(s), "exit")
        /\ \A o \in OpensOf(s) :
              Displaced(o) \/ \A k \in {"open", "reader", "pump"} : ~Running(<<k, o>>)

\* A closed stream's goroutines end while the session lives on.
StreamEnds ==
    \A o \in Opens : closed[o] ~> ~Running(Reader(o)) /\ ~Running(Pump(o))

\* A handleOpen that has ended in a session that is up has told the peer OPEN_OK
\* or OPEN_ERR, on each of its ways out but one: an OPEN whose id is in use, or
\* was when LoadOrStore looked, is refused without a word.
OpenAnswered ==
    \A o \in Opens :
        LET s == SessOf[o] IN
        At(Opener(o), "exit") /\ conn[s] = "up" /\ ~sclosed[s] =>
            \/ told[o] \cap {"OPEN_OK", "OPEN_ERR"} # {}
            \/ \E u \in Opens \ {o} :
                  SessOf[u] = s /\ IdOf[u] = IdOf[o] /\ upstream[u] # "none"

=============================================================================
