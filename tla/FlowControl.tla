---------------------------- MODULE FlowControl -----------------------------
(***************************************************************************)
(* Windowed flow control of uploads over one session, both ends of it: the *)
(* writer and the read loop of a client (cmd/mxtr-testclient-v2/main.go)   *)
(* and the read loop, queue and pump of the server (session_v2.go), joined *)
(* by the two FIFO byte streams of their connection.                       *)
(*                                                                         *)
(* Chunk k of upload u has length Plan[u][k]; frames carry chunk numbers,  *)
(* so that loss, duplication and reordering would show.  closeStream is    *)
(* two steps here, the map's LoadAndDelete and the reclaim, and the        *)
(* server's byte counter is the sum of the queues: module StreamMux has    *)
(* every interleaving inside closeStream and shows the counter to be that  *)
(* sum.  What other sessions hold of the process-wide budget is chosen by  *)
(* the environment.  Downloads are left out, and so is the second CLOSE a  *)
(* reader may send for a stream that was closed already: the client skips  *)
(* it.                                                                     *)
(***************************************************************************)
EXTENDS Totals

CONSTANTS
    Uploads,        \* streams of the session, each carrying one upload
    Plan,           \* [Uploads -> Seq(Nat)]: the lengths of the chunks written
    Window,         \* v2InitialWindow
    SessionCap,     \* v2SessionBufferCap
    GlobalCap,      \* v2GlobalBufferCap
    OtherBytes,     \* what other sessions may hold of v2GlobalBuffered
    HalfClose,      \* uploads of the SOCKS5 bridge: CLOSE follows the last chunk
    MayFail,        \* uploads whose dial or upstream may fail
    MayTimeOut      \* uploads whose OPEN may time out in the client

\* v2WindowUpdateThreshold
Threshold == Window \div 2

ASSUME FlowAssumption ==
    /\ IsFiniteSet(Uploads)
    /\ Window \in Nat /\ SessionCap \in Nat /\ GlobalCap \in Nat
    /\ OtherBytes \subseteq Nat
    /\ Plan \in [Uploads -> Seq(1 .. Window)]
    /\ HalfClose \subseteq Uploads
    /\ MayFail \subseteq Uploads /\ MayTimeOut \subseteq Uploads

VARIABLES
    cpc,            \* client: where the writer of each upload is
    sent,           \* client: chunks written to the connection so far
    sendWindow,     \* client: stream.sendWindow
    answer,         \* client: what sits in the openOK or openErr channel
    known,          \* client: ids in session.streams
    cclosed,        \* client: stream.closed
    waking,         \* client: the stream whose markClosed is half done, or {}
    c2s, s2c,       \* frames in the connection, oldest first
    stream,         \* server: "none", "dialing", "open", in closeStream run by
                    \* the read loop ("dropping") or by another goroutine of the
                    \* stream ("closing"), "closed"
    queue,          \* server: v2Stream.queue, as chunk numbers
    pump,           \* server: "idle", "take", "write", "credit", "exit"
    hand,           \* server: the chunk the pump took, and emptyNow
    credited,       \* server: bytes drained since the last WINDOW_UPDATE
    others,         \* server: v2GlobalBuffered less this session's bytes
    got,            \* upstream: chunks received, in order
    shed,           \* history: streams shed for the byte budget
    failed          \* history: uploads whose upstream failed or ended

cvars == <<cpc, sent, sendWindow, answer, known, cclosed, waking>>
svars == <<stream, queue, pump, hand, credited>>
vars == <<cvars, c2s, s2c, svars, others, got, shed, failed>>

Size(u, k) == Plan[u][k]
NoChunk == [chunk |-> 0, emptyNow |-> FALSE]

\* The bytes a server has queued for a stream, and for the session.
Queued(u) == Total([i \in 1 .. Len(queue[u]) |-> Size(u, queue[u][i])])
Buffered == Total([u \in Uploads |-> Queued(u)])

Init ==
    /\ cpc = [u \in Uploads |-> "idle"]
    /\ sent = [u \in Uploads |-> 0]
    /\ sendWindow = [u \in Uploads |-> 0]
    /\ answer = [u \in Uploads |-> {}]
    /\ known = {}
    /\ cclosed = {}
    /\ waking = {}
    /\ c2s = <<>> /\ s2c = <<>>
    /\ stream = [u \in Uploads |-> "none"]
    /\ queue = [u \in Uploads |-> <<>>]
    /\ pump = [u \in Uploads |-> "idle"]
    /\ hand = [u \in Uploads |-> NoChunk]
    /\ credited = [u \in Uploads |-> 0]
    /\ others \in OtherBytes
    /\ got = [u \in Uploads |-> <<>>]
    /\ shed = {} /\ failed = {}

ToServer(t, u, k) == c2s' = Append(c2s, [type |-> t, id |-> u, val |-> k])
ToClient(t, u, n) == s2c' = Append(s2c, [type |-> t, id |-> u, val |-> n])
CGoto(u, l) == cpc' = [cpc EXCEPT ![u] = l]
PGoto(u, l) == pump' = [pump EXCEPT ![u] = l]

-----------------------------------------------------------------------------
(* The client's writer: session.open, then streamWriter.Write or the SOCKS5 *)
(* bridge, chunk by chunk.                                                  *)

ClientOpen(u) ==
    /\ cpc[u] = "idle"
    /\ known' = known \cup {u}
    /\ ToServer("OPEN", u, 0)
    /\ CGoto(u, "opening")
    /\ UNCHANGED <<sent, sendWindow, answer, cclosed, waking, s2c, svars, others, got, shed, failed>>

\* select in open(): an answer is there ...
OpenReturns(u) ==
    /\ cpc[u] = "opening"
    /\ \/ "ok" \in answer[u] /\ CGoto(u, "send") /\ UNCHANGED known
       \/ "err" \in answer[u] /\ CGoto(u, "failed") /\ known' = known \ {u}
    /\ UNCHANGED <<sent, sendWindow, answer, cclosed, waking, c2s, s2c>>
    /\ UNCHANGED <<svars, others, got, shed, failed>>

\* ... or 15 seconds have passed without one; the server is not told.
OpenTimesOut(u) ==
    /\ u \in MayTimeOut
    /\ cpc[u] = "opening" /\ answer[u] = {}
    /\ CGoto(u, "failed")
    /\ known' = known \ {u}
    /\ UNCHANGED <<sent, sendWindow, answer, cclosed, waking, c2s, s2c>>
    /\ UNCHANGED <<svars, others, got, shed, failed>>

NextSize(u) == Size(u, sent[u] + 1)

\* Mutant: the window is compared with, but not reduced.
AcquireForFree(u) ==
    /\ cpc[u] = "send" /\ sent[u] < Len(Plan[u])
    /\ sendWindow[u] >= NextSize(u)
    /\ CGoto(u, "write")
    /\ UNCHANGED <<sent, sendWindow, answer, known, cclosed, waking, c2s, s2c>>
    /\ UNCHANGED <<svars, others, got, shed, failed>>

\* acquireWindow, under winMu: there is room; whether the stream was closed is
\* not looked at.
Acquire(u) ==
    /\ cpc[u] = "send" /\ sent[u] < Len(Plan[u])
    /\ sendWindow[u] >= NextSize(u)
    /\ sendWindow' = [sendWindow EXCEPT ![u] = @ - NextSize(u)]
    /\ CGoto(u, "write")
    /\ UNCHANGED <<sent, answer, known, cclosed, waking, c2s, s2c, svars, others, got, shed, failed>>

\* ... no room: wait on winCond, unless the stream is closed.
AwaitWindow(u) ==
    /\ cpc[u] = "send" /\ sent[u] < Len(Plan[u])
    /\ sendWindow[u] < NextSize(u)
    /\ CGoto(u, IF u \notin cclosed THEN "parked" ELSE IF u \in HalfClose THEN "broken" ELSE "failed")
    /\ UNCHANGED <<sent, sendWindow, answer, known, cclosed, waking, c2s, s2c>>
    /\ UNCHANGED <<svars, others, got, shed, failed>>

\* writeStreamFrame(DATA)
WriteChunk(u) ==
    /\ cpc[u] = "write"
    /\ ToServer("DATA", u, sent[u] + 1)
    /\ sent' = [sent EXCEPT ![u] = @ + 1]
    /\ CGoto(u, "send")
    /\ UNCHANGED <<sendWindow, answer, known, cclosed, waking, s2c, svars, others, got, shed, failed>>

\* Everything is written.  The SOCKS5 bridge then meets the end of its input
\* and sends CLOSE.
FinishWriting(u) ==
    /\ cpc[u] = "send" /\ sent[u] = Len(Plan[u])
    /\ IF u \in HalfClose THEN ToServer("CLOSE", u, 0) ELSE UNCHANGED c2s
    /\ CGoto(u, "sent")
    /\ UNCHANGED <<sent, sendWindow, answer, known, cclosed, waking, s2c, svars, others, got, shed, failed>>

\* The SOCKS5 bridge goes on reading after a write failed; here its input has
\* nothing more but its end, for which it sends CLOSE as ever.
BridgeEnds(u) ==
    /\ cpc[u] = "broken"
    /\ ToServer("CLOSE", u, 0)
    /\ CGoto(u, "failed")
    /\ UNCHANGED <<sent, sendWindow, answer, known, cclosed, waking, s2c, svars, others, got, shed, failed>>

-----------------------------------------------------------------------------
(* The client's read loop. *)

ReadsFrame(t, u) ==
    /\ waking = {} /\ s2c # <<>>
    /\ Head(s2c).type = t /\ Head(s2c).id = u
    /\ s2c' = Tail(s2c)

Unpark(us) ==
    cpc' = [u \in Uploads |-> IF u \in us /\ cpc[u] = "parked" THEN "send" ELSE cpc[u]]

ReadOpenOk(u) ==
    /\ ReadsFrame("OPEN_OK", u)
    /\ sendWindow' = [sendWindow EXCEPT ![u] = IF u \in known THEN Head(s2c).val ELSE @]
    /\ answer' = [answer EXCEPT ![u] = IF u \in known THEN @ \cup {"ok"} ELSE @]
    /\ UNCHANGED <<cpc, sent, known, cclosed, waking, c2s, svars, others, got, shed, failed>>

ReadOpenErr(u) ==
    /\ ReadsFrame("OPEN_ERR", u)
    /\ answer' = [answer EXCEPT ![u] = IF u \in known THEN @ \cup {"err"} ELSE @]
    /\ UNCHANGED <<cpc, sent, sendWindow, known, cclosed, waking, c2s, svars, others, got, shed, failed>>

ReadWindowUpdate(u) ==
    /\ ReadsFrame("WINDOW_UPDATE", u)
    /\ sendWindow' = [sendWindow EXCEPT ![u] = IF u \in known THEN @ + Head(s2c).val ELSE @]
    /\ Unpark({u} \cap known)
    /\ UNCHANGED <<sent, answer, known, cclosed, waking, c2s, svars, others, got, shed, failed>>

\* CLOSE: markClosed sets the flag ...
ReadCloseFrame(u) ==
    /\ ReadsFrame("CLOSE", u)
    /\ IF u \in known /\ u \notin cclosed
       THEN cclosed' = cclosed \cup {u} /\ waking' = {u} /\ UNCHANGED known
       ELSE known' = known \ {u} /\ UNCHANGED <<cclosed, waking>>
    /\ UNCHANGED <<cpc, sent, sendWindow, answer, c2s, svars, others, got, shed, failed>>

\* Mutant: markClosed wakes nobody.
WakeNobody ==
    /\ waking # {}
    /\ known' = known \ waking
    /\ waking' = {}
    /\ UNCHANGED <<cpc, sent, sendWindow, answer, cclosed, c2s, s2c, svars, others, got, shed, failed>>

\* ... then wakes a writer parked on the window; the stream leaves the map.
WakeWriter ==
    /\ waking # {}
    /\ Unpark(waking)
    /\ known' = known \ waking
    /\ waking' = {}
    /\ UNCHANGED <<sent, sendWindow, answer, cclosed, c2s, s2c, svars, others, got, shed, failed>>

-----------------------------------------------------------------------------
(* The server's read loop and handleOpen. *)

\* The next frame is read once the loop is out of closeStream.
Receives(t, u) ==
    /\ \A v \in Uploads : stream[v] # "dropping"
    /\ c2s # <<>> /\ Head(c2s).type = t /\ Head(c2s).id = u
    /\ c2s' = Tail(c2s)

ReadOpen(u) ==
    /\ Receives("OPEN", u)
    /\ stream' = [stream EXCEPT ![u] = "dialing"]
    /\ UNCHANGED <<cvars, s2c, queue, pump, hand, credited, others, got, shed, failed>>

DialSucceeds(u) ==
    /\ stream[u] = "dialing"
    /\ stream' = [stream EXCEPT ![u] = "open"]
    /\ ToClient("OPEN_OK", u, Window)
    /\ PGoto(u, "take")
    /\ UNCHANGED <<cvars, c2s, queue, hand, credited, others, got, shed, failed>>

DialFails(u) ==
    /\ u \in MayFail /\ stream[u] = "dialing"
    /\ stream' = [stream EXCEPT ![u] = "closed"]
    /\ ToClient("OPEN_ERR", u, 0)
    /\ failed' = failed \cup {u}
    /\ UNCHANGED <<cvars, c2s, queue, pump, hand, credited, others, got, shed>>

\* Other sessions queue and drain, in between any two steps of this one.
OthersMove ==
    /\ others' \in OtherBytes
    /\ UNCHANGED <<cvars, c2s, s2c, svars, got, shed, failed>>

\* Mutant: >= instead of >.
OverBudgetEarly(n) == Buffered + n >= SessionCap \/ Buffered + others + n >= GlobalCap

OverBudget(n) == Buffered + n > SessionCap \/ Buffered + others + n > GlobalCap

\* Mutant: the newest chunk is put in front.
QueueFirst(u, k) == queue' = [queue EXCEPT ![u] = <<k>> \o @]

QueueChunk(u, k) == queue' = [queue EXCEPT ![u] = Append(@, k)]

\* closeStream: first the stream leaves the map ...
LeaveMap(u, how) == stream' = [stream EXCEPT ![u] = how]

\* ... then its bytes leave the budgets, and its upstream is closed.
Reclaim(u) ==
    /\ stream[u] \in {"dropping", "closing"}
    /\ stream' = [stream EXCEPT ![u] = "closed"]
    /\ queue' = [queue EXCEPT ![u] = <<>>]
    /\ UNCHANGED <<cvars, c2s, s2c, pump, hand, credited, others, got, shed, failed>>

\* DATA: queued, shed for want of room, or skipped if there is no stream.
ReadData(u) ==
    LET k == Head(c2s).val IN
    /\ Receives("DATA", u)
    /\ \/ /\ stream[u] = "open" /\ ~OverBudget(Size(u, k))
          /\ QueueChunk(u, k)
          /\ UNCHANGED <<stream, s2c, shed>>
       \/ /\ stream[u] = "open" /\ OverBudget(Size(u, k))
          /\ ToClient("CLOSE", u, 0)
          /\ LeaveMap(u, "dropping") /\ UNCHANGED queue
          /\ shed' = shed \cup {u}
       \/ /\ stream[u] # "open"
          /\ UNCHANGED <<stream, queue, s2c, shed>>
    /\ UNCHANGED <<cvars, pump, hand, credited, others, got, failed>>

\* CLOSE from the client.
ReadClose(u) ==
    /\ Receives("CLOSE", u)
    /\ IF stream[u] = "open" THEN LeaveMap(u, "dropping") ELSE UNCHANGED stream
    /\ UNCHANGED <<cvars, s2c, queue, pump, hand, credited, others, got, shed, failed>>

\* The reader meets the end of the upstream or an error.
UpstreamEnds(u) ==
    /\ u \in MayFail /\ stream[u] = "open"
    /\ ToClient("CLOSE", u, 0)
    /\ LeaveMap(u, "closing")
    /\ failed' = failed \cup {u}
    /\ UNCHANGED <<cvars, c2s, queue, pump, hand, credited, others, got, shed>>

-----------------------------------------------------------------------------
(* The pump. *)

\* Until closeStream has reclaimed it, a stream that is closing has its queue
\* and its upstream; the pump goes on, until it sees that closed is set.
Alive(u) == stream[u] \in {"open", "dropping", "closing"}

PumpTakes(u) ==
    /\ pump[u] = "take" /\ Alive(u)
    /\ queue[u] # <<>>
    /\ hand' = [hand EXCEPT ![u] = [chunk |-> Head(queue[u]), emptyNow |-> Len(queue[u]) = 1]]
    /\ queue' = [queue EXCEPT ![u] = Tail(@)]
    /\ PGoto(u, "write")
    /\ UNCHANGED <<cvars, c2s, s2c, stream, credited, others, got, shed, failed>>

PumpEnds(u) ==
    /\ pump[u] = "take" /\ stream[u] \in {"dropping", "closing", "closed"}
    /\ PGoto(u, "exit")
    /\ UNCHANGED <<cvars, c2s, s2c, stream, queue, hand, credited, others, got, shed, failed>>

\* upstream.Write succeeds; the upstream is still open.
PumpWrites(u) ==
    /\ pump[u] = "write" /\ Alive(u)
    /\ got' = [got EXCEPT ![u] = Append(@, hand[u].chunk)]
    /\ credited' = [credited EXCEPT ![u] = @ + Size(u, hand[u].chunk)]
    /\ PGoto(u, "credit")
    /\ UNCHANGED <<cvars, c2s, s2c, stream, queue, hand, others, shed, failed>>

\* It fails: because the upstream was closed, or of itself.  If the stream is
\* still in the map the pump closes it.
PumpFails(u) ==
    /\ pump[u] = "write"
    /\ stream[u] = "closed" \/ u \in MayFail
    /\ ToClient("CLOSE", u, 0)
    /\ IF stream[u] = "open"
       THEN LeaveMap(u, "closing") /\ failed' = failed \cup {u}
       ELSE UNCHANGED <<stream, failed>>
    /\ PGoto(u, "exit")
    /\ UNCHANGED <<cvars, c2s, queue, hand, credited, others, got, shed>>

\* Mutant: no flush when the queue is empty.
CreditDueLate(u) == credited[u] >= Threshold

\* A full batch, or the queue was empty after the chunk was taken.
CreditDue(u) == credited[u] >= Threshold \/ (hand[u].emptyNow /\ credited[u] > 0)

PumpCredits(u) ==
    /\ pump[u] = "credit"
    /\ IF CreditDue(u)
       THEN /\ ToClient("WINDOW_UPDATE", u, credited[u])
            /\ credited' = [credited EXCEPT ![u] = 0]
       ELSE UNCHANGED <<s2c, credited>>
    /\ PGoto(u, "take")
    /\ hand' = [hand EXCEPT ![u] = NoChunk]
    /\ UNCHANGED <<cvars, c2s, stream, queue, others, got, shed, failed>>

-----------------------------------------------------------------------------
Writer(u) ==
    \/ ClientOpen(u) \/ OpenReturns(u) \/ Acquire(u) \/ AwaitWindow(u)
    \/ WriteChunk(u) \/ FinishWriting(u) \/ BridgeEnds(u)

ClientLoop ==
    \/ \E u \in Uploads : \/ ReadOpenOk(u) \/ ReadOpenErr(u)
                          \/ ReadWindowUpdate(u) \/ ReadCloseFrame(u)
    \/ WakeWriter

ServerLoop == \E u \in Uploads : ReadOpen(u) \/ ReadData(u) \/ ReadClose(u)

Pump(u) ==
    PumpTakes(u) \/ PumpEnds(u) \/ PumpWrites(u) \/ PumpFails(u) \/ PumpCredits(u)

\* Nothing to read or to drain, and no writer that could write.
Quiet ==
    /\ \A u \in Uploads : /\ cpc[u] \in {"sent", "failed", "parked"}
                          /\ pump[u] \in {"idle", "take", "exit"}
    /\ c2s = <<>> /\ s2c = <<>> /\ waking = {}
    /\ \A u \in Uploads : queue[u] = <<>> /\ stream[u] \in {"none", "open", "closed"}
    /\ \A u \in Uploads : pump[u] = "take" => stream[u] = "open"
    /\ UNCHANGED vars

Next ==
    \/ \E u \in Uploads : \/ Writer(u) \/ OpenTimesOut(u)
                          \/ DialSucceeds(u) \/ DialFails(u) \/ UpstreamEnds(u)
                          \/ Pump(u) \/ Reclaim(u)
    \/ ClientLoop \/ ServerLoop \/ OthersMove
    \/ Quiet

Spec == Init /\ [][Next]_vars

(* Every goroutine that can run does; both read loops keep reading, a dial  *)
(* ends by dialTimeout, and an upstream that is open accepts bytes in the   *)
(* end or fails.                                                            *)
FairSpec ==
    /\ Spec
    /\ WF_vars(ClientLoop) /\ WF_vars(ServerLoop)
    /\ \A u \in Uploads :
           /\ WF_vars(Writer(u)) /\ WF_vars(Pump(u)) /\ WF_vars(Reclaim(u))
           /\ WF_vars(DialSucceeds(u) \/ DialFails(u))

-----------------------------------------------------------------------------
(* Properties *)

\* Bytes of u in frames of one type on their way, each frame weighing w(val).
OnTheWay(q, t, u, w(_)) ==
    Total([i \in 1 .. Len(q) |-> IF q[i].type = t /\ q[i].id = u THEN w(q[i].val) ELSE 0])

\* No credit is lost or invented: while a stream is open, the client's window,
\* the bytes it acquired, on the wire, queued or in the pump's hand, the bytes
\* drained but not yet credited and the credits on the wire are together always
\* the window the server advertised.
WindowConserved ==
    \A u \in Uploads :
        LET Chunk(k) == Size(u, k)
            Same(n) == n
        IN  stream[u] = "open" /\ "ok" \in answer[u] =>
                Window = sendWindow[u]
                         + (IF cpc[u] = "write" THEN NextSize(u) ELSE 0)
                         + OnTheWay(c2s, "DATA", u, Chunk)
                         + Queued(u)
                         + (IF pump[u] = "write" THEN Size(u, hand[u].chunk) ELSE 0)
                         + credited[u]
                         + OnTheWay(s2c, "WINDOW_UPDATE", u, Same)

\* The windows of the streams that can have bytes queued.
Windows == Cardinality({u \in Uploads : Alive(u)}) * Window

\* "a well-behaved client self-limits ... and is never shed": the budgets shed an
\* upload of a client that keeps to its windows only while the windows of the
\* streams it has open, and of those that are being closed, exceed the session's
\* cap, or exceed the process-wide one together with what other sessions hold.
ShedOnlyIfCrowded ==
    [][shed' # shed => Windows > SessionCap \/ Windows + others > GlobalCap]_vars

\* The promise of module Upload, with what the upstream received as its got
\* and a stream that was closed as its end.
Promise == INSTANCE Upload WITH over <- {u \in Uploads : stream[u] = "closed"}
RefinesUpload == Promise!Spec

\* An upload makes its way: unless its OPEN or its upstream fails, or it is shed,
\* every chunk reaches the upstream, whatever the sizes of chunks, window and
\* threshold.
UploadArrives ==
    \A u \in Uploads \ HalfClose :
        cpc[u] = "opening" ~>
            Len(got[u]) = Len(Plan[u]) \/ cpc[u] = "failed" \/ u \in failed \cup shed

\* A writer parked on the window is woken: by credit, or by the end of the stream.
NoStuckWriter == \A u \in Uploads : cpc[u] = "parked" ~> cpc[u] # "parked"
=============================================================================
