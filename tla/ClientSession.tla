--------------------------- MODULE ClientSession ----------------------------
(***************************************************************************)
(* The receive side of a session: the goroutine of the server that reads   *)
(* an upstream and sends DATA (handleOpen in session_v2.go), the bounded   *)
(* connection, and the test client that shares one read loop among its     *)
(* streams (cmd/mxtr-testclient-v2/main.go): open, readLoop, deliver,      *)
(* markClosed, session.close and the two goroutines of the SOCKS5 bridge.  *)
(*                                                                         *)
(* Uploads are in module FlowControl; of a writer only its wait for the    *)
(* window is kept, and that its upload may fail at the server.  Here no    *)
(* OPEN is refused, CLOSE and the closeStream that follows are one step,   *)
(* as is markClosed, and a connection carries one PING.                    *)
(***************************************************************************)
EXTENDS Integers, Sequences, FiniteSets

CONSTANTS
    Streams,        \* the streams of the session
    Fresh,          \* those the client has yet to open
    Down,           \* [Streams -> Nat]: the chunks each upstream sends
    ChanCap,        \* cap(stream.incoming), 32 in the code
    WireCap,        \* frames a direction of the connection holds
    MayLeave,       \* streams whose local application may stop reading
    MayFail         \* streams whose upload may fail at the server

ASSUME ClientAssumption ==
    /\ Down \in [Streams -> Nat]
    /\ ChanCap \in Nat \ {0} /\ WireCap \in Nat \ {0}
    /\ Fresh \subseteq Streams /\ MayLeave \subseteq Streams /\ MayFail \subseteq Streams

VARIABLES
    wire,           \* "up", "cut" (lost, or closed by the server) or "closed" (by the client)
    s2c, c2s,       \* frames on their way, oldest first
    srv,            \* server: "none", "dialing", "open" or "closed" per stream
    reader,         \* server: where the goroutine that reads the upstream is
    taken,          \* server: chunks read from the upstream
    ping,           \* server: "none", "sent" or "answered"
    shed,           \* server: the stream its read loop is shedding, if any
    failed,         \* history: streams the server gave up in mid-download
    loop,           \* client: where the read loop is
    held,           \* client: the frame the read loop is busy with
    closed,         \* client: session.closed
    known,          \* client: ids in session.streams
    due,            \* client: ids session.close's Range has still to visit
    marked,         \* client: streams with closed set and incoming closed
    openOK,         \* client: streams with a token in openOK
    incoming,       \* client: stream.incoming, as chunk numbers
    copier,         \* client: handleSocks5: open, then io.Copy(c, st)
    bridge,         \* client: the goroutine that reads the local application
    seen            \* local application: chunks received, in order

wvars == <<wire, s2c, c2s>>
fvars == <<shed, failed>>
svars == <<srv, reader, taken, ping, fvars>>
lvars == <<loop, held, closed, due, marked, openOK>>
avars == <<copier, bridge, seen>>
vars == <<wvars, svars, lvars, known, incoming, avars>>

NoFrame == [type |-> "none"]
Frame(t, u) == [type |-> t, id |-> u]
Data(u, k) == [type |-> "DATA", id |-> u, chunk |-> k]

\* x for a stream the client has yet to open, y for one that is open.
Initially(x, y) == [u \in Streams |-> IF u \in Fresh THEN x ELSE y]

Init ==
    /\ wire = "up" /\ s2c = <<>> /\ c2s = <<>>
    /\ srv = Initially("none", "open")
    /\ reader = Initially("idle", "check")
    /\ taken = [u \in Streams |-> 0]
    /\ ping = "none"
    /\ shed = {} /\ failed = {}
    /\ loop = "read" /\ held = NoFrame
    /\ closed = FALSE
    /\ known = Streams \ Fresh /\ openOK = Streams \ Fresh
    /\ due = {} /\ marked = {}
    /\ incoming = [u \in Streams |-> <<>>]
    /\ copier = Initially("idle", "copy")
    /\ bridge = Initially("idle", "read")
    /\ seen = [u \in Streams |-> <<>>]

\* A frame is written once the connection has room for it.
ServerWrites(f) == wire = "up" /\ Len(s2c) < WireCap /\ s2c' = Append(s2c, f)
ClientWrites(f) == wire = "up" /\ Len(c2s) < WireCap /\ c2s' = Append(c2s, f)

\* A write of the client fails: the connection is gone, or writeStreamFrame
\* finds the session closed.
WriteFails == wire # "up" \/ closed

-----------------------------------------------------------------------------
(* The server *)

RGoto(u, l) == reader' = [reader EXCEPT ![u] = l]
Drop(u) == srv' = [srv EXCEPT ![u] = "closed"]

ServerReads(t, u) == shed = {} /\ c2s # <<>> /\ Head(c2s) = Frame(t, u) /\ c2s' = Tail(c2s)

\* The read loop: OPEN starts handleOpen, CLOSE meets closeStream.
ReadOpen(u) ==
    /\ wire = "up" /\ ServerReads("OPEN", u)
    /\ srv' = [srv EXCEPT ![u] = "dialing"]
    /\ UNCHANGED <<wire, s2c, reader, taken, ping, fvars, lvars, known, incoming, avars>>

ReadClose(u) ==
    /\ wire = "up" /\ ServerReads("CLOSE", u)
    /\ IF srv[u] = "open" THEN Drop(u) ELSE UNCHANGED srv
    /\ UNCHANGED <<wire, s2c, reader, taken, ping, fvars, lvars, known, incoming, avars>>

ReadPong ==
    /\ wire = "up" /\ shed = {} /\ c2s # <<>> /\ Head(c2s).type = "PONG"
    /\ c2s' = Tail(c2s)
    /\ ping' = "answered"
    /\ UNCHANGED <<wire, s2c, srv, reader, taken, fvars, lvars, known, incoming, avars>>

\* heartbeatLoop sends PING after a silence, when no writer has work.
SendPing ==
    /\ ping = "none" /\ s2c = <<>>
    /\ \A u \in Streams : reader[u] \in {"idle", "read", "left", "exit"}
    /\ ServerWrites([type |-> "PING"])
    /\ ping' = "sent"
    /\ UNCHANGED <<wire, c2s, srv, reader, taken, fvars, lvars, known, incoming, avars>>

\* handleOpen: the dial succeeds, OPEN_OK, the reader is started.
Dialed(u) ==
    /\ srv[u] = "dialing"
    /\ ServerWrites(Frame("OPEN_OK", u))
    /\ srv' = [srv EXCEPT ![u] = "open"]
    /\ RGoto(u, "check")
    /\ UNCHANGED <<wire, c2s, taken, ping, fvars, lvars, known, incoming, avars>>

\* The reader looks at st.closing before it blocks in Read; a stream closed by
\* then ends without a CLOSE to the client.
Check(u) ==
    /\ wire = "up" /\ reader[u] = "check"
    /\ RGoto(u, IF srv[u] = "closed" THEN "left" ELSE "read")
    /\ UNCHANGED <<wvars, srv, taken, ping, fvars, lvars, known, incoming, avars>>

ReadUpstream(u) ==
    /\ wire = "up" /\ reader[u] = "read" /\ srv[u] = "open"
    /\ taken[u] < Down[u]
    /\ taken' = [taken EXCEPT ![u] = @ + 1]
    /\ RGoto(u, "write")
    /\ UNCHANGED <<wvars, srv, ping, fvars, lvars, known, incoming, avars>>

WriteData(u) ==
    /\ reader[u] = "write"
    /\ ServerWrites(Data(u, taken[u]))
    /\ RGoto(u, "check")
    /\ UNCHANGED <<wire, c2s, srv, taken, ping, fvars, lvars, known, incoming, avars>>

\* Mutant: no CLOSE at the end of the upstream.
UpstreamOverSilently(u) ==
    /\ reader[u] = "read"
    /\ srv[u] = "closed" \/ taken[u] = Down[u]
    /\ Drop(u)
    /\ RGoto(u, "exit")
    /\ UNCHANGED <<wvars, taken, ping, fvars, lvars, known, incoming, avars>>

\* Read meets the end of the upstream, or closeStream has closed it: CLOSE,
\* closeStream.
UpstreamOver(u) ==
    /\ reader[u] = "read"
    /\ srv[u] = "closed" \/ taken[u] = Down[u]
    /\ ServerWrites(Frame("CLOSE", u))
    /\ Drop(u)
    /\ RGoto(u, "exit")
    /\ UNCHANGED <<wire, c2s, taken, ping, fvars, lvars, known, incoming, avars>>

\* The server gives up a stream: CLOSE, closeStream.  The reader may yet send the
\* chunk it has, and a CLOSE of its own.
GiveUp(u) ==
    /\ ServerWrites(Frame("CLOSE", u))
    /\ Drop(u)
    /\ failed' = failed \cup {u}
    /\ UNCHANGED <<wire, c2s, reader, taken, ping, lvars, known, incoming, avars>>

\* It does when the pump's Write to the upstream fails ...
PumpFails(u) ==
    /\ u \in MayFail /\ srv[u] = "open"
    /\ GiveUp(u)
    /\ UNCHANGED shed

\* ... or when the read loop has DATA that does not fit the budgets (their way over
\* the connection is left out): it reads nothing until it has written CLOSE.
Shed(u) ==
    /\ wire = "up" /\ shed = {} /\ u \in MayFail /\ srv[u] = "open"
    /\ shed' = {u}
    /\ UNCHANGED <<wvars, srv, reader, taken, ping, failed, lvars, known, incoming, avars>>

ShedClose(u) ==
    /\ u \in shed
    /\ GiveUp(u)
    /\ shed' = {}

\* The connection is lost, or closed by the reaper or with the process, and what
\* the client has sent with it.  The server's streams end: see module StreamMux.
Cut ==
    /\ wire = "up"
    /\ wire' = "cut"
    /\ c2s' = <<>>
    /\ srv' = [u \in Streams |-> "closed"]
    /\ reader' = [u \in Streams |-> "exit"]
    /\ shed' = {}
    /\ UNCHANGED <<s2c, taken, ping, failed, lvars, known, incoming, avars>>

-----------------------------------------------------------------------------
(* The client: handleSocks5 up to the answer of session.open *)

CGoto(u, l) == copier' = [copier EXCEPT ![u] = l]

\* open: the stream is put in the map ...
Store(u) ==
    /\ copier[u] = "idle"
    /\ known' = known \cup {u}
    /\ CGoto(u, "stored")
    /\ UNCHANGED <<wvars, svars, lvars, incoming, bridge, seen>>

\* ... OPEN is written, or the stream is taken out again ...
SendOpen(u) ==
    /\ copier[u] = "stored"
    /\ \/ /\ ~closed /\ ClientWrites(Frame("OPEN", u))
          /\ CGoto(u, "opening") /\ UNCHANGED known
       \/ /\ WriteFails
          /\ CGoto(u, "failed") /\ known' = known \ {u} /\ UNCHANGED c2s
    /\ UNCHANGED <<wire, s2c, svars, lvars, incoming, bridge, seen>>

\* ... and the answer is awaited; both goroutines of the bridge start ...
Opened(u) ==
    /\ copier[u] = "opening" /\ u \in openOK
    /\ CGoto(u, "copy")
    /\ bridge' = [bridge EXCEPT ![u] = "read"]
    /\ UNCHANGED <<wvars, svars, lvars, known, incoming, seen>>

\* ... for 15 seconds: a token that comes earlier ends the select.  The server
\* is not told.
OpenTimesOut(u) ==
    /\ copier[u] = "opening" /\ u \notin openOK
    /\ CGoto(u, "failed")
    /\ known' = known \ {u}
    /\ UNCHANGED <<wvars, svars, lvars, incoming, bridge, seen>>

-----------------------------------------------------------------------------
(* The client: the bridge *)

\* Mutant: Read takes closeMu, which deliver holds while it waits.
CopyUnderLock(u) ==
    /\ copier[u] = "copy" /\ incoming[u] # <<>>
    /\ ~(loop = "deliver" /\ held.id = u)
    /\ incoming' = [incoming EXCEPT ![u] = Tail(@)]
    /\ seen' = [seen EXCEPT ![u] = Append(@, Head(incoming[u]))]
    /\ UNCHANGED <<wvars, svars, lvars, known, copier, bridge>>

\* io.Copy(c, st): a chunk is received and written to the local application,
\* or cannot be, which ends handleSocks5 but not the stream.
Copy(u) ==
    /\ copier[u] = "copy" /\ incoming[u] # <<>>
    /\ incoming' = [incoming EXCEPT ![u] = Tail(@)]
    /\ \/ /\ seen' = [seen EXCEPT ![u] = Append(@, Head(incoming[u]))]
          /\ UNCHANGED copier
       \/ /\ u \in MayLeave
          /\ CGoto(u, "gone") /\ UNCHANGED seen
    /\ UNCHANGED <<wvars, svars, lvars, known, bridge>>

\* A closed channel is read to its end, then Read returns EOF.
CopyEof(u) ==
    /\ copier[u] = "copy" /\ incoming[u] = <<>> /\ u \in marked
    /\ CGoto(u, "eof")
    /\ UNCHANGED <<wvars, svars, lvars, known, incoming, bridge, seen>>

\* acquireWindow: the local application has sent more than the window holds.
AwaitWindow(u) ==
    /\ bridge[u] = "read" /\ copier[u] = "copy" /\ u \notin marked
    /\ bridge' = [bridge EXCEPT ![u] = "parked"]
    /\ UNCHANGED <<wvars, svars, lvars, known, incoming, copier, seen>>

\* The local application shuts down its side, or handleSocks5 has closed c:
\* CLOSE, as far as it can be written.
LocalEof(u) ==
    /\ bridge[u] = "read"
    /\ \/ ~closed /\ ClientWrites(Frame("CLOSE", u))
       \/ WriteFails /\ UNCHANGED c2s
    /\ bridge' = [bridge EXCEPT ![u] = "done"]
    /\ UNCHANGED <<wire, s2c, svars, lvars, known, incoming, copier, seen>>

\* markClosed's Broadcast, or a WINDOW_UPDATE.
Wake(us) ==
    bridge' = [u \in Streams |-> IF u \in us /\ bridge[u] = "parked" THEN "read" ELSE bridge[u]]

-----------------------------------------------------------------------------
(* The client: readLoop *)

Reads(t) == loop = "read" /\ wire # "closed" /\ s2c # <<>> /\ Head(s2c).type = t /\ s2c' = Tail(s2c)

LoopOpenOK ==
    /\ Reads("OPEN_OK")
    /\ openOK' = openOK \cup ({Head(s2c).id} \cap known)
    /\ UNCHANGED <<wire, c2s, svars, loop, held, closed, due, marked, known, incoming, avars>>

\* DATA for a stream that is not in the map is skipped.
LoopData ==
    /\ Reads("DATA")
    /\ IF Head(s2c).id \in known
       THEN loop' = "deliver" /\ held' = Head(s2c)
       ELSE UNCHANGED <<loop, held>>
    /\ UNCHANGED <<wire, c2s, svars, closed, due, marked, openOK, known, incoming, avars>>

\* CLOSE: markClosed, and the stream leaves the map.
LoopClose ==
    LET us == {Head(s2c).id} \cap known IN
    /\ Reads("CLOSE")
    /\ marked' = marked \cup us
    /\ known' = known \ us
    /\ Wake(us)
    /\ UNCHANGED <<wire, c2s, svars, loop, held, closed, due, openOK, incoming, copier, seen>>

LoopPing ==
    /\ Reads("PING")
    /\ loop' = "pong"
    /\ UNCHANGED <<wire, c2s, svars, held, closed, due, marked, openOK, known, incoming, avars>>

\* WINDOW_UPDATE for a parked writer; its way over the connection is left out.
LoopCredit(u) ==
    /\ loop = "read" /\ wire = "up" /\ srv[u] = "open" /\ u \in known
    /\ bridge[u] = "parked"
    /\ Wake({u})
    /\ UNCHANGED <<wvars, svars, lvars, known, incoming, copier, seen>>

\* Mutant: a full channel drops the chunk.
DeliverOrDrop ==
    LET u == held.id IN
    /\ loop = "deliver"
    /\ incoming' = [incoming EXCEPT ![u] = IF Len(@) < ChanCap THEN Append(@, held.chunk) ELSE @]
    /\ loop' = "read" /\ held' = NoFrame
    /\ UNCHANGED <<wvars, svars, closed, due, marked, openOK, known, avars>>

\* deliver: the read loop waits until the channel has room.
Deliver ==
    LET u == held.id IN
    /\ loop = "deliver"
    /\ \/ u \in marked /\ UNCHANGED incoming
       \/ /\ u \notin marked /\ Len(incoming[u]) < ChanCap
          /\ incoming' = [incoming EXCEPT ![u] = Append(@, held.chunk)]
    /\ loop' = "read" /\ held' = NoFrame
    /\ UNCHANGED <<wvars, svars, closed, due, marked, openOK, known, avars>>

\* The read loop writes PONG itself and waits for room on the connection.
Pong ==
    /\ loop = "pong"
    /\ \/ ClientWrites([type |-> "PONG"])
       \/ WriteFails /\ UNCHANGED c2s
    /\ loop' = "read"
    /\ UNCHANGED <<wire, s2c, svars, held, closed, due, marked, openOK, known, incoming, avars>>

\* readAEADFrame fails.  session.close sets closed ...
LoopFails ==
    /\ loop = "read" /\ wire = "cut"
    /\ closed' = TRUE
    /\ due' = known
    /\ loop' = "close"
    /\ UNCHANGED <<wvars, svars, held, marked, openOK, known, incoming, avars>>

\* Mutant: markClosed closes the channel but wakes no writer.
MarkQuietly(u) ==
    /\ loop = "close" /\ u \in known \ marked
    /\ marked' = marked \cup {u}
    /\ due' = due \ {u}
    /\ UNCHANGED <<wvars, svars, loop, held, closed, openOK, known, incoming, avars>>

\* ... Range visits every stream that was in the map and is still, perhaps one
\* stored meanwhile ...
MarkClosed(u) ==
    /\ loop = "close" /\ u \in known \ marked
    /\ marked' = marked \cup {u}
    /\ due' = due \ {u}
    /\ Wake({u})
    /\ UNCHANGED <<wvars, svars, loop, held, closed, openOK, known, incoming, copier, seen>>

\* ... and the connection is closed.
CloseConn ==
    /\ loop = "close" /\ due \cap (known \ marked) = {}
    /\ wire' = "closed"
    /\ loop' = "exit"
    /\ UNCHANGED <<s2c, c2s, svars, held, closed, due, marked, openOK, known, incoming, avars>>

-----------------------------------------------------------------------------
ServerLoop == ReadPong \/ \E u \in Streams : ReadOpen(u) \/ ReadClose(u) \/ ShedClose(u)

Reader(u) == Check(u) \/ ReadUpstream(u) \/ WriteData(u)

Copier(u) == SendOpen(u) \/ Opened(u) \/ OpenTimesOut(u) \/ Copy(u) \/ CopyEof(u)

Loop ==
    \/ LoopOpenOK \/ LoopData \/ LoopClose \/ LoopPing
    \/ Deliver \/ Pong \/ LoopFails \/ CloseConn
    \/ \E u \in Streams : MarkClosed(u)

Next ==
    \/ ServerLoop \/ Loop \/ SendPing \/ Cut
    \/ \E u \in Streams :
           \/ Dialed(u) \/ Reader(u) \/ UpstreamOver(u) \/ PumpFails(u) \/ Shed(u)
           \/ Store(u) \/ Copier(u) \/ AwaitWindow(u) \/ LocalEof(u) \/ LoopCredit(u)

Spec == Init /\ [][Next]_vars

(* Both read loops wait for room to write: the server's for CLOSE, the      *)
(* client's for PONG.  No frame moves, and the reaper ends the session.     *)
MutualWait ==
    /\ shed # {} /\ Len(s2c) = WireCap
    /\ loop = "pong" /\ Len(c2s) = WireCap

(* A goroutine that can run does.  Nothing obliges an upstream to end, a    *)
(* local application to open or to shut down a stream, or a window to be    *)
(* credited; a closed upstream or local connection is noticed.              *)
FairSpec ==
    /\ Spec
    /\ WF_vars(ServerLoop) /\ WF_vars(Loop)
    /\ \A u \in Streams :
           /\ WF_vars(Dialed(u)) /\ WF_vars(Reader(u)) /\ WF_vars(Copier(u))
           /\ WF_vars(srv[u] = "closed" /\ UpstreamOver(u))
           /\ WF_vars(copier[u] \in {"eof", "gone"} /\ LocalEof(u))
    /\ WF_vars(MutualWait /\ Cut)

-----------------------------------------------------------------------------
(* Properties *)

\* A local application receives the upstream's chunks in order, without a gap;
\* the end of the stream it sees, unless it asked for it, the connection was
\* lost or the server gave the stream up, is the upstream's, behind the last
\* chunk: closing the channel takes nothing out of it.
WholeAtEof ==
    \A u \in Streams :
        /\ seen[u] = [i \in 1 .. Len(seen[u]) |-> i]
        /\ copier[u] = "eof" /\ wire = "up" /\ bridge[u] # "done" /\ u \notin failed =>
               Len(seen[u]) = Down[u]

\* One stream's full channel holds the others up, but not for ever: as long as
\* applications that leave do so with their channel not full, everything the
\* server has read from an upstream arrives.
DownloadArrives ==
    \A u \in Streams :
        taken[u] = Down[u] /\ copier[u] = "copy" ~>
            \/ Len(seen[u]) = Down[u]
            \/ copier[u] # "copy" \/ bridge[u] = "done" \/ wire # "up"

\* handleSocks5 does not outlive its stream: when the upstream has ended or the
\* application has shut down its side, io.Copy returns, unless the server's
\* reader found the stream closed between two reads and sent no CLOSE; and it
\* returns whenever the server has given the stream up.
CopierReleased ==
    \A u \in Streams :
        copier[u] = "copy" /\ (reader[u] = "exit" \/ bridge[u] = "done" \/ u \in failed) ~>
            copier[u] # "copy" \/ (reader[u] = "left" /\ u \notin failed)

\* The end of a connection ends whoever waits on one of its streams, for data or
\* for the window.
EndsWithSession ==
    \A u \in Streams :
        wire # "up" /\ (copier[u] = "copy" \/ bridge[u] = "parked") ~>
            copier[u] # "copy" /\ bridge[u] # "parked"

\* "Wake any writer blocked on the send window so it errors out instead of
\* hanging when the stream/session goes away" (markClosed).
WriterWoken ==
    \A u \in Streams : wire # "up" /\ bridge[u] = "parked" ~> bridge[u] # "parked"
=============================================================================
