----------------------------- MODULE Connection -----------------------------
(***************************************************************************)
(* A connection before it is a session: runTCP's accept loop and its gate, *)
(* dispatchTLSConn, and handleTCPv2 up to the session with the mxtr        *)
(* handshake, the drain of an HTTP request and the camouflage page         *)
(* (cmd/mxtr-server/main.go, session_v2.go), against probes that send what *)
(* they like when they like, and clients in dialSession                    *)
(* (cmd/mxtr-testclient-v2/main.go).  StreamMux and Heartbeat have the life*)
(* of the session; here it is one state.                                   *)
(*                                                                         *)
(* Time passes in ticks, and only while every connection waits for its     *)
(* peer.  An operation whose deadline has come fails before the next tick, *)
(* or is just done in time.  The jitter before the server's hello is less  *)
(* than a tick.                                                            *)
(***************************************************************************)
EXTENDS Integers, Sequences, FiniteSets

CONSTANTS
    Conns,              \* connections, each opened any number of times:
    Clients,            \* these in dialSession, the others by probes
    MaxConns,           \* maxConcurrentConns
    HandshakeTimeout,   \* handshakeTimeout, in ticks
    PageTimeout,        \* the 5 s of drainHTTPRequest and of the write of a page
    MaxHeaderRead,      \* maxHTTPHeaderRead
    MaxLine             \* the 256 bytes kept of a request line

ASSUME ConnAssumption ==
    /\ IsFiniteSet(Conns) /\ Clients \subseteq Conns
    /\ MaxConns \in Nat
    /\ HandshakeTimeout \in Nat /\ PageTimeout \in Nat
    /\ MaxHeaderRead \in Nat /\ MaxHeaderRead > 1      \* more than a method
    /\ MaxLine \in Nat

\* Bytes of an HTTP request, as far as the drain tells them apart.  The four of a
\* method count as one.
Symbols == {"CR", "LF", "text"}
Method == <<"text">>

VARIABLES
    pc,         \* where the connection's goroutine is
    gate,       \* tokens in the gate
    open,       \* the server's socket is open
    left,       \* ticks to its deadline, or NoDeadline
    age,        \* ticks since the connection took its slot, until it is a session
    peer,       \* "gone", "probe", or a client: "dialing", "waiting", "up"
    good,       \* the client holds the server's PSK
    req,        \* drainHTTPRequest: what it has read and its automaton
    reply,      \* what the server has written
    ended       \* history: the server has ended the session with its peer there

vars == <<pc, gate, open, left, age, peer, good, req, reply, ended>>

NoDeadline == -1

\* A request of which p is read, all of it text of the request line.
Begun(p) == [seen |-> p, line |-> p, lineDone |-> FALSE, s |-> 0]
NoRequest == Begun(<<>>)

\* Phases in which the goroutine waits on its socket, before there is a session.
Waits == {"tls", "prefix", "hello", "drain", "page", "welcome"}

Init ==
    /\ pc = [c \in Conns |-> "none"]
    /\ gate = 0
    /\ open = [c \in Conns |-> FALSE]
    /\ left = [c \in Conns |-> NoDeadline]
    /\ age = [c \in Conns |-> 0]
    /\ peer = [c \in Conns |-> "gone"]
    /\ good = [c \in Conns |-> FALSE]
    /\ req = [c \in Conns |-> NoRequest]
    /\ reply = [c \in Conns |-> "none"]
    /\ ended = {}

\* The goroutine goes on to phase p with deadline d.
Goes(c, p, d) ==
    /\ pc' = [pc EXCEPT ![c] = p]
    /\ left' = [left EXCEPT ![c] = d]

\* A read or a write on the socket fails.
IoFails(c) == peer[c] = "gone" \/ ~open[c] \/ left[c] = 0

-----------------------------------------------------------------------------
(* The peers *)

\* A TCP connection is made and waits to be accepted.
Connect(c) ==
    /\ pc[c] = "none" /\ peer[c] = "gone"
    /\ pc' = [pc EXCEPT ![c] = "backlog"]
    /\ peer' = [peer EXCEPT ![c] = IF c \in Clients THEN "dialing" ELSE "probe"]
    /\ \E holdsPsk \in BOOLEAN : /\ holdsPsk => c \in Clients
                                 /\ good' = [good EXCEPT ![c] = holdsPsk]
    /\ ended' = ended \ {c}
    /\ UNCHANGED <<gate, open, left, age, req, reply>>

\* It closes its end, whenever it likes.
PeerLeaves(c) ==
    /\ peer[c] # "gone"
    /\ peer' = [peer EXCEPT ![c] = "gone"]
    /\ reply' = [reply EXCEPT ![c] = "none"]
    /\ good' = [good EXCEPT ![c] = FALSE]
    /\ ended' = ended \ {c}
    /\ UNCHANGED <<pc, gate, open, left, age, req>>

\* dialSession's read returns: the server's hello with the right MAC, or an
\* answer that is none, or the end of the connection.
DialEnds(c) ==
    /\ peer[c] \in {"dialing", "waiting"}
    /\ reply[c] # "none" \/ (~open[c] /\ pc[c] # "backlog")
    /\ peer' = [peer EXCEPT ![c] = IF reply[c] = "hello" THEN "up" ELSE "gone"]
    /\ reply' = [reply EXCEPT ![c] = "none"]
    /\ UNCHANGED <<pc, gate, open, left, age, good, req, ended>>

-----------------------------------------------------------------------------
(* runTCP *)

\* Accept, in a loop that handles one connection at a time.
Accept(c) ==
    /\ pc[c] = "backlog"
    /\ \A d \in Conns : pc[d] # "accepted"
    /\ pc' = [pc EXCEPT ![c] = "accepted"]
    /\ open' = [open EXCEPT ![c] = TRUE]
    /\ UNCHANGED <<gate, left, age, peer, good, req, reply, ended>>

\* A slot is free: a goroutine for dispatchTLSConn, which sets a deadline.
TakeSlot(c) ==
    /\ pc[c] = "accepted"
    /\ gate < MaxConns
    /\ gate' = gate + 1
    /\ Goes(c, "tls", HandshakeTimeout)
    /\ UNCHANGED <<open, age, peer, good, req, reply, ended>>

\* Mutant: the connection is forgotten, not closed.
ForgetSaturated(c) ==
    /\ pc[c] = "accepted"
    /\ gate >= MaxConns
    /\ pc' = [pc EXCEPT ![c] = "none"]
    /\ UNCHANGED <<gate, open, left, age, peer, good, req, reply, ended>>

\* The gate is full: closed at once.
DropSaturated(c) ==
    /\ pc[c] = "accepted"
    /\ gate >= MaxConns
    /\ pc' = [pc EXCEPT ![c] = "none"]
    /\ open' = [open EXCEPT ![c] = FALSE]
    /\ UNCHANGED <<gate, left, age, peer, good, req, reply, ended>>

\* conn.Close, deferred by handleTCPv2 or called by dispatchTLSConn.
Close(c) ==
    /\ pc[c] = "ending"
    /\ open' = [open EXCEPT ![c] = FALSE]
    /\ age' = [age EXCEPT ![c] = 0]
    /\ Goes(c, "closed", NoDeadline)
    /\ UNCHANGED <<gate, peer, good, req, reply, ended>>

\* Mutant: the slot is given back, the socket left open.
ReleaseUnclosed(c) ==
    /\ pc[c] \in {"ending", "closed"}
    /\ gate' = gate - 1
    /\ Goes(c, "none", NoDeadline)
    /\ UNCHANGED <<open, age, peer, good, req, reply, ended>>

\* <-gate, deferred by runTCP's goroutine.
Release(c) ==
    /\ pc[c] = "closed"
    /\ gate' = gate - 1
    /\ Goes(c, "none", NoDeadline)
    /\ UNCHANGED <<open, age, peer, good, req, reply, ended>>

-----------------------------------------------------------------------------
(* dispatchTLSConn *)

\* The handshake is done; the deadline is cleared, and handleTCPv2 sets its own.
\* A client writes its hello at once.
TlsDone(c) ==
    /\ pc[c] = "tls" /\ open[c]
    /\ peer[c] # "gone"
    /\ peer' = [peer EXCEPT ![c] = IF @ = "dialing" THEN "waiting" ELSE @]
    /\ Goes(c, "prefix", HandshakeTimeout)
    /\ UNCHANGED <<gate, open, age, good, req, reply, ended>>

TlsFails(c) ==
    /\ pc[c] = "tls"
    /\ IoFails(c) \/ peer[c] = "probe"
    /\ pc' = [pc EXCEPT ![c] = "ending"]
    /\ UNCHANGED <<gate, open, left, age, peer, good, req, reply, ended>>

-----------------------------------------------------------------------------
(* readClientHandshake *)

\* Four bytes that begin no HTTP request.
ReadPrefix(c) ==
    /\ pc[c] = "prefix"
    /\ peer[c] # "gone"
    /\ pc' = [pc EXCEPT ![c] = "hello"]
    /\ UNCHANGED <<gate, open, left, age, peer, good, req, reply, ended>>

\* Mutant: a CR out of place is taken for any other byte.
StepForgetful(r, b) ==
    [seen |-> Append(r.seen, b),
     line |-> IF ~r.lineDone /\ b \notin {"CR", "LF"} /\ Len(r.line) < MaxLine
              THEN Append(r.line, b) ELSE r.line,
     lineDone |-> r.lineDone \/ b = "LF",
     s |-> CASE b = "CR" /\ r.s \in {0, 2} -> r.s + 1
             [] b = "LF" /\ r.s \in {1, 3} -> r.s + 1
             [] OTHER -> 0]

\* step, in drainHTTPRequest: the request line is kept, and a CR LF CR LF found.
Step(r, b) ==
    [seen |-> Append(r.seen, b),
     line |-> IF ~r.lineDone /\ b \notin {"CR", "LF"} /\ Len(r.line) < MaxLine
              THEN Append(r.line, b) ELSE r.line,
     lineDone |-> r.lineDone \/ b = "LF",
     s |-> CASE b = "CR" /\ r.s \in {0, 2} -> r.s + 1
             [] b = "CR" /\ r.s \notin {0, 2} -> 1
             [] b = "LF" /\ r.s \in {1, 3} -> r.s + 1
             [] OTHER -> 0]

\* looksLikeHTTP: the four bytes are a method's, sent by a probe or by chance the
\* beginning of a client's nonce.  The drain has a deadline of its own.
ReadMethod(c) ==
    /\ pc[c] = "prefix"
    /\ peer[c] # "gone"
    /\ req' = [req EXCEPT ![c] = Begun(Method)]
    /\ Goes(c, "drain", PageTimeout)
    /\ UNCHANGED <<gate, open, age, peer, good, reply, ended>>

\* The rest of the hello is there and its MAC is right.
HelloGood(c) ==
    /\ pc[c] = "hello"
    /\ peer[c] = "waiting" /\ good[c]
    /\ pc' = [pc EXCEPT ![c] = "welcome"]
    /\ UNCHANGED <<gate, open, left, age, peer, good, req, reply, ended>>

\* Any error of readClientHandshake but the HTTP probe: the 400 page.
HelloBad(c) ==
    /\ \/ pc[c] = "prefix" /\ IoFails(c)
       \/ pc[c] = "hello" /\ (IoFails(c) \/ peer[c] = "probe" \/ ~good[c])
    /\ Goes(c, "page", PageTimeout)
    /\ UNCHANGED <<gate, open, age, peer, good, req, reply, ended>>

-----------------------------------------------------------------------------
(* drainHTTPRequest and the page *)

Drained(r) == r.s = 4 \/ Len(r.seen) >= MaxHeaderRead

\* Mutant: a deadline for each byte.
DrainReadsPatiently(c, b) ==
    /\ pc[c] = "drain"
    /\ peer[c] # "gone" /\ open[c]
    /\ req' = [req EXCEPT ![c] = Step(@, b)]
    /\ Goes(c, IF Drained(req'[c]) THEN "page" ELSE "drain", PageTimeout)
    /\ UNCHANGED <<gate, open, age, peer, good, reply, ended>>

\* One byte is read.
DrainReads(c, b) ==
    /\ pc[c] = "drain"
    /\ peer[c] # "gone" /\ open[c]
    /\ req' = [req EXCEPT ![c] = Step(@, b)]
    /\ IF Drained(req'[c]) THEN Goes(c, "page", PageTimeout) ELSE UNCHANGED <<pc, left>>
    /\ UNCHANGED <<gate, open, age, peer, good, reply, ended>>

DrainStops(c) ==
    /\ pc[c] = "drain"
    /\ IoFails(c)
    /\ Goes(c, "page", PageTimeout)
    /\ UNCHANGED <<gate, open, age, peer, good, req, reply, ended>>

\* The page is written, whichever the request line asks for (camouflageForPath), or
\* it is not; either way that was it.
PageWritten(c) ==
    /\ pc[c] = "page"
    /\ peer[c] # "gone"
    /\ reply' = [reply EXCEPT ![c] = "page"]
    /\ req' = [req EXCEPT ![c] = NoRequest]
    /\ pc' = [pc EXCEPT ![c] = "ending"]
    /\ UNCHANGED <<gate, open, left, age, peer, good, ended>>

PageFails(c) ==
    /\ pc[c] = "page"
    /\ IoFails(c)
    /\ req' = [req EXCEPT ![c] = NoRequest]
    /\ pc' = [pc EXCEPT ![c] = "ending"]
    /\ UNCHANGED <<gate, open, left, age, peer, good, reply, ended>>

-----------------------------------------------------------------------------
(* The session *)

\* Mutant: the handshake's deadline stays.
WelcomeDeadlined(c) ==
    /\ pc[c] = "welcome"
    /\ peer[c] # "gone"
    /\ reply' = [reply EXCEPT ![c] = "hello"]
    /\ age' = [age EXCEPT ![c] = 0]
    /\ Goes(c, "session", left[c])
    /\ UNCHANGED <<gate, open, peer, good, req, ended>>

\* After the jitter, the server's hello is written, the deadline cleared and the
\* session begun.
Welcome(c) ==
    /\ pc[c] = "welcome"
    /\ peer[c] # "gone"
    /\ reply' = [reply EXCEPT ![c] = "hello"]
    /\ age' = [age EXCEPT ![c] = 0]
    /\ Goes(c, "session", NoDeadline)
    /\ UNCHANGED <<gate, open, peer, good, req, ended>>

WelcomeFails(c) ==
    /\ pc[c] = "welcome"
    /\ IoFails(c)
    /\ pc' = [pc EXCEPT ![c] = "ending"]
    /\ UNCHANGED <<gate, open, left, age, peer, good, req, reply, ended>>

\* reapV2Sessions closes the connection of a session; see Heartbeat for when.
Reap(c) ==
    /\ pc[c] = "session" /\ open[c]
    /\ open' = [open EXCEPT ![c] = FALSE]
    /\ ended' = ended \cup {c}
    /\ UNCHANGED <<pc, gate, left, age, peer, good, req, reply>>

\* A frame of the client is refused: it does not decrypt, is shorter than its
\* header, or has less payload than it says.
FrameRefused(c) ==
    /\ pc[c] = "session" /\ open[c] /\ peer[c] = "up"
    /\ pc' = [pc EXCEPT ![c] = "ending"]
    /\ ended' = ended \cup {c}
    /\ UNCHANGED <<gate, open, left, age, peer, good, req, reply>>

\* readFrame cannot read.
SessionEnds(c) ==
    /\ pc[c] = "session"
    /\ IoFails(c)
    /\ pc' = [pc EXCEPT ![c] = "ending"]
    /\ UNCHANGED <<gate, open, left, age, peer, good, req, reply, ended>>

-----------------------------------------------------------------------------
\* No goroutine of a connection has anything to do, and no deadline has come.
Tick ==
    /\ \A c \in Conns : /\ pc[c] \in Waits \cup {"none", "backlog", "session"}
                        /\ left[c] # 0
    /\ \E c \in Conns : left[c] > 0
    /\ left' = [c \in Conns |-> IF left[c] > 0 THEN left[c] - 1 ELSE left[c]]
    /\ age' = [c \in Conns |-> IF pc[c] \in Waits THEN age[c] + 1 ELSE age[c]]
    /\ UNCHANGED <<pc, gate, open, peer, good, req, reply, ended>>

\* What the server's code does next on a connection, whatever the peer does.
Serve(c) ==
    \/ TakeSlot(c) \/ DropSaturated(c) \/ Close(c) \/ Release(c)
    \/ TlsFails(c) \/ HelloGood(c) \/ HelloBad(c) \/ DrainStops(c)
    \/ PageWritten(c) \/ PageFails(c) \/ Welcome(c) \/ WelcomeFails(c)
    \/ SessionEnds(c)

\* What depends on the bytes the peer chose.
Receive(c) ==
    \/ TlsDone(c) \/ ReadPrefix(c) \/ FrameRefused(c)
    \/ ReadMethod(c)
    \/ \E b \in Symbols : DrainReads(c, b)

Next ==
    \/ Tick
    \/ \E c \in Conns :
           \/ Connect(c) \/ PeerLeaves(c) \/ DialEnds(c) \/ Accept(c) \/ Reap(c)
           \/ Serve(c) \/ Receive(c)

Spec == Init /\ [][Next]_vars

\* Goroutines and the client run, and time passes though new connections keep
\* coming.  They leave the backlog in the order they came, so one that waits is
\* accepted in the end.
FairSpec ==
    /\ Spec
    /\ SF_vars(Tick)
    /\ \A c \in Conns : SF_vars(Accept(c)) /\ WF_vars(Serve(c)) /\ WF_vars(DialEnds(c))

-----------------------------------------------------------------------------
(* Properties *)

\* The gate is there "so a probe storm can't exhaust goroutines/fds": the server
\* never has more sockets open than slots, but for the one its accept loop has in
\* hand.  So a slot is given back only after its socket is closed, on every way
\* out, and what is not let in is closed.
SocketsBounded ==
    Cardinality({c \in Conns : open[c] /\ pc[c] # "accepted"}) <= MaxConns

\* A connection that is no session holds its slot for at most two handshakes, a
\* drain and a page, however slowly its peer sends: each of the deadlines is set
\* once, and progress does not extend it.
SlotBound ==
    \A c \in Conns : pc[c] \in Waits =>
        age[c] <= 2 * HandshakeTimeout + 2 * PageTimeout

\* A client for which dialSession returned holds the PSK, and its session is there
\* at the server, unless the reaper closed it or the server refused a frame: none
\* of the deadlines behind it ends a session, and no answer to a probe, a wrong PSK
\* or a full gate is taken for the server's hello.
SessionShared ==
    \A c \in Conns : peer[c] = "up" => good[c] /\ (pc[c] = "session" \/ c \in ended)

\* The references: a CR LF CR LF at position k of what was read; and where it has
\* the text of its request line, which is all up to the first LF but the CRs, each
\* place with its rank in that text.
BlankLineAt(seen, k) ==
    k \in 1 .. Len(seen) - 3 /\ SubSeq(seen, k, k + 3) = <<"CR", "LF", "CR", "LF">>

InLine(seen) ==
    {i \in DOMAIN seen : seen[i] # "CR" /\ \A j \in 1 .. i : seen[j] # "LF"}

Rank(seen, i) == Cardinality({j \in InLine(seen) : j <= i})

\* "up to the blank line ending the headers": the drain reads one request and no
\* more, whatever CRs and LFs come before its end, and keeps of the line that says
\* which page is asked for all there is room for, in order.
DrainsOneRequest ==
    \A c \in Conns : LET r == req[c] IN
        /\ \A k \in 1 .. Len(r.seen) - 4 : ~BlankLineAt(r.seen, k)
        /\ r.s = 4 <=> BlankLineAt(r.seen, Len(r.seen) - 3)
        /\ pc[c] = "drain" => ~Drained(r)
        /\ Len(r.line) <= Cardinality(InLine(r.seen))
        /\ Len(r.line) < MaxLine => Len(r.line) = Cardinality(InLine(r.seen))
        /\ \A i \in InLine(r.seen) :
               Rank(r.seen, i) <= Len(r.line) => r.line[Rank(r.seen, i)] = r.seen[i]

\* dialSession has no timeout of its own after the TCP connect: it returns,
\* because the server answers or closes every connection it gets, be the gate
\* full, the nonce like an HTTP request, the PSK wrong or the time up.
DialReturns ==
    \A c \in Clients : peer[c] \in {"dialing", "waiting"} ~> peer[c] \in {"up", "gone"}
=============================================================================
