-------------------------- MODULE ConnectionProofs --------------------------
(***************************************************************************)
(* Gate, deadlines, sessions and the drain of module Connection, for any   *)
(* number of connections and slots and every timeout.                      *)
(***************************************************************************)
EXTENDS Connection, FiniteSetTheorems, SequenceTheorems, TLAPS

\* The phases of a goroutine that has taken a slot and not given it back.
Held == Waits \cup {"session", "ending", "closed"}
Phases == Held \cup {"none", "backlog", "accepted"}
Holders == {c \in Conns : pc[c] \in Held}

Types ==
    /\ pc \in [Conns -> Phases]
    /\ gate \in Int
    /\ left \in [Conns -> Int]
    /\ age \in [Conns -> Nat]
    /\ open \in [Conns -> BOOLEAN]

\* A token is in the gate for each goroutine that holds a slot, and an open socket
\* is one of a holder, or in the hand of the accept loop.
GateInv ==
    /\ gate = Cardinality(Holders) /\ gate <= MaxConns
    /\ \A c \in Conns : open[c] => pc[c] \in (Held \ {"closed"}) \cup {"accepted"}

\* What is left of a connection's deadline, and its age: together they stay below
\* what the phases up to this one may take.
Deadlines ==
    \A c \in Conns :
        /\ left[c] >= -1
        /\ pc[c] \in Waits => left[c] >= 0
        /\ pc[c] = "tls" => age[c] + left[c] <= HandshakeTimeout
        /\ pc[c] \in {"prefix", "hello", "welcome"} =>
               age[c] + left[c] <= 2 * HandshakeTimeout
        /\ pc[c] = "drain" => age[c] + left[c] <= 2 * HandshakeTimeout + PageTimeout
        /\ pc[c] = "page" => age[c] + left[c] <= 2 * HandshakeTimeout + 2 * PageTimeout
        /\ pc[c] \in {"none", "backlog", "accepted"} => age[c] = 0
        /\ pc[c] = "session" => left[c] = NoDeadline
        /\ pc[c] = "closed" => age[c] = 0

ConnInv == Types /\ GateInv /\ Deadlines

\* The steps of one connection.
Moves(c) ==
    \/ Connect(c) \/ PeerLeaves(c) \/ DialEnds(c) \/ Accept(c) \/ Reap(c)
    \/ Serve(c) \/ Receive(c)

USE DEF Held, Phases, Waits

\* The invariant holds initially.
LEMMA ConnInit == Init => ConnInv
<1> SUFFICES ASSUME Init PROVE ConnInv
  OBVIOUS
<1>1. Types /\ Deadlines
  BY ConnAssumption DEF Init, Types, Deadlines, NoDeadline
<1>2. Holders = {}
  BY DEF Init, Holders
<1>3. GateInv
  BY <1>2, FS_EmptySet, ConnAssumption DEF Init, GateInv
<1> QED BY <1>1, <1>3 DEF ConnInv

\* A step of a connection changes that one's entries only, and keeps the kinds.
LEMMA MovesTypes ==
    ASSUME Types, NEW c \in Conns, Moves(c)
    PROVE  /\ Types'
           /\ \A d \in Conns \ {c} : /\ pc'[d] = pc[d] /\ left'[d] = left[d]
                                     /\ age'[d] = age[d] /\ open'[d] = open[d]
<1> USE ConnAssumption DEF Types, NoDeadline
<1>1. CASE Connect(c) \/ PeerLeaves(c) \/ DialEnds(c) \/ Accept(c) \/ Reap(c)
  BY <1>1 DEF Connect, PeerLeaves, DialEnds, Accept, Reap
<1>2. CASE TakeSlot(c)
  BY <1>2 DEF TakeSlot, Goes
<1>3. CASE DropSaturated(c)
  BY <1>3 DEF DropSaturated
<1>4. CASE Close(c)
  BY <1>4 DEF Close, Goes
<1>5. CASE Release(c)
  BY <1>5 DEF Release, Goes
<1>6. CASE TlsFails(c) \/ HelloGood(c) \/ HelloBad(c) \/ DrainStops(c)
  BY <1>6 DEF TlsFails, HelloGood, HelloBad, DrainStops, Goes
<1>7. CASE PageWritten(c) \/ PageFails(c) \/ Welcome(c) \/ WelcomeFails(c) \/ SessionEnds(c)
  BY <1>7 DEF PageWritten, PageFails, Welcome, WelcomeFails, SessionEnds, Goes
<1>8. CASE TlsDone(c) \/ ReadPrefix(c)
  BY <1>8 DEF TlsDone, ReadPrefix, Goes
<1>9. CASE ReadMethod(c) \/ FrameRefused(c)
  BY <1>9 DEF ReadMethod, FrameRefused, Goes
<1>10. CASE \E b \in Symbols : DrainReads(c, b)
  BY <1>10 DEF DrainReads, Goes
<1> QED BY <1>1, <1>2, <1>3, <1>4, <1>5, <1>6, <1>7, <1>8, <1>9, <1>10
     DEF Moves, Serve, Receive

\* Time leaves goroutines and sockets alone.
LEMMA TickTypes == Types /\ Tick => Types' /\ UNCHANGED <<pc, gate, open>>
BY DEF Types, Tick

\* Only TakeSlot makes a holder, and it adds a token; only Release ends one, and
\* it takes a token out.
LEMMA MovesHolder ==
    ASSUME Types, NEW c \in Conns, Moves(c)
    PROVE  \/ pc[c] \notin Held /\ pc'[c] \in Held /\ gate < MaxConns /\ gate' = gate + 1
           \/ pc[c] \in Held /\ pc'[c] \notin Held /\ gate' = gate - 1
           \/ (pc[c] \in Held <=> pc'[c] \in Held) /\ gate' = gate
<1> USE DEF Types
<1>1. CASE Connect(c) \/ PeerLeaves(c) \/ DialEnds(c) \/ Accept(c) \/ Reap(c)
  BY <1>1 DEF Connect, PeerLeaves, DialEnds, Accept, Reap
<1>2. CASE TakeSlot(c) \/ DropSaturated(c) \/ Close(c) \/ Release(c)
  BY <1>2 DEF TakeSlot, DropSaturated, Close, Release, Goes
<1>3. CASE TlsFails(c) \/ HelloGood(c) \/ HelloBad(c) \/ DrainStops(c)
  BY <1>3 DEF TlsFails, HelloGood, HelloBad, DrainStops, Goes
<1>4. CASE PageWritten(c) \/ PageFails(c) \/ Welcome(c) \/ WelcomeFails(c) \/ SessionEnds(c)
  BY <1>4 DEF PageWritten, PageFails, Welcome, WelcomeFails, SessionEnds, Goes
<1>5. CASE TlsDone(c) \/ ReadPrefix(c)
  BY <1>5 DEF TlsDone, ReadPrefix, Goes
<1>6. CASE ReadMethod(c) \/ FrameRefused(c)
  BY <1>6 DEF ReadMethod, FrameRefused, Goes
<1>7. CASE \E b \in Symbols : DrainReads(c, b)
  BY <1>7 DEF DrainReads, Goes
<1> QED BY <1>1, <1>2, <1>3, <1>4, <1>5, <1>6, <1>7 DEF Moves, Serve, Receive

\* A socket is opened by the accept loop, and closed before its slot is given back.
LEMMA MovesSocket ==
    ASSUME Types, GateInv, NEW c \in Conns, Moves(c), open'[c]
    PROVE  pc'[c] \in (Held \ {"closed"}) \cup {"accepted"}
<1> USE DEF Types, GateInv
<1>1. CASE Connect(c) \/ PeerLeaves(c) \/ DialEnds(c) \/ Accept(c) \/ Reap(c)
  BY <1>1 DEF Connect, PeerLeaves, DialEnds, Accept, Reap
<1>2. CASE TakeSlot(c) \/ DropSaturated(c) \/ Close(c) \/ Release(c)
  BY <1>2 DEF TakeSlot, DropSaturated, Close, Release, Goes
<1>3. CASE TlsFails(c) \/ HelloGood(c) \/ HelloBad(c) \/ DrainStops(c)
  BY <1>3 DEF TlsFails, HelloGood, HelloBad, DrainStops, Goes
<1>4. CASE PageWritten(c) \/ PageFails(c) \/ Welcome(c) \/ WelcomeFails(c) \/ SessionEnds(c)
  BY <1>4 DEF PageWritten, PageFails, Welcome, WelcomeFails, SessionEnds, Goes
<1>5. CASE TlsDone(c) \/ ReadPrefix(c)
  BY <1>5 DEF TlsDone, ReadPrefix, Goes
<1>6. CASE ReadMethod(c) \/ FrameRefused(c)
  BY <1>6 DEF ReadMethod, FrameRefused, Goes
<1>7. CASE \E b \in Symbols : DrainReads(c, b)
  BY <1>7 DEF DrainReads, Goes
<1> QED BY <1>1, <1>2, <1>3, <1>4, <1>5, <1>6, <1>7 DEF Moves, Serve, Receive

\* So tokens and holders agree after every step of a connection.
LEMMA MovesGate ==
    ASSUME Types, GateInv, NEW c \in Conns, Moves(c)
    PROVE  GateInv'
<1>1. IsFiniteSet(Holders) /\ Cardinality(Holders) \in Nat
  <2>1. Holders \in SUBSET Conns
    BY DEF Holders
  <2> QED BY <2>1, ConnAssumption, FS_Subset, FS_CardinalityType
<1>2. Types' /\ \A d \in Conns \ {c} : pc'[d] = pc[d] /\ open'[d] = open[d]
  BY MovesTypes
<1>3. gate' = Cardinality(Holders') /\ gate' <= MaxConns
  <2>1. CASE pc[c] \notin Held /\ pc'[c] \in Held /\ gate < MaxConns /\ gate' = gate + 1
    <3>1. Holders' = Holders \cup {c} /\ c \notin Holders
      BY <1>2, <2>1 DEF Holders
    <3>2. Cardinality(Holders') = Cardinality(Holders) + 1
      BY <1>1, <3>1, FS_AddElement
    <3> QED BY <1>1, <2>1, <3>2, ConnAssumption DEF GateInv
  <2>2. CASE pc[c] \in Held /\ pc'[c] \notin Held /\ gate' = gate - 1
    <3>1. Holders' = Holders \ {c} /\ c \in Holders
      BY <1>2, <2>2 DEF Holders
    <3>2. Cardinality(Holders') = Cardinality(Holders) - 1
      BY <1>1, <3>1, FS_RemoveElement
    <3> QED BY <1>1, <2>2, <3>2, ConnAssumption DEF GateInv
  <2>3. CASE (pc[c] \in Held <=> pc'[c] \in Held) /\ gate' = gate
    <3>1. Holders' = Holders
      BY <1>2, <2>3 DEF Holders
    <3> QED BY <2>3, <3>1 DEF GateInv
  <2> QED BY <2>1, <2>2, <2>3, MovesHolder
<1>4. ASSUME NEW d \in Conns, open'[d]
      PROVE  pc'[d] \in (Held \ {"closed"}) \cup {"accepted"}
  <2>1. CASE d = c
    BY <1>4, <2>1, MovesSocket
  <2>2. CASE d # c
    BY <1>2, <1>4, <2>2 DEF GateInv
  <2> QED BY <2>1, <2>2
<1> QED BY <1>3, <1>4 DEF GateInv

\* Each phase starts with its own deadline, within what its predecessors left.
LEMMA MovesDeadlines ==
    ASSUME Types, Deadlines, NEW c \in Conns, Moves(c)
    PROVE  Deadlines'
<1>1. Types' /\ \A d \in Conns \ {c} : pc'[d] = pc[d] /\ left'[d] = left[d] /\ age'[d] = age[d]
  BY MovesTypes
<1> DEFINE Fine(d) ==
        /\ left[d] >= -1
        /\ pc[d] \in Waits => left[d] >= 0
        /\ pc[d] = "tls" => age[d] + left[d] <= HandshakeTimeout
        /\ pc[d] \in {"prefix", "hello", "welcome"} =>
               age[d] + left[d] <= 2 * HandshakeTimeout
        /\ pc[d] = "drain" => age[d] + left[d] <= 2 * HandshakeTimeout + PageTimeout
        /\ pc[d] = "page" => age[d] + left[d] <= 2 * HandshakeTimeout + 2 * PageTimeout
        /\ pc[d] \in {"none", "backlog", "accepted"} => age[d] = 0
        /\ pc[d] = "session" => left[d] = NoDeadline
        /\ pc[d] = "closed" => age[d] = 0
<1>2. Fine(c)'
  <2> USE ConnAssumption DEF Types, Deadlines, NoDeadline
  <2>1. CASE Connect(c) \/ PeerLeaves(c) \/ DialEnds(c) \/ Accept(c) \/ Reap(c)
    BY <2>1 DEF Connect, PeerLeaves, DialEnds, Accept, Reap
  <2>2. CASE TakeSlot(c) \/ DropSaturated(c) \/ Close(c) \/ Release(c)
    BY <2>2 DEF TakeSlot, DropSaturated, Close, Release, Goes
  <2>3. CASE TlsFails(c) \/ HelloGood(c) \/ HelloBad(c) \/ DrainStops(c)
    BY <2>3 DEF TlsFails, HelloGood, HelloBad, DrainStops, Goes
  <2>4. CASE PageWritten(c) \/ PageFails(c) \/ Welcome(c) \/ WelcomeFails(c) \/ SessionEnds(c)
    BY <2>4 DEF PageWritten, PageFails, Welcome, WelcomeFails, SessionEnds, Goes
  <2>5. CASE TlsDone(c) \/ ReadPrefix(c)
    BY <2>5 DEF TlsDone, ReadPrefix, Goes
  <2>6. CASE ReadMethod(c) \/ FrameRefused(c)
    BY <2>6 DEF ReadMethod, FrameRefused, Goes
  <2>7. CASE \E b \in Symbols : DrainReads(c, b)
    BY <2>7 DEF DrainReads, Goes
  <2> QED BY <2>1, <2>2, <2>3, <2>4, <2>5, <2>6, <2>7 DEF Moves, Serve, Receive
<1>3. ASSUME NEW d \in Conns \ {c} PROVE Fine(d)'
  BY <1>1, <1>3 DEF Deadlines
<1> QED BY <1>2, <1>3 DEF Deadlines

\* A tick takes from the deadline what it adds to the age.
LEMMA TickDeadlines == Types /\ Deadlines /\ Tick => Deadlines'
<1> SUFFICES ASSUME Types, Deadlines, Tick, NEW c \in Conns
             PROVE  Deadlines!(c)'
  BY DEF Deadlines
<1>1. /\ left'[c] = (IF left[c] > 0 THEN left[c] - 1 ELSE left[c])
      /\ age'[c] = (IF pc[c] \in Waits THEN age[c] + 1 ELSE age[c])
      /\ pc'[c] = pc[c] /\ left[c] # 0
      /\ left[c] \in Int /\ age[c] \in Nat
  BY DEF Tick, Types
<1>2. Deadlines!(c)
  BY DEF Deadlines
<1> QED BY <1>1, <1>2, ConnAssumption DEF NoDeadline

\* The invariant is inductive.
LEMMA ConnStep == ConnInv /\ [Next]_vars => ConnInv'
<1> SUFFICES ASSUME ConnInv, [Next]_vars PROVE ConnInv'
  OBVIOUS
<1>1. CASE Tick
  <2>1. Types' /\ UNCHANGED <<pc, gate, open>> /\ Deadlines'
    BY <1>1, TickTypes, TickDeadlines DEF ConnInv
  <2>2. GateInv'
    BY <2>1 DEF ConnInv, GateInv, Holders
  <2> QED BY <2>1, <2>2 DEF ConnInv
<1>2. CASE \E c \in Conns : Moves(c)
  BY <1>2, MovesTypes, MovesGate, MovesDeadlines DEF ConnInv
<1>3. CASE UNCHANGED vars
  BY <1>3 DEF ConnInv, Types, GateInv, Deadlines, Holders, vars
<1> QED BY <1>1, <1>2, <1>3 DEF Next, Moves

\* The gate, the sockets and the deadlines agree in every reachable state.
LEMMA ConnInvariant == Spec => []ConnInv
BY ConnInit, ConnStep, PTL DEF Spec

\* runTCP's gate bounds the sockets the server has open, whatever the way out of
\* dispatchTLSConn and handleTCPv2.
THEOREM SocketsBoundedHolds == Spec => []SocketsBounded
<1>1. ConnInv => SocketsBounded
  <2> SUFFICES ASSUME ConnInv PROVE SocketsBounded
    OBVIOUS
  <2> DEFINE S == {c \in Conns : open[c] /\ pc[c] # "accepted"}
  <2>1. Holders \in SUBSET Conns /\ S \in SUBSET Holders
    BY DEF ConnInv, GateInv, Holders
  <2>2. IsFiniteSet(Holders)
    BY <2>1, ConnAssumption, FS_Subset
  <2>3. Cardinality(S) <= Cardinality(Holders) /\ Cardinality(S) \in Nat /\ Cardinality(Holders) \in Nat
    BY <2>1, <2>2, FS_Subset, FS_CardinalityType
  <2> QED BY <2>3, ConnAssumption DEF SocketsBounded, ConnInv, GateInv
<1> QED BY <1>1, ConnInvariant, PTL

\* However slowly a peer sends, the deadlines of dispatchTLSConn, handleTCPv2 and
\* drainHTTPRequest bound the time its connection holds a slot without a session.
THEOREM SlotBoundHolds == Spec => []SlotBound
<1>1. ConnInv => SlotBound
  BY ConnAssumption DEF ConnInv, Types, Deadlines, SlotBound
<1> QED BY <1>1, ConnInvariant, PTL

-----------------------------------------------------------------------------
(* The session, as its two ends see it *)

\* What the peer was told, and what became of the session: hello is written to a
\* client that waits and holds the PSK, and only the reaper closes a session's
\* socket.
Shared(c) ==
    /\ peer[c] = "up" \/ reply[c] = "hello" => good[c] /\ (pc[c] = "session" \/ c \in ended)
    /\ peer[c] = "gone" => reply[c] = "none"
    /\ pc[c] \in Waits \cup {"backlog", "accepted"} => reply[c] = "none" /\ peer[c] # "up"
    /\ pc[c] \in Waits \cup {"accepted"} => open[c]
    /\ pc[c] = "welcome" => peer[c] = "gone" \/ good[c]
    /\ pc[c] = "session" /\ ~open[c] /\ peer[c] # "gone" => c \in ended

SharedInv ==
    /\ peer \in [Conns -> {"gone", "probe", "dialing", "waiting", "up"}]
    /\ good \in [Conns -> BOOLEAN]
    /\ reply \in [Conns -> {"none", "page", "hello"}]
    /\ \A c \in Conns : Shared(c)

\* Nobody is connected.
LEMMA SharedInit == Init => SharedInv
BY DEF Init, SharedInv, Shared

\* A step of a connection keeps what its two ends know of each other.
LEMMA MovesShared ==
    ASSUME Types, Deadlines, SharedInv, NEW c \in Conns, Moves(c)
    PROVE  /\ Shared(c)'
           /\ \A d \in Conns \ {c} : /\ peer'[d] = peer[d] /\ good'[d] = good[d]
                                     /\ reply'[d] = reply[d] /\ (d \in ended' <=> d \in ended)
           /\ peer' \in [Conns -> {"gone", "probe", "dialing", "waiting", "up"}]
           /\ good' \in [Conns -> BOOLEAN]
           /\ reply' \in [Conns -> {"none", "page", "hello"}]
<1> USE DEF Types, SharedInv, Shared
<1>1. CASE Connect(c)
  BY <1>1 DEF Connect
<1>2. CASE PeerLeaves(c)
  BY <1>2 DEF PeerLeaves
<1>3. CASE DialEnds(c)
  BY <1>3 DEF DialEnds
<1>4. CASE Accept(c) \/ Reap(c)
  BY <1>4 DEF Accept, Reap
<1>5. CASE TakeSlot(c) \/ DropSaturated(c)
  BY <1>5 DEF TakeSlot, DropSaturated, Goes
<1>6. CASE Close(c) \/ Release(c)
  BY <1>6 DEF Close, Release, Goes
<1>7. CASE TlsFails(c) \/ HelloGood(c)
  BY <1>7 DEF TlsFails, HelloGood
<1>8. CASE HelloBad(c) \/ DrainStops(c)
  BY <1>8 DEF HelloBad, DrainStops, Goes
<1>9. CASE PageWritten(c) \/ PageFails(c)
  BY <1>9 DEF PageWritten, PageFails
<1>10. CASE Welcome(c) \/ WelcomeFails(c)
  BY <1>10 DEF Welcome, WelcomeFails, Goes
<1>11. CASE SessionEnds(c)
  <2>1. left[c] # 0
    BY <1>11 DEF SessionEnds, Deadlines, NoDeadline
  <2> QED BY <1>11, <2>1 DEF SessionEnds, IoFails
<1>12. CASE TlsDone(c) \/ ReadPrefix(c)
  BY <1>12 DEF TlsDone, ReadPrefix, Goes
<1>13. CASE ReadMethod(c) \/ FrameRefused(c)
  BY <1>13 DEF ReadMethod, FrameRefused, Goes
<1>14. CASE \E b \in Symbols : DrainReads(c, b)
  BY <1>14 DEF DrainReads, Goes
<1> QED BY <1>1, <1>2, <1>3, <1>4, <1>5, <1>6, <1>7, <1>8, <1>9, <1>10, <1>11, <1>12, <1>13, <1>14
     DEF Moves, Serve, Receive

\* The invariant of the sessions is inductive.
LEMMA SharedStep == ConnInv /\ SharedInv /\ [Next]_vars => SharedInv'
<1> SUFFICES ASSUME ConnInv, SharedInv, [Next]_vars PROVE SharedInv'
  OBVIOUS
<1>1. CASE Tick \/ UNCHANGED vars
  BY <1>1 DEF Tick, vars, SharedInv, Shared
<1>2. ASSUME NEW c \in Conns, Moves(c) PROVE SharedInv'
  <2>1. Types /\ Deadlines
    BY DEF ConnInv
  <2>2. \A d \in Conns \ {c} : pc'[d] = pc[d] /\ open'[d] = open[d]
    BY <1>2, <2>1, MovesTypes
  <2>3. ASSUME NEW d \in Conns \ {c} PROVE Shared(d)'
    BY <1>2, <2>1, <2>2, MovesShared DEF SharedInv, Shared
  <2> QED BY <1>2, <2>1, <2>3, MovesShared DEF SharedInv
<1> QED BY <1>1, <1>2 DEF Next, Moves

\* A client that dialSession gave a session holds the PSK and has one at the server,
\* until the reaper closes it or one of its frames is refused: handleTCPv2 clears
\* the deadline of the handshake before the session, and neither a page nor the
\* close of a full gate is taken for the server's hello.
THEOREM SessionSharedHolds == Spec => []SessionShared
<1>1. SharedInv => SessionShared
  BY DEF SharedInv, Shared, SessionShared
<1> QED BY <1>1, ConnInvariant, SharedInit, SharedStep, PTL DEF Spec

-----------------------------------------------------------------------------
(* drainHTTPRequest *)

\* All that is ever read of a request.
Text == Symbols

\* What was read ends in the first n of CR LF CR LF.
Ends1(q) == Len(q) >= 1 /\ q[Len(q)] = "CR"
Ends2(q) == Len(q) >= 2 /\ q[Len(q) - 1] = "CR" /\ q[Len(q)] = "LF"
Ends3(q) == Len(q) >= 3 /\ q[Len(q) - 2] = "CR" /\ q[Len(q) - 1] = "LF" /\ q[Len(q)] = "CR"
BlankFrom(q, k) ==
    /\ k \in 1 .. Len(q) - 3
    /\ q[k] = "CR" /\ q[k + 1] = "LF" /\ q[k + 2] = "CR" /\ q[k + 3] = "LF"

RequestTypes(r) ==
    r \in [seen : Seq(Text), line : Seq(Text), lineDone : BOOLEAN, s : 0 .. 4]

\* The automaton is in the state of the longest beginning of a CR LF CR LF that
\* ends what was read, and has not been past one.
Automaton(r) ==
    LET n == Len(r.seen) IN
    /\ r.s = 4 <=> BlankFrom(r.seen, n - 3)
    /\ r.s = 3 <=> Ends3(r.seen)
    /\ r.s = 2 <=> Ends2(r.seen) /\ r.s # 4
    /\ r.s = 1 <=> Ends1(r.seen) /\ r.s # 3
    /\ \A k \in 1 .. n - 4 : ~BlankFrom(r.seen, k)

\* What is kept of the request line.
Kept(r) ==
    /\ r.lineDone <=> \E i \in DOMAIN r.seen : r.seen[i] = "LF"
    /\ Len(r.line) <= Cardinality(InLine(r.seen))
    /\ Len(r.line) < MaxLine => Len(r.line) = Cardinality(InLine(r.seen))
    /\ \A i \in InLine(r.seen) :
           Rank(r.seen, i) <= Len(r.line) => r.line[Rank(r.seen, i)] = r.seen[i]

Request(r) == RequestTypes(r) /\ Automaton(r) /\ Kept(r)

\* Of each connection's request, and a drain goes on only while it must.
ReqInv ==
    /\ req \in [Conns -> [seen : Seq(Text), line : Seq(Text), lineDone : BOOLEAN, s : 0 .. 4]]
    /\ \A c \in Conns : Request(req[c]) /\ (pc[c] = "drain" => ~Drained(req[c]))

\* The reference for the blank line, place by place.
LEMMA BlankPlaces ==
    ASSUME NEW q \in Seq(Text), NEW k
    PROVE  BlankLineAt(q, k) <=> BlankFrom(q, k)
<1>1. CASE k \in 1 .. Len(q) - 3
  <2> DEFINE t == SubSeq(q, k, k + 3)
             b == <<"CR", "LF", "CR", "LF">>
  <2>0. Len(q) \in Nat /\ k \in Nat /\ k >= 1 /\ k + 3 <= Len(q)
    BY <1>1
  <2>1. t \in Seq(Text) /\ Len(t) = 4 /\ \A i \in 1 .. 4 : t[i] = q[k + i - 1]
    <3>1. /\ t \in Seq(Text)
          /\ Len(t) = IF k <= k + 3 THEN k + 3 - k + 1 ELSE 0
          /\ \A i \in 1 .. k + 3 - k + 1 : t[i] = q[k + i - 1]
      BY <2>0, SubSeqProperties
    <3>2. k <= k + 3 /\ k + 3 - k + 1 = 4
      BY <2>0
    <3> QED BY <3>1, <3>2
  <2>2. b \in Seq(Text) /\ Len(b) = 4 /\ b[1] = "CR" /\ b[2] = "LF" /\ b[3] = "CR" /\ b[4] = "LF"
    BY DEF Text, Symbols
  <2>3. t[1] = q[k] /\ t[2] = q[k + 1] /\ t[3] = q[k + 2] /\ t[4] = q[k + 3]
    BY <2>0, <2>1
  <2> HIDE DEF t, b
  <2>4. t = b <=> \A i \in 1 .. 4 : t[i] = b[i]
    BY <2>1, <2>2, SeqEqual
  <2>5. t = b <=> t[1] = b[1] /\ t[2] = b[2] /\ t[3] = b[3] /\ t[4] = b[4]
    BY <2>4
  <2> QED BY <1>1, <2>2, <2>3, <2>5 DEF BlankLineAt, BlankFrom, t, b
<1>2. CASE k \notin 1 .. Len(q) - 3
  BY <1>2 DEF BlankLineAt, BlankFrom
<1> QED BY <1>1, <1>2

\* The places of a request line are finitely many.
LEMMA LineFinite ==
    ASSUME NEW q \in Seq(Text)
    PROVE  /\ IsFiniteSet(InLine(q)) /\ Cardinality(InLine(q)) \in Nat
           /\ \A i \in InLine(q) : /\ Rank(q, i) \in Nat \ {0}
                                   /\ Rank(q, i) <= Cardinality(InLine(q))
<1>1. IsFiniteSet(InLine(q)) /\ Cardinality(InLine(q)) \in Nat
  <2>1. InLine(q) \in SUBSET (1 .. Len(q)) /\ Len(q) \in Nat
    BY DEF InLine
  <2>2. IsFiniteSet(1 .. Len(q))
    BY <2>1, FS_Interval
  <2>3. IsFiniteSet(InLine(q))
    BY <2>1, <2>2, FS_Subset
  <2> QED BY <2>3, FS_CardinalityType
<1>2. ASSUME NEW i \in InLine(q)
      PROVE  Rank(q, i) \in Nat \ {0} /\ Rank(q, i) <= Cardinality(InLine(q))
  <2> DEFINE S == {j \in InLine(q) : j <= i}
  <2>1. S \in SUBSET InLine(q) /\ i \in S
    BY DEF InLine
  <2> HIDE DEF S
  <2>2. IsFiniteSet(S) /\ Cardinality(S) <= Cardinality(InLine(q)) /\ Cardinality(S) \in Nat
    BY <1>1, <2>1, FS_Subset, FS_CardinalityType
  <2>3. Cardinality(S) # 0
    BY <2>1, <2>2, FS_EmptySet
  <2> QED BY <2>2, <2>3 DEF Rank, S
<1> QED BY <1>1, <1>2

\* One byte more: it is in the request line if it is text and no LF came before;
\* the places before it keep their ranks.
LEMMA LineGrows ==
    ASSUME NEW q \in Seq(Text), NEW b \in Text
    PROVE  LET p == Append(q, b)
               n == Len(q) + 1
               in == b \notin {"CR", "LF"} /\ \A i \in DOMAIN q : q[i] # "LF"
           IN  /\ InLine(p) = IF in THEN InLine(q) \cup {n} ELSE InLine(q)
               /\ n \notin InLine(q)
               /\ \A i \in InLine(q) : Rank(p, i) = Rank(q, i) /\ p[i] = q[i]
               /\ in => /\ Cardinality(InLine(p)) = Cardinality(InLine(q)) + 1
                        /\ Rank(p, n) = Cardinality(InLine(q)) + 1
<1> DEFINE p == Append(q, b)
           n == Len(q) + 1
           in == b \notin {"CR", "LF"} /\ \A i \in DOMAIN q : q[i] # "LF"
<1>1. /\ Len(q) \in Nat /\ DOMAIN q = 1 .. Len(q) /\ DOMAIN p = 1 .. n
      /\ p[n] = b /\ \A i \in 1 .. Len(q) : p[i] = q[i]
  OBVIOUS
<1> HIDE DEF p
<1>2. InLine(p) = IF in THEN InLine(q) \cup {n} ELSE InLine(q)
  <2>1. ASSUME NEW i \in 1 .. Len(q)
        PROVE  i \in InLine(p) <=> i \in InLine(q)
    BY <1>1 DEF InLine
  <2>2. n \in InLine(p) <=> in
    BY <1>1 DEF InLine
  <2>3. InLine(p) \subseteq 1 .. n /\ InLine(q) \subseteq 1 .. Len(q)
    BY <1>1 DEF InLine
  <2>4. 1 .. n = (1 .. Len(q)) \cup {n} /\ n \notin 1 .. Len(q)
    BY <1>1
  <2> HIDE DEF n, in
  <2>5. CASE in
    <3>1. InLine(p) \subseteq InLine(q) \cup {n}
      BY <2>1, <2>3, <2>4
    <3>2. InLine(q) \cup {n} \subseteq InLine(p)
      BY <2>1, <2>2, <2>3, <2>5
    <3> QED BY <2>5, <3>1, <3>2
  <2>6. CASE ~in
    <3>1. InLine(p) \subseteq InLine(q)
      BY <2>1, <2>2, <2>3, <2>4, <2>6
    <3>2. InLine(q) \subseteq InLine(p)
      BY <2>1, <2>3
    <3> QED BY <2>6, <3>1, <3>2
  <2> QED BY <2>5, <2>6
<1>3. InLine(q) \subseteq 1 .. Len(q) /\ n \notin InLine(q)
  BY <1>1 DEF InLine
<1>4. ASSUME NEW i \in InLine(q) PROVE Rank(p, i) = Rank(q, i) /\ p[i] = q[i]
  <2>1. {j \in InLine(p) : j <= i} = {j \in InLine(q) : j <= i}
    BY <1>1, <1>2, <1>3
  <2> QED BY <1>1, <1>3, <2>1 DEF Rank
<1>5. ASSUME in PROVE /\ Cardinality(InLine(p)) = Cardinality(InLine(q)) + 1
                      /\ Rank(p, n) = Cardinality(InLine(q)) + 1
  <2>1. Cardinality(InLine(p)) = Cardinality(InLine(q)) + 1
    BY <1>2, <1>3, <1>5, LineFinite, FS_AddElement
  <2>2. {j \in InLine(p) : j <= n} = InLine(p)
    BY <1>1, <1>2, <1>3
  <2> QED BY <2>1, <2>2 DEF Rank
<1> QED BY <1>2, <1>3, <1>4, <1>5 DEF p

\* drainHTTPRequest's step keeps what the automaton stands for, until the blank line.
LEMMA StepAutomaton ==
    ASSUME NEW r, RequestTypes(r), Automaton(r), r.s # 4, NEW b \in Symbols
    PROVE  Automaton(Step(r, b))
<1> DEFINE q == r.seen
           p == Append(q, b)
           N == Len(q)
           s == r.s
           t == CASE b = "CR" /\ s \in {0, 2} -> s + 1
                  [] b = "CR" /\ s \notin {0, 2} -> 1
                  [] b = "LF" /\ s \in {1, 3} -> s + 1
                  [] OTHER -> 0
<1>1. q \in Seq(Text) /\ b \in Text /\ s \in 0 .. 3
  BY DEF RequestTypes, Text
<1>2. Step(r, b).seen = p /\ Step(r, b).s = t
  BY DEF Step
<1>3. N \in Nat /\ Len(p) = N + 1 /\ p[N + 1] = b /\ \A i \in 1 .. N : p[i] = q[i]
  BY <1>1
<1>4. /\ ~BlankFrom(q, N - 3)
      /\ s = 3 <=> Ends3(q)
      /\ s = 2 <=> Ends2(q)
      /\ s = 1 <=> Ends1(q) /\ s # 3
      /\ \A k \in 1 .. N - 4 : ~BlankFrom(q, k)
  BY DEF Automaton
<1> HIDE DEF p, N, q, s
<1>5. ASSUME NEW k \in 1 .. N - 3 PROVE ~BlankFrom(p, k)
  <2>1. ~BlankFrom(q, k)
    BY <1>3, <1>4
  <2> QED BY <1>3, <2>1 DEF BlankFrom, N
<1>6. /\ BlankFrom(p, N - 2) <=> b = "LF" /\ Ends3(q)
      /\ Ends3(p) <=> b = "CR" /\ Ends2(q)
      /\ Ends2(p) <=> b = "LF" /\ Ends1(q)
      /\ Ends1(p) <=> b = "CR"
  <2>1. BlankFrom(p, N - 2) <=> b = "LF" /\ Ends3(q)
    <3>1. CASE N >= 3
      <4>1. /\ N - 2 \in 1 .. Len(p) - 3 /\ N - 2 + 1 = N - 1 /\ N - 2 + 2 = N /\ N - 2 + 3 = N + 1
            /\ p[N - 2] = q[N - 2] /\ p[N - 1] = q[N - 1] /\ p[N] = q[N]
        BY <1>3, <3>1
      <4> QED BY <1>3, <3>1, <4>1 DEF BlankFrom, Ends3, N
    <3>2. CASE N < 3
      BY <1>3, <3>2 DEF BlankFrom, Ends3, N
    <3> QED BY <1>3, <3>1, <3>2
  <2>2. Ends3(p) <=> b = "CR" /\ Ends2(q)
    <3>1. CASE N >= 2
      <4>1. /\ Len(p) - 2 = N - 1 /\ Len(p) - 1 = N /\ Len(p) = N + 1 /\ Len(p) >= 3
            /\ p[N - 1] = q[N - 1] /\ p[N] = q[N]
        BY <1>3, <3>1
      <4> QED BY <1>3, <3>1, <4>1 DEF Ends2, Ends3, N
    <3>2. CASE N < 2
      BY <1>3, <3>2 DEF Ends2, Ends3, N
    <3> QED BY <1>3, <3>1, <3>2
  <2>3. Ends2(p) <=> b = "LF" /\ Ends1(q)
    <3>1. CASE N >= 1
      <4>1. Len(p) - 1 = N /\ Len(p) = N + 1 /\ Len(p) >= 2 /\ p[N] = q[N]
        BY <1>3, <3>1
      <4> QED BY <1>3, <3>1, <4>1 DEF Ends1, Ends2, N
    <3>2. CASE N < 1
      BY <1>3, <3>2 DEF Ends1, Ends2, N
    <3> QED BY <1>3, <3>1, <3>2
  <2>4. Ends1(p) <=> b = "CR"
    BY <1>3 DEF Ends1
  <2> QED BY <2>1, <2>2, <2>3, <2>4
<1>7. ~(Ends3(q) /\ Ends2(q)) /\ (Ends3(q) => Ends1(q)) /\ ~(Ends1(q) /\ Ends2(q))
  BY <1>1 DEF Ends1, Ends2, Ends3
<1>8. Len(p) - 3 = N - 2
  BY <1>3
<1>9. /\ t = 4 <=> BlankFrom(p, Len(p) - 3)
      /\ t = 3 <=> Ends3(p)
      /\ t = 2 <=> Ends2(p) /\ t # 4
      /\ t = 1 <=> Ends1(p) /\ t # 3
  <2> HIDE DEF t
  <2>1. /\ b = "CR" /\ s \in {0, 2} => t = s + 1
        /\ b = "CR" /\ s \notin {0, 2} => t = 1
        /\ b = "LF" /\ s \in {1, 3} => t = s + 1
        /\ (b = "LF" /\ s \notin {1, 3}) \/ b \notin {"CR", "LF"} => t = 0
    BY DEF t
  <2> QED BY <1>1, <1>4, <1>6, <1>7, <1>8, <2>1 DEF Symbols
<1> HIDE DEF t
<1>10. \A k \in 1 .. Len(p) - 4 : ~BlankFrom(p, k)
  BY <1>3, <1>5
<1> QED BY <1>2, <1>9, <1>10 DEF Automaton

\* ... and what is kept of the request line.
LEMMA StepKept ==
    ASSUME NEW r, RequestTypes(r), Kept(r), NEW b \in Symbols
    PROVE  Kept(Step(r, b))
<1> DEFINE q == r.seen
           p == Append(q, b)
           n == Len(q) + 1
           l == r.line
           m == IF ~r.lineDone /\ b \notin {"CR", "LF"} /\ Len(l) < MaxLine
                THEN Append(l, b) ELSE l
           in == b \notin {"CR", "LF"} /\ ~r.lineDone
<1>1. q \in Seq(Text) /\ b \in Text /\ l \in Seq(Text) /\ r.lineDone \in BOOLEAN
  BY DEF RequestTypes, Text
<1>2. /\ Step(r, b).seen = p /\ Step(r, b).line = m
      /\ Step(r, b).lineDone = (r.lineDone \/ b = "LF")
  BY DEF Step
<1>3. /\ r.lineDone <=> \E i \in DOMAIN q : q[i] = "LF"
      /\ Len(l) <= Cardinality(InLine(q))
      /\ Len(l) < MaxLine => Len(l) = Cardinality(InLine(q))
      /\ \A i \in InLine(q) : Rank(q, i) <= Len(l) => l[Rank(q, i)] = q[i]
  BY DEF Kept
<1>4. /\ IsFiniteSet(InLine(q)) /\ Cardinality(InLine(q)) \in Nat
      /\ \A i \in InLine(q) : Rank(q, i) \in Nat \ {0} /\ Rank(q, i) <= Cardinality(InLine(q))
  BY <1>1, LineFinite
<1>5. /\ InLine(p) = IF in THEN InLine(q) \cup {n} ELSE InLine(q)
      /\ \A i \in InLine(q) : Rank(p, i) = Rank(q, i) /\ p[i] = q[i]
      /\ in => /\ Cardinality(InLine(p)) = Cardinality(InLine(q)) + 1
               /\ Rank(p, n) = Cardinality(InLine(q)) + 1
  BY <1>1, <1>3, LineGrows
<1>6. (r.lineDone \/ b = "LF") <=> \E i \in DOMAIN p : p[i] = "LF"
  <2>1. /\ DOMAIN p = 1 .. n /\ DOMAIN q = 1 .. Len(q) /\ Len(q) \in Nat
        /\ p[n] = b /\ \A i \in 1 .. Len(q) : p[i] = q[i]
    BY <1>1
  <2> QED BY <1>3, <2>1
<1>7. p[n] = b
  BY <1>1
<1>8. Len(l) \in Nat /\ MaxLine \in Nat
  BY <1>1, ConnAssumption
<1>12. ASSUME Len(m) <= Cardinality(InLine(p)),
              Len(m) < MaxLine => Len(m) = Cardinality(InLine(p)),
              \A i \in InLine(p) : Rank(p, i) <= Len(m) => m[Rank(p, i)] = p[i]
       PROVE  Kept(Step(r, b))
  <2> DEFINE u == Step(r, b)
  <2>1. u.lineDone <=> \E i \in DOMAIN p : p[i] = "LF"
    BY <1>2, <1>6
  <2>2. u.seen = p /\ u.line = m
    BY <1>2
  <2> HIDE DEF u, p, m
  <2>3. Kept(u)
    BY <1>12, <2>1, <2>2 DEF Kept
  <2> QED BY <2>3 DEF u
<1> DEFINE C == Cardinality(InLine(q))
<1>9. CASE in /\ Len(l) < MaxLine
  <2>1. m = Append(l, b)
    BY <1>9
  <2>2. Len(m) = Len(l) + 1 /\ m[Len(l) + 1] = b /\ \A k \in 1 .. Len(l) : m[k] = l[k]
    BY <1>1, <2>1
  <2> HIDE DEF m, p, q, l, n
  <2>3. Len(l) = C /\ C \in Nat
    BY <1>3, <1>4, <1>9
  <2>4. Cardinality(InLine(p)) = Len(m)
    BY <1>5, <1>9, <2>2, <2>3
  <2>5. ASSUME NEW i \in InLine(p) PROVE m[Rank(p, i)] = p[i]
    <3>1. CASE i = n
      BY <1>5, <1>7, <1>9, <2>2, <2>3, <3>1
    <3>2. CASE i \in InLine(q)
      <4>1. Rank(q, i) \in 1 .. Len(l)
        BY <1>4, <2>3, <3>2
      <4> QED BY <1>3, <1>5, <2>2, <3>2, <4>1
    <3> QED BY <1>5, <1>9, <2>5, <3>1, <3>2
  <2>6. Len(m) \in Nat
    BY <1>8, <2>2
  <2> QED BY <1>12, <2>4, <2>5, <2>6
<1>10. CASE in /\ ~(Len(l) < MaxLine)
  <2>1. m = l
    BY <1>10
  <2> HIDE DEF m, p, q, l, n
  <2>2. Cardinality(InLine(p)) = C + 1 /\ C \in Nat /\ Len(l) <= C
    BY <1>3, <1>4, <1>5, <1>10
  <2>3. ASSUME NEW i \in InLine(p), Rank(p, i) <= Len(l) PROVE l[Rank(p, i)] = p[i]
    <3>1. CASE i = n
      BY <1>5, <1>8, <1>10, <2>2, <2>3, <3>1
    <3>2. CASE i \in InLine(q)
      BY <1>3, <1>5, <2>3, <3>2
    <3> QED BY <1>5, <1>10, <2>3, <3>1, <3>2
  <2>4. Len(l) <= C + 1
    BY <1>8, <2>2
  <2> QED BY <1>10, <1>12, <2>1, <2>2, <2>3, <2>4
<1>11. CASE ~in
  <2>1. m = l
    BY <1>11
  <2> HIDE DEF m, p, q, l, n
  <2>2. InLine(p) = InLine(q)
    BY <1>5, <1>11
  <2> QED BY <1>3, <1>5, <1>12, <2>1, <2>2
<1> QED BY <1>9, <1>10, <1>11

\* A step of the drain gives a request of the kind.
LEMMA StepTypes ==
    ASSUME NEW r, RequestTypes(r), NEW b \in Symbols
    PROVE  RequestTypes(Step(r, b))
<1> DEFINE l == IF ~r.lineDone /\ b \notin {"CR", "LF"} /\ Len(r.line) < MaxLine
                THEN Append(r.line, b) ELSE r.line
           t == CASE b = "CR" /\ r.s \in {0, 2} -> r.s + 1
                  [] b = "CR" /\ r.s \notin {0, 2} -> 1
                  [] b = "LF" /\ r.s \in {1, 3} -> r.s + 1
                  [] OTHER -> 0
<1>1. r.seen \in Seq(Text) /\ r.line \in Seq(Text) /\ b \in Text /\ r.lineDone \in BOOLEAN /\ r.s \in 0 .. 4
  BY DEF RequestTypes, Text
<1>2. Append(r.seen, b) \in Seq(Text) /\ Append(r.line, b) \in Seq(Text)
  BY <1>1
<1>3. l \in Seq(Text) /\ (r.lineDone \/ b = "LF") \in BOOLEAN
  BY <1>1, <1>2
<1>4. t \in 0 .. 4
  BY <1>1
<1> HIDE DEF l, t
<1>5. Step(r, b) = [seen |-> Append(r.seen, b), line |-> l, lineDone |-> r.lineDone \/ b = "LF", s |-> t]
  BY DEF Step, l, t
<1> QED BY <1>2, <1>3, <1>4, <1>5 DEF RequestTypes

\* readClientHandshake hands the method to the drain; before, nothing is read.
LEMMA BeginsRequest ==
    ASSUME NEW p, p \in {Method, <<>>}
    PROVE  /\ Request(Begun(p)) /\ Begun(p).s # 4
           /\ Len(Begun(p).seen) \in Nat /\ Len(Begun(p).seen) <= 1
<1> DEFINE r == Begun(p)
<1>1. r = [seen |-> p, line |-> p, lineDone |-> FALSE, s |-> 0]
  BY DEF Begun
<1>2. /\ p \in Seq(Text) /\ Len(p) \in Nat /\ Len(p) <= 1
      /\ \A i \in 1 .. Len(p) : p[i] = "text"
  <2> USE DEF Text, Symbols
  <2>1. CASE p = <<>>
    BY <2>1
  <2>2. CASE p = <<"text">>
    <3>1. Len(p) = 1 /\ p[1] = "text" /\ p \in Seq(Text)
      BY <2>2
    <3> HIDE DEF Text
    <3> QED BY <3>1
  <2> QED BY <2>1, <2>2 DEF Method
<1> HIDE DEF r
<1>3. r.seen = p /\ r.line = p /\ r.lineDone = FALSE /\ r.s = 0 /\ RequestTypes(r)
  BY <1>1, <1>2 DEF RequestTypes
<1>4. DOMAIN p = 1 .. Len(p)
  BY <1>2
<1>5. Automaton(r)
  <2> DEFINE N == Len(p)
  <2>0. N \in Nat /\ N <= 1
    BY <1>2
  <2> HIDE DEF N
  <2>1. ~Ends1(p) /\ ~Ends2(p) /\ ~Ends3(p)
    BY <1>2, <2>0 DEF Ends1, Ends2, Ends3, N
  <2>2. \A k : ~BlankFrom(p, k)
    BY <2>0 DEF BlankFrom, N
  <2> QED BY <1>3, <2>1, <2>2 DEF Automaton
<1>6. Kept(r)
  <2>1. InLine(p) = 1 .. Len(p)
    BY <1>2, <1>4 DEF InLine
  <2>2. Cardinality(InLine(p)) = Len(p)
    <3> DEFINE N == Len(p)
    <3>1. N \in Nat /\ InLine(p) = 1 .. N
      BY <1>2, <2>1
    <3> HIDE DEF N
    <3>2. Cardinality(1 .. N) = N
      BY <3>1, FS_Interval
    <3> QED BY <3>1, <3>2 DEF N
  <2>3. ASSUME NEW i \in InLine(p) PROVE Rank(p, i) = i
    <3>1. {j \in InLine(p) : j <= i} = 1 .. i /\ i \in Nat \ {0}
      BY <1>2, <2>1
    <3>2. Cardinality(1 .. i) = i
      BY <3>1, FS_Interval
    <3> QED BY <3>1, <3>2 DEF Rank
  <2>4. ~\E i \in DOMAIN p : p[i] = "LF"
    BY <1>2, <1>4
  <2> QED BY <1>2, <1>3, <2>2, <2>3, <2>4 DEF Kept
<1> QED BY <1>2, <1>3, <1>5, <1>6 DEF Request, r

\* No connection has read anything yet.
LEMMA ReqInit == Init => ReqInv
<1> SUFFICES ASSUME Init PROVE ReqInv
  OBVIOUS
<1>1. Request(NoRequest)
  BY BeginsRequest DEF NoRequest
<1> QED BY <1>1 DEF Init, ReqInv, Request, RequestTypes

\* A step of a connection leaves its request alone, drops it, begins one, or reads
\* one byte more.
LEMMA MovesRequest ==
    ASSUME Types, ReqInv, NEW c \in Conns, Moves(c)
    PROVE  /\ \A d \in Conns \ {c} : req'[d] = req[d]
           /\ req' = [req EXCEPT ![c] = req'[c]]
           /\ \/ req'[c] = req[c] /\ (pc'[c] = "drain" => pc[c] = "drain")
              \/ req'[c] = NoRequest /\ pc'[c] # "drain"
              \/ req'[c] = Begun(Method)
              \/ /\ pc[c] = "drain"
                 /\ \E b \in Symbols : req'[c] = Step(req[c], b)
                 /\ pc'[c] = "drain" => ~Drained(req'[c])
<1> USE DEF Types, ReqInv
<1>1. CASE Connect(c) \/ PeerLeaves(c) \/ DialEnds(c) \/ Accept(c) \/ Reap(c)
  BY <1>1 DEF Connect, PeerLeaves, DialEnds, Accept, Reap
<1>2. CASE TakeSlot(c) \/ DropSaturated(c) \/ Close(c) \/ Release(c)
  BY <1>2 DEF TakeSlot, DropSaturated, Close, Release, Goes
<1>3. CASE TlsFails(c) \/ HelloGood(c) \/ HelloBad(c) \/ DrainStops(c)
  BY <1>3 DEF TlsFails, HelloGood, HelloBad, DrainStops, Goes
<1>4. CASE PageWritten(c) \/ PageFails(c)
  BY <1>4 DEF PageWritten, PageFails
<1>5. CASE Welcome(c) \/ WelcomeFails(c) \/ SessionEnds(c)
  BY <1>5 DEF Welcome, WelcomeFails, SessionEnds, Goes
<1>6. CASE TlsDone(c) \/ ReadPrefix(c)
  BY <1>6 DEF TlsDone, ReadPrefix, Goes
<1>7. CASE ReadMethod(c) \/ FrameRefused(c)
  BY <1>7 DEF ReadMethod, FrameRefused, Goes
<1>8. CASE \E b \in Symbols : DrainReads(c, b)
  BY <1>8 DEF DrainReads, Goes
<1> QED BY <1>1, <1>2, <1>3, <1>4, <1>5, <1>6, <1>7, <1>8 DEF Moves, Serve, Receive

\* The invariant of the requests is inductive.
LEMMA ReqStep == ConnInv /\ ReqInv /\ [Next]_vars => ReqInv'
<1> SUFFICES ASSUME ConnInv, ReqInv, [Next]_vars PROVE ReqInv'
  OBVIOUS
<1>1. CASE Tick \/ UNCHANGED vars
  BY <1>1 DEF Tick, vars, ReqInv
<1>2. ASSUME NEW c \in Conns, Moves(c) PROVE ReqInv'
  <2>1. Types /\ Types' /\ \A d \in Conns \ {c} : pc'[d] = pc[d]
    BY <1>2, MovesTypes DEF ConnInv
  <2>2. /\ \A d \in Conns \ {c} : req'[d] = req[d]
        /\ req' = [req EXCEPT ![c] = req'[c]]
    BY <1>2, <2>1, MovesRequest
  <2>3. Request(req'[c]) /\ (pc'[c] = "drain" => ~Drained(req'[c]))
    <3>0. Request(req[c]) /\ (pc[c] = "drain" => ~Drained(req[c]))
      BY DEF ReqInv
    <3>1. CASE req'[c] = req[c] /\ (pc'[c] = "drain" => pc[c] = "drain")
      BY <3>0, <3>1
    <3>2. CASE req'[c] = NoRequest /\ pc'[c] # "drain"
      BY <3>2, BeginsRequest DEF NoRequest
    <3>3. CASE req'[c] = Begun(Method)
      <4>1. /\ Request(req'[c]) /\ req'[c].s # 4 /\ Len(req'[c].seen) <= 1
            /\ Len(req'[c].seen) \in Nat
        BY <3>3, BeginsRequest
      <4> QED BY <4>1, ConnAssumption DEF Drained
    <3>4. CASE /\ pc[c] = "drain"
               /\ \E b \in Symbols : req'[c] = Step(req[c], b)
               /\ pc'[c] = "drain" => ~Drained(req'[c])
      <4>1. PICK b \in Symbols : req'[c] = Step(req[c], b)
        BY <3>4
      <4>2. req[c].s # 4
        BY <3>0, <3>4 DEF Drained
      <4> QED BY <3>0, <3>4, <4>1, <4>2, StepTypes, StepAutomaton, StepKept DEF Request
    <3> QED BY <1>2, <2>1, <3>1, <3>2, <3>3, <3>4, MovesRequest
  <2>4. req' \in [Conns -> [seen : Seq(Text), line : Seq(Text), lineDone : BOOLEAN, s : 0 .. 4]]
    BY <2>2, <2>3 DEF ReqInv, Request, RequestTypes
  <2>5. ASSUME NEW d \in Conns
        PROVE  Request(req'[d]) /\ (pc'[d] = "drain" => ~Drained(req'[d]))
    BY <2>1, <2>2, <2>3, <2>5 DEF ReqInv
  <2> QED BY <2>4, <2>5 DEF ReqInv
<1> QED BY <1>1, <1>2 DEF Next, Moves

\* drainHTTPRequest reads up to the first blank line and not a byte further, however
\* CR and LF are strewn before it, stops at its limit, and keeps the request line
\* in order up to its own limit.
THEOREM DrainsOneRequestHolds == Spec => []DrainsOneRequest
<1>1. ReqInv => DrainsOneRequest
  <2> SUFFICES ASSUME ReqInv, NEW c \in Conns PROVE DrainsOneRequest!(c)
    BY DEF DrainsOneRequest
  <2>1. /\ RequestTypes(req[c]) /\ Automaton(req[c]) /\ Kept(req[c])
        /\ pc[c] = "drain" => ~Drained(req[c])
    BY DEF ReqInv, Request
  <2>2. req[c].seen \in Seq(Text)
    BY <2>1 DEF RequestTypes
  <2>3. \A k : BlankLineAt(req[c].seen, k) <=> BlankFrom(req[c].seen, k)
    BY <2>2, BlankPlaces
  <2> QED BY <2>1, <2>3 DEF Automaton, Kept
<1> QED BY <1>1, ConnInvariant, ReqInit, ReqStep, PTL DEF Spec
=============================================================================
