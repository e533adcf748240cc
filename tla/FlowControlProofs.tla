------------------------- MODULE FlowControlProofs --------------------------
(***************************************************************************)
(* Proofs about FlowControl, for any number of uploads, any chunk sizes up *)
(* to the window, any window, any caps and whatever other sessions hold:   *)
(* no credit is lost or invented (WindowConserved), an upload of a client  *)
(* that keeps to its windows is shed only in a crowd (ShedOnlyIfCrowded),  *)
(* and both ends together keep the promise of module Upload                *)
(* (RefinesUpload).                                                        *)
(*                                                                         *)
(* The inductive invariant WindowInv: types; that an OPEN is on the wire   *)
(* only before its stream exists (OpenOnce); that a stream whose dial is   *)
(* not over has no pump and no answer (PumpStarted, Unanswered); that no   *)
(* frame ends an open stream (Lasting); that OPEN_OK is sent once (OkOnce) *)
(* and nothing moves before it is read (Silent); that the client keeps an  *)
(* open stream in its map, so that no credit is ignored (Kept), and the    *)
(* server queues nothing for one that is not there (Dropped); the window's *)
(* equation for every open stream (Balanced), and that one being closed    *)
(* takes no more than its window along (QueueBound).  UploadInv adds the   *)
(* order of the chunks from the writer to the upstream (Ordered), that     *)
(* what arrived was sent (GotSent), and the ledger of bytes sent against   *)
(* bytes delivered (Ledger), which also holds of a closed stream.          *)
(***************************************************************************)
EXTENDS FlowControl, TotalsProofs, SequenceTheorems

-----------------------------------------------------------------------------
(* The inductive invariant *)

\* Frames a client sends: a DATA frame carries the number of a chunk of its plan.
CFrame ==
    {f \in [type : {"OPEN", "DATA", "CLOSE"}, id : Uploads, val : Nat] :
        f.type = "DATA" => f.val \in 1 .. Len(Plan[f.id])}

SFrame ==
    [type : {"OPEN_OK", "OPEN_ERR", "WINDOW_UPDATE", "CLOSE"}, id : Uploads, val : Nat]

\* Frame i of q is a frame of type t about u.
At(q, i, t, u) == q[i].type = t /\ q[i].id = u

\* closeStream has begun, or is over.
Ending == {"dropping", "closing", "closed"}

\* The type of the state.
ClientTypes ==
    /\ cpc \in [Uploads -> {"idle", "opening", "send", "parked", "write", "sent",
                            "broken", "failed"}]
    /\ sent \in [Uploads -> Nat]
    /\ sendWindow \in [Uploads -> Nat]
    /\ answer \in [Uploads -> SUBSET {"ok", "err"}]
    /\ known \subseteq Uploads
    /\ waking \subseteq Uploads

ServerTypes ==
    /\ stream \in [Uploads -> {"none", "dialing", "open"} \cup Ending]
    /\ pump \in [Uploads -> {"idle", "take", "write", "credit", "exit"}]
    /\ hand \in [Uploads -> [chunk : Nat, emptyNow : BOOLEAN]]
    /\ credited \in [Uploads -> Nat]
    /\ got \in [Uploads -> Seq(Nat)]
    /\ queue \in [Uploads -> Seq(Nat)]

WireTypes == c2s \in Seq(CFrame) /\ s2c \in Seq(SFrame)

\* Chunk numbers are numbers of chunks of the plan.
ChunksPlanned ==
    \A u \in Uploads :
        /\ sent[u] <= Len(Plan[u])
        /\ cpc[u] = "write" => sent[u] < Len(Plan[u])
        /\ queue[u] \in Seq(1 .. Len(Plan[u]))
        /\ pump[u] = "write" => hand[u].chunk \in 1 .. Len(Plan[u])

\* An OPEN is sent once and is on the wire only before the stream exists.
OpenOnce ==
    \A u \in Uploads :
        /\ cpc[u] = "idle" => stream[u] = "none"
        /\ \A i \in 1 .. Len(c2s) :
               At(c2s, i, "OPEN", u) =>
                   /\ stream[u] = "none" /\ cpc[u] # "idle"
                   /\ \A j \in 1 .. Len(c2s) : At(c2s, j, "OPEN", u) => i = j

\* A pump runs once the dial has succeeded.
PumpStarted ==
    \A u \in Uploads : pump[u] # "idle" => stream[u] \in {"open"} \cup Ending

\* Before its dial is over a stream has caused nothing on the client's side.
Unanswered ==
    \A u \in Uploads :
        stream[u] \in {"none", "dialing"} =>
            /\ answer[u] = {} /\ u \notin waking
            /\ \A i \in 1 .. Len(s2c) : s2c[i].id # u

\* While the stream is open, nothing that ends it is under way to the client.
Lasting ==
    \A u \in Uploads :
        stream[u] = "open" =>
            /\ "err" \notin answer[u] /\ u \notin waking
            /\ \A i \in 1 .. Len(s2c) : s2c[i].id = u => s2c[i].type \in {"OPEN_OK", "WINDOW_UPDATE"}

\* OPEN_OK is sent once, with the window.
OkOnce ==
    \A u \in Uploads : \A i \in 1 .. Len(s2c) :
        At(s2c, i, "OPEN_OK", u) =>
            /\ s2c[i].val = Window /\ "ok" \notin answer[u]
            /\ \A j \in 1 .. Len(s2c) : At(s2c, j, "OPEN_OK", u) => i = j

\* Nothing moves before OPEN_OK was read.
Silent ==
    \A u \in Uploads :
        "ok" \notin answer[u] =>
            /\ sendWindow[u] = 0 /\ sent[u] = 0 /\ credited[u] = 0
            /\ got[u] = <<>> /\ queue[u] = <<>>
            /\ cpc[u] \in {"idle", "opening", "failed"}
            /\ pump[u] \in {"idle", "take", "exit"}
            /\ \A i \in 1 .. Len(c2s) : ~At(c2s, i, "DATA", u)
            /\ \A i \in 1 .. Len(s2c) : ~At(s2c, i, "WINDOW_UPDATE", u)

\* A stream that is open and was answered is in the client's map.
Kept ==
    \A u \in Uploads : stream[u] = "open" /\ "ok" \in answer[u] => u \in known

\* The queue of a stream that does not exist, or not any more, is empty.
Dropped == \A u \in Uploads : ~Alive(u) => queue[u] = <<>>

\* A stream that is being closed has no more bytes queued than one that is open.
QueueBound == \A u \in Uploads : stream[u] \in {"dropping", "closing"} => Queued(u) <= Window

\* The chunks the server has of u: delivered, in the pump's hand, queued.
InHand(u) == IF pump[u] = "write" THEN 1 ELSE 0
Taken(u) == Len(got[u]) + InHand(u) + Len(queue[u])

\* The DATA frames of u on wire q carry the chunks above lo up to hi, in order.
InOrder(q, u, lo, hi) ==
    /\ \A i \in 1 .. Len(q) : At(q, i, "DATA", u) => q[i].val \in lo + 1 .. hi
    /\ \A i, j \in 1 .. Len(q) :
           At(q, i, "DATA", u) /\ At(q, j, "DATA", u) /\ i < j => q[i].val < q[j].val
    /\ \A k \in lo + 1 .. hi : \E i \in 1 .. Len(q) : At(q, i, "DATA", u) /\ q[i].val = k

\* The chunks of an open stream: the hand holds the one after those delivered, the
\* queue those after it, the wire those after it, in order and none missing.
OrderedOne(u) ==
    /\ pump[u] = "write" => hand[u].chunk = Len(got[u]) + 1
    /\ \A i \in 1 .. Len(queue[u]) : queue[u][i] = Len(got[u]) + InHand(u) + i
    /\ Taken(u) <= sent[u]
    /\ InOrder(c2s, u, Taken(u), sent[u])

\* Those of a stream that is being closed: the wire is ignored now, and the queue
\* matters no more once the pump has ended.
Carried(u) ==
    /\ pump[u] = "write" => hand[u].chunk = Len(got[u]) + 1
    /\ pump[u] # "exit" =>
           \A i \in 1 .. Len(queue[u]) : queue[u][i] = Len(got[u]) + InHand(u) + i
    /\ Taken(u) <= sent[u]

\* Chunks keep their order.
Ordered ==
    \A u \in Uploads :
        /\ stream[u] = "open" => OrderedOne(u)
        /\ stream[u] \in {"dropping", "closing"} => Carried(u)

\* What a sequence weighs when x weighs g[x].
Load(q, g) == Total([i \in 1 .. Len(q) |-> g[q[i]]])

\* The weights of frames: the bytes of a DATA frame, the credit of a WINDOW_UPDATE.
DataOf(u) == [f \in CFrame |-> IF f.type = "DATA" /\ f.id = u THEN Plan[u][f.val] ELSE 0]
CreditOf(u) == [f \in SFrame |-> IF f.type = "WINDOW_UPDATE" /\ f.id = u THEN f.val ELSE 0]

Acquired(u) == IF cpc[u] = "write" THEN NextSize(u) ELSE 0
Held(u) == IF pump[u] = "write" THEN Size(u, hand[u].chunk) ELSE 0
DataWire(u) == Load(c2s, DataOf(u))
CreditWire(u) == Load(s2c, CreditOf(u))

\* WindowConserved, in terms of Load.
Balanced ==
    \A u \in Uploads :
        stream[u] = "open" /\ "ok" \in answer[u] =>
            Window = sendWindow[u] + Acquired(u) + DataWire(u) + Queued(u) + Held(u)
                     + credited[u] + CreditWire(u)

\* Bytes of the first n chunks, as in Upload.
Bytes(u, n) == TotalOn(1 .. n, Plan[u])

\* Nothing is delivered that was not sent.
GotSent == \A u \in Uploads : Len(got[u]) <= sent[u]

\* The client's window and all it has sent never exceed the advertised window
\* and what was delivered, whatever became of the stream.
Ledger ==
    \A u \in Uploads :
        "ok" \in answer[u] =>
            sendWindow[u] + Acquired(u) + Bytes(u, sent[u]) + credited[u] + CreditWire(u)
                <= Window + Bytes(u, Len(got[u]))

-----------------------------------------------------------------------------
(* What sequences weigh *)

\* The sequence of the weights of q.
LEMMA Weights ==
    ASSUME NEW S, NEW g \in [S -> Nat], NEW q \in Seq(S)
    PROVE  /\ [i \in 1 .. Len(q) |-> g[q[i]]] \in Seq(Nat)
           /\ Len([i \in 1 .. Len(q) |-> g[q[i]]]) = Len(q)
           /\ Load(q, g) \in Nat
<1> DEFINE D == 1 .. Len(q)
           r == [i \in D |-> g[q[i]]]
<1>1. Len(q) \in Nat /\ \A i \in D : q[i] \in S
  OBVIOUS
<1>2. r \in [1 .. Len(q) -> Nat]
  BY <1>1
<1>3. r \in Seq(Nat) /\ Len(r) = Len(q)
  <2> HIDE DEF r
  <2>1. r \in Seq(Nat)
    BY <1>1, <1>2
  <2>2. DOMAIN r = 1 .. Len(q)
    BY <1>2
  <2> QED BY <2>1, <2>2, <1>1, LenProperties
<1>4. IsFiniteSet(D)
  BY <1>1, FS_Interval
<1>5. Total(r) \in Nat
  <2>1. r \in [D -> Nat]
    BY <1>2
  <2> HIDE DEF r, D
  <2> QED BY <2>1, <1>4, TotalType
<1> QED
  BY <1>3, <1>5 DEF Load

\* ... grows by the weight of what joins it;
LEMMA LoadAppend ==
    ASSUME NEW S, NEW g \in [S -> Nat], NEW q \in Seq(S), NEW x \in S
    PROVE  Load(Append(q, x), g) = Load(q, g) + g[x]
<1> DEFINE p == Append(q, x)
           r == [i \in 1 .. Len(q) |-> g[q[i]]]
           s == [i \in 1 .. Len(p) |-> g[p[i]]]
<1>1. /\ Len(p) = Len(q) + 1 /\ Len(q) \in Nat /\ p[Len(q) + 1] = x
      /\ \A i \in 1 .. Len(q) : p[i] = q[i]
  OBVIOUS
<1>2. r \in Seq(Nat) /\ Len(r) = Len(q) /\ g[x] \in Nat
  BY Weights
<1>3. s = Append(r, g[x])
  <2>1. /\ Append(r, g[x]) \in Seq(Nat) /\ Len(Append(r, g[x])) = Len(q) + 1
        /\ Append(r, g[x])[Len(q) + 1] = g[x]
        /\ \A i \in 1 .. Len(q) : Append(r, g[x])[i] = r[i]
    <3> HIDE DEF r
    <3> QED BY <1>2
  <2>2. s \in Seq(Nat) /\ Len(s) = Len(q) + 1
    <3>1. p \in Seq(S)
      OBVIOUS
    <3> HIDE DEF p
    <3> QED BY <3>1, Weights, <1>1
  <2>3. \A i \in 1 .. Len(q) + 1 : s[i] = Append(r, g[x])[i]
    <3>1. \A i \in 1 .. Len(q) : s[i] = r[i]
      <4> HIDE DEF p
      <4> QED BY <1>1
    <3>2. s[Len(q) + 1] = g[x]
      <4> HIDE DEF p
      <4> QED BY <1>1
    <3> HIDE DEF s, r, p
    <3> QED BY <3>1, <3>2, <2>1, <1>1
  <2> HIDE DEF s, r, p
  <2> QED BY <2>1, <2>2, <2>3, SeqEqual
<1> HIDE DEF r, s, p
<1>4. Total(Append(r, g[x])) = Total(r) + g[x]
  BY <1>2, TotalAppend
<1> QED
  BY <1>3, <1>4 DEF Load, r, s, p

\* ... shrinks by the weight of the first when that leaves;
LEMMA LoadTail ==
    ASSUME NEW S, NEW g \in [S -> Nat], NEW q \in Seq(S), q # <<>>
    PROVE  Load(Tail(q), g) = Load(q, g) - g[q[1]] /\ g[q[1]] <= Load(q, g)
<1> DEFINE p == Tail(q)
           r == [i \in 1 .. Len(q) |-> g[q[i]]]
           s == [i \in 1 .. Len(p) |-> g[p[i]]]
<1>1. /\ Len(p) = Len(q) - 1 /\ Len(q) \in Nat \ {0}
      /\ \A i \in 1 .. Len(p) : p[i] = q[i + 1]
  OBVIOUS
<1>2. r \in Seq(Nat) /\ Len(r) = Len(q)
  BY Weights
<1>3. r # <<>> /\ Head(r) = g[q[1]]
  <2>1. r # <<>>
    <3> HIDE DEF r
    <3> QED BY <1>1, <1>2
  <2>2. r[1] = g[q[1]]
    BY <1>1
  <2>3. Head(r) = r[1]
    <3> HIDE DEF r
    <3> QED BY <1>2, <2>1
  <2> QED BY <2>1, <2>2, <2>3
<1>4. s = Tail(r)
  <2>1. /\ Tail(r) \in Seq(Nat) /\ Len(Tail(r)) = Len(q) - 1
        /\ \A i \in 1 .. Len(q) - 1 : Tail(r)[i] = r[i + 1]
    <3> HIDE DEF r
    <3> QED BY <1>2, <1>3
  <2>2. s \in Seq(Nat) /\ Len(s) = Len(q) - 1
    <3>1. p \in Seq(S)
      OBVIOUS
    <3> HIDE DEF p
    <3> QED BY <3>1, Weights, <1>1
  <2>3. \A i \in 1 .. Len(q) - 1 : s[i] = Tail(r)[i]
    <3>1. \A i \in 1 .. Len(q) - 1 : s[i] = g[q[i + 1]]
      <4> HIDE DEF p
      <4> QED BY <1>1
    <3>2. \A i \in 1 .. Len(q) - 1 : r[i + 1] = g[q[i + 1]]
      BY <1>1
    <3> HIDE DEF s, r, p
    <3> QED BY <3>1, <3>2, <2>1
  <2> HIDE DEF s, r, p
  <2> QED BY <2>1, <2>2, <2>3, SeqEqual
<1> HIDE DEF r, s, p
<1>5. Total(Tail(r)) = Total(r) - Head(r) /\ Head(r) <= Total(r)
  BY <1>2, <1>3, TotalTail
<1> QED
  BY <1>3, <1>4, <1>5 DEF Load, r, s, p

\* ... and is nothing if nothing in it weighs anything.
LEMMA LoadZero ==
    ASSUME NEW S, NEW g \in [S -> Nat], NEW q \in Seq(S),
           \A i \in 1 .. Len(q) : g[q[i]] = 0
    PROVE  Load(q, g) = 0
<1> DEFINE D == 1 .. Len(q)
           r == [i \in D |-> g[q[i]]]
<1>1. r \in [D -> Nat] /\ \A i \in D : r[i] = 0
  OBVIOUS
<1>2. Total(r) = 0
  <2> HIDE DEF r, D
  <2> QED BY <1>1, TotalZero
<1> QED
  BY <1>2 DEF Load

-----------------------------------------------------------------------------
(* The wires, and what a step is *)

\* Plans and weights are functions into the naturals.
LEMMA WeightTypes ==
    ASSUME NEW u \in Uploads
    PROVE  /\ Len(Plan[u]) \in Nat
           /\ Plan[u] \in [1 .. Len(Plan[u]) -> Nat]
           /\ \A k \in 1 .. Len(Plan[u]) : Plan[u][k] \in Nat /\ Plan[u][k] <= Window
           /\ DataOf(u) \in [CFrame -> Nat]
           /\ CreditOf(u) \in [SFrame -> Nat]
<1>1. Plan[u] \in Seq(1 .. Window) /\ Window \in Nat
  BY FlowAssumption
<1>2. Len(Plan[u]) \in Nat /\ Plan[u] \in [1 .. Len(Plan[u]) -> 1 .. Window]
  BY <1>1
<1>3. \A k \in 1 .. Len(Plan[u]) : Plan[u][k] \in Nat /\ Plan[u][k] <= Window
  BY <1>1, <1>2
<1>4. DataOf(u) \in [CFrame -> Nat]
  BY <1>3 DEF DataOf, CFrame
<1>5. CreditOf(u) \in [SFrame -> Nat]
  BY DEF CreditOf, SFrame
<1>6. Plan[u] \in [1 .. Len(Plan[u]) -> Nat]
  BY <1>2, <1>3
<1> QED
  BY <1>2, <1>3, <1>4, <1>5, <1>6

\* A frame joins a wire ...
LEMMA Joins ==
    ASSUME NEW S, NEW q \in Seq(S), NEW x \in S, NEW r, r = Append(q, x)
    PROVE  /\ r \in Seq(S) /\ Len(r) = Len(q) + 1 /\ Len(q) \in Nat
           /\ r[Len(q) + 1] = x
           /\ \A i \in 1 .. Len(q) : r[i] = q[i] /\ q[i] \in S
  OBVIOUS

\* ... or leaves it.
LEMMA Leaves ==
    ASSUME NEW S, NEW q \in Seq(S), q # <<>>, NEW r, r = Tail(q)
    PROVE  /\ r \in Seq(S) /\ Len(r) = Len(q) - 1 /\ Len(q) \in Nat \ {0}
           /\ Head(q) = q[1] /\ q[1] \in S
           /\ \A i \in 1 .. Len(r) : r[i] = q[i + 1] /\ q[i + 1] \in S
  OBVIOUS

\* The actions of upload v, one by one.
StepOf(v) ==
    \/ ClientOpen(v) \/ OpenReturns(v) \/ OpenTimesOut(v) \/ Acquire(v) \/ AwaitWindow(v)
    \/ WriteChunk(v) \/ FinishWriting(v) \/ BridgeEnds(v)
    \/ ReadOpenOk(v) \/ ReadOpenErr(v) \/ ReadWindowUpdate(v) \/ ReadCloseFrame(v)
    \/ ReadOpen(v) \/ DialSucceeds(v) \/ DialFails(v) \/ ReadData(v) \/ ReadClose(v)
    \/ UpstreamEnds(v) \/ Reclaim(v)
    \/ PumpTakes(v) \/ PumpEnds(v) \/ PumpWrites(v) \/ PumpFails(v) \/ PumpCredits(v)

\* All but what other sessions hold.
ownvars == <<cvars, c2s, s2c, svars, got, shed, failed>>

\* A step is an action of one upload, the wake-up that ends markClosed, or
\* changes at most what other sessions hold.
LEMMA Steps ==
    ASSUME [Next]_vars
    PROVE  (\E v \in Uploads : StepOf(v)) \/ WakeWriter \/ UNCHANGED ownvars
<1>1. CASE \E v \in Uploads : Writer(v) \/ OpenTimesOut(v) \/ DialSucceeds(v) \/ DialFails(v)
                              \/ UpstreamEnds(v) \/ Reclaim(v) \/ Pump(v)
  BY <1>1, Zenon DEF Writer, Pump, StepOf
<1>2. CASE ClientLoop
  BY <1>2, Zenon DEF ClientLoop, StepOf
<1>3. CASE ServerLoop
  BY <1>3, Zenon DEF ServerLoop, StepOf
<1>4. CASE Quiet
  BY <1>4 DEF Quiet, vars, ownvars
<1>5. CASE OthersMove \/ UNCHANGED vars
  BY <1>5 DEF OthersMove, vars, ownvars
<1> QED
  BY <1>1, <1>2, <1>3, <1>4, <1>5, Zenon DEF Next

Types == ClientTypes /\ ServerTypes /\ WireTypes /\ ChunksPlanned /\ others \in OtherBytes

\* What other sessions hold is theirs to choose.
LEMMA OthersStep ==
    ASSUME others \in OtherBytes, [Next]_vars
    PROVE  others' \in OtherBytes
<1>1. ASSUME NEW v \in Uploads, StepOf(v) PROVE others' = others
  <2>1. CASE ClientOpen(v) \/ OpenReturns(v) \/ OpenTimesOut(v) \/ Acquire(v) \/ AwaitWindow(v)
             \/ WriteChunk(v) \/ FinishWriting(v) \/ BridgeEnds(v)
    BY <2>1 DEF ClientOpen, OpenReturns, OpenTimesOut, Acquire, AwaitWindow, WriteChunk,
                FinishWriting, BridgeEnds
  <2>2. CASE ReadOpenOk(v) \/ ReadOpenErr(v) \/ ReadWindowUpdate(v) \/ ReadCloseFrame(v)
    BY <2>2 DEF ReadOpenOk, ReadOpenErr, ReadWindowUpdate, ReadCloseFrame
  <2>3. CASE ReadOpen(v) \/ DialSucceeds(v) \/ DialFails(v) \/ ReadData(v) \/ ReadClose(v)
             \/ UpstreamEnds(v) \/ Reclaim(v)
    BY <2>3, Zenon DEF ReadOpen, DialSucceeds, DialFails, ReadData, ReadClose, UpstreamEnds, Reclaim
  <2>4. CASE PumpTakes(v) \/ PumpEnds(v) \/ PumpWrites(v) \/ PumpFails(v) \/ PumpCredits(v)
    BY <2>4, Zenon DEF PumpTakes, PumpEnds, PumpWrites, PumpFails, PumpCredits
  <2> QED BY <1>1, <2>1, <2>2, <2>3, <2>4, Zenon DEF StepOf
<1>2. WakeWriter \/ Quiet \/ UNCHANGED vars => others' = others
  BY DEF WakeWriter, Quiet, vars
<1>3. OthersMove => others' \in OtherBytes
  BY DEF OthersMove
<1>4. (\E v \in Uploads : StepOf(v)) \/ WakeWriter \/ OthersMove \/ Quiet \/ UNCHANGED vars
  BY Zenon DEF Next, ClientLoop, ServerLoop, Writer, Pump, StepOf
<1> QED
  BY <1>1, <1>2, <1>3, <1>4

\* A step writes only frames of their types.
LEMMA WireStep ==
    ASSUME Types, [Next]_vars
    PROVE  WireTypes'
<1> USE DEF Types, WireTypes, ClientTypes, ServerTypes
<1>1. ASSUME NEW t \in {"OPEN", "DATA", "CLOSE"}, NEW u \in Uploads, NEW k \in Nat,
             ToServer(t, u, k), t = "DATA" => k \in 1 .. Len(Plan[u])
      PROVE  c2s' \in Seq(CFrame)
  <2> DEFINE f == [type |-> t, id |-> u, val |-> k]
  <2>1. f \in CFrame
    BY <1>1 DEF CFrame
  <2>2. c2s' = Append(c2s, f)
    BY <1>1 DEF ToServer
  <2> HIDE DEF f
  <2> QED BY <2>1, <2>2, Joins
<1>2. ASSUME NEW t \in {"OPEN_OK", "OPEN_ERR", "WINDOW_UPDATE", "CLOSE"}, NEW u \in Uploads,
             NEW k \in Nat, ToClient(t, u, k)
      PROVE  s2c' \in Seq(SFrame)
  <2> DEFINE f == [type |-> t, id |-> u, val |-> k]
  <2>1. f \in SFrame
    BY <1>2 DEF SFrame
  <2>2. s2c' = Append(s2c, f)
    BY <1>2 DEF ToClient
  <2> HIDE DEF f
  <2> QED BY <2>1, <2>2, Joins
<1>3. ASSUME NEW v \in Uploads, StepOf(v)
      PROVE  WireTypes'
  <2>1. c2s' = c2s \/ (c2s # <<>> /\ c2s' = Tail(c2s)) \/ c2s' \in Seq(CFrame)
    <3>1. CASE ClientOpen(v)
      BY <3>1, <1>1 DEF ClientOpen
    <3>2. CASE WriteChunk(v)
      <4>1. sent[v] + 1 \in Nat /\ sent[v] + 1 \in 1 .. Len(Plan[v])
        BY <3>2, WeightTypes DEF WriteChunk, ChunksPlanned
      <4> QED BY <3>2, <4>1, <1>1 DEF WriteChunk
    <3>3. CASE FinishWriting(v)
      BY <3>3, <1>1 DEF FinishWriting
    <3>4. CASE BridgeEnds(v)
      BY <3>4, <1>1 DEF BridgeEnds
    <3>5. CASE ReadOpen(v) \/ ReadData(v) \/ ReadClose(v)
      BY <3>5 DEF ReadOpen, ReadData, ReadClose, Receives
    <3>6. CASE OpenReturns(v) \/ OpenTimesOut(v) \/ Acquire(v) \/ AwaitWindow(v)
               \/ ReadOpenOk(v) \/ ReadOpenErr(v) \/ ReadWindowUpdate(v) \/ ReadCloseFrame(v)
      BY <3>6 DEF OpenReturns, OpenTimesOut, Acquire, AwaitWindow, ReadOpenOk, ReadOpenErr,
                  ReadWindowUpdate, ReadCloseFrame
    <3>7. CASE DialSucceeds(v) \/ DialFails(v) \/ UpstreamEnds(v) \/ PumpTakes(v) \/ PumpEnds(v)
               \/ PumpWrites(v) \/ PumpFails(v) \/ PumpCredits(v) \/ Reclaim(v)
      BY <3>7 DEF DialSucceeds, DialFails, UpstreamEnds, Reclaim, PumpTakes, PumpEnds, PumpWrites,
                  PumpFails, PumpCredits
    <3> QED BY <1>3, <3>1, <3>2, <3>3, <3>4, <3>5, <3>6, <3>7, Zenon DEF StepOf
  <2>2. s2c' = s2c \/ (s2c # <<>> /\ s2c' = Tail(s2c)) \/ s2c' \in Seq(SFrame)
    <3>1. CASE DialSucceeds(v)
      BY <3>1, <1>2, FlowAssumption DEF DialSucceeds
    <3>2. CASE DialFails(v)
      BY <3>2, <1>2 DEF DialFails
    <3>3. CASE ReadData(v)
      BY <3>3, <1>2 DEF ReadData
    <3>4. CASE UpstreamEnds(v)
      BY <3>4, <1>2 DEF UpstreamEnds
    <3>5. CASE PumpFails(v)
      BY <3>5, <1>2 DEF PumpFails
    <3>6. CASE PumpCredits(v)
      BY <3>6, <1>2 DEF PumpCredits
    <3>7. CASE ReadOpenOk(v) \/ ReadOpenErr(v) \/ ReadWindowUpdate(v) \/ ReadCloseFrame(v)
      BY <3>7 DEF ReadOpenOk, ReadOpenErr, ReadWindowUpdate, ReadCloseFrame, ReadsFrame
    <3>8. CASE ClientOpen(v) \/ OpenReturns(v) \/ OpenTimesOut(v) \/ Acquire(v) \/ AwaitWindow(v)
               \/ WriteChunk(v) \/ FinishWriting(v) \/ BridgeEnds(v)
      BY <3>8 DEF ClientOpen, OpenReturns, OpenTimesOut, Acquire, AwaitWindow, WriteChunk,
                  FinishWriting, BridgeEnds
    <3>9. CASE ReadOpen(v) \/ ReadClose(v) \/ Reclaim(v) \/ PumpTakes(v) \/ PumpEnds(v) \/ PumpWrites(v)
      BY <3>9 DEF ReadOpen, ReadClose, Reclaim, PumpTakes, PumpEnds, PumpWrites
    <3> QED BY <1>3, <3>1, <3>2, <3>3, <3>4, <3>5, <3>6, <3>7, <3>8, <3>9, Zenon DEF StepOf
  <2>3. c2s' \in Seq(CFrame)
    BY <2>1, Leaves
  <2>4. s2c' \in Seq(SFrame)
    BY <2>2, Leaves
  <2> QED BY <2>3, <2>4
<1>4. CASE WakeWriter
  BY <1>4 DEF WakeWriter
<1>5. CASE UNCHANGED ownvars
  BY <1>5 DEF ownvars
<1> QED
  BY <1>3, <1>4, <1>5, Steps

\* Chunk numbers read from the wire or from the queue are of the plan.
LEMMA ChunkRead ==
    ASSUME Types, NEW v \in Uploads
    PROVE  /\ Receives("DATA", v) => Head(c2s).val \in 1 .. Len(Plan[v])
           /\ queue[v] # <<>> => /\ Head(queue[v]) \in 1 .. Len(Plan[v])
                                 /\ Tail(queue[v]) \in Seq(1 .. Len(Plan[v]))
           /\ ReadsFrame("WINDOW_UPDATE", v) \/ ReadsFrame("OPEN_OK", v) => Head(s2c).val \in Nat
<1>1. ASSUME c2s # <<>> PROVE Head(c2s) \in CFrame
  BY <1>1, Leaves DEF Types, WireTypes
<1>2. ASSUME s2c # <<>> PROVE Head(s2c) \in SFrame
  BY <1>2, Leaves DEF Types, WireTypes
<1>3. queue[v] \in Seq(1 .. Len(Plan[v]))
  BY DEF Types, ChunksPlanned
<1>4. ASSUME queue[v] # <<>>
      PROVE  Head(queue[v]) \in 1 .. Len(Plan[v]) /\ Tail(queue[v]) \in Seq(1 .. Len(Plan[v]))
  BY <1>3, <1>4, Leaves
<1>5. Receives("DATA", v) => Head(c2s).val \in 1 .. Len(Plan[v])
  BY <1>1 DEF Receives, CFrame
<1>6. ReadsFrame("WINDOW_UPDATE", v) \/ ReadsFrame("OPEN_OK", v) => Head(s2c).val \in Nat
  BY <1>2 DEF ReadsFrame, SFrame
<1> QED
  BY <1>4, <1>5, <1>6

\* Types of the client's state.
LEMMA ClientTypesStep ==
    ASSUME Types, [Next]_vars
    PROVE  ClientTypes'
<1> USE DEF ClientTypes, CGoto, cvars
<1>0. ClientTypes
  BY DEF Types
<1>1. ASSUME NEW v \in Uploads, StepOf(v)
      PROVE  ClientTypes'
  <2>1. CASE ClientOpen(v) \/ OpenReturns(v) \/ OpenTimesOut(v)
    BY <2>1, <1>0 DEF ClientOpen, OpenReturns, OpenTimesOut
  <2>2. CASE Acquire(v)
    <3>1. sent[v] + 1 \in 1 .. Len(Plan[v])
      BY <2>2, <1>0, WeightTypes DEF Acquire
    <3>2. NextSize(v) \in Nat
      BY <3>1, WeightTypes DEF NextSize, Size
    <3>3. sendWindow[v] - NextSize(v) \in Nat
      BY <2>2, <3>2, <1>0 DEF Acquire
    <3> QED BY <2>2, <1>0, <3>3 DEF Acquire
  <2>3. CASE AwaitWindow(v) \/ WriteChunk(v) \/ FinishWriting(v) \/ BridgeEnds(v)
    <3>1. CASE AwaitWindow(v)
      BY <3>1, <1>0 DEF AwaitWindow
    <3>2. CASE WriteChunk(v)
      BY <3>2, <1>0 DEF WriteChunk
    <3>3. CASE FinishWriting(v) \/ BridgeEnds(v)
      BY <3>3, <1>0 DEF FinishWriting, BridgeEnds
    <3> QED BY <2>3, <3>1, <3>2, <3>3
  <2>4. CASE ReadOpenOk(v)
    BY <2>4, <1>0, ChunkRead DEF ReadOpenOk
  <2>5. CASE ReadOpenErr(v)
    BY <2>5, <1>0 DEF ReadOpenErr
  <2>6. CASE ReadWindowUpdate(v)
    BY <2>6, <1>0, ChunkRead DEF ReadWindowUpdate, Unpark
  <2>7. CASE ReadCloseFrame(v)
    BY <2>7, <1>0 DEF ReadCloseFrame
  <2>8. CASE ReadOpen(v) \/ DialSucceeds(v) \/ DialFails(v) \/ ReadData(v) \/ ReadClose(v)
             \/ UpstreamEnds(v) \/ Reclaim(v)
    BY <2>8, <1>0 DEF ReadOpen, DialSucceeds, DialFails, ReadData, ReadClose, UpstreamEnds, Reclaim
  <2>9. CASE PumpTakes(v) \/ PumpEnds(v) \/ PumpWrites(v) \/ PumpFails(v) \/ PumpCredits(v)
    BY <2>9, <1>0 DEF PumpTakes, PumpEnds, PumpWrites, PumpFails, PumpCredits
  <2> QED BY <1>1, <2>1, <2>2, <2>3, <2>4, <2>5, <2>6, <2>7, <2>8, <2>9, Zenon DEF StepOf
<1>2. CASE WakeWriter
  BY <1>2, <1>0 DEF WakeWriter, Unpark
<1>3. CASE UNCHANGED ownvars
  BY <1>3, <1>0 DEF ownvars
<1> QED
  BY <1>1, <1>2, <1>3, Steps

\* The steps of the client leave the server's state and the upstream alone.
LEMMA ClientSteps ==
    ASSUME NEW v \in Uploads,
           \/ ClientOpen(v) \/ OpenReturns(v) \/ OpenTimesOut(v) \/ Acquire(v) \/ AwaitWindow(v)
           \/ WriteChunk(v) \/ FinishWriting(v) \/ BridgeEnds(v)
           \/ ReadOpenOk(v) \/ ReadOpenErr(v) \/ ReadWindowUpdate(v) \/ ReadCloseFrame(v)
           \/ WakeWriter \/ UNCHANGED ownvars
    PROVE  UNCHANGED <<svars, got, shed, failed>>
<1>1. CASE ClientOpen(v) \/ OpenReturns(v) \/ OpenTimesOut(v) \/ Acquire(v) \/ AwaitWindow(v)
           \/ WriteChunk(v) \/ FinishWriting(v) \/ BridgeEnds(v)
  BY <1>1 DEF ClientOpen, OpenReturns, OpenTimesOut, Acquire, AwaitWindow, WriteChunk,
              FinishWriting, BridgeEnds
<1>2. CASE ReadOpenOk(v) \/ ReadOpenErr(v) \/ ReadWindowUpdate(v) \/ ReadCloseFrame(v)
           \/ WakeWriter
  BY <1>2 DEF ReadOpenOk, ReadOpenErr, ReadWindowUpdate, ReadCloseFrame, WakeWriter
<1>3. CASE UNCHANGED ownvars
  BY <1>3 DEF ownvars
<1> QED
  BY <1>1, <1>2, <1>3, Zenon

\* The steps of the server leave the client's state alone.
LEMMA ServerSteps ==
    ASSUME NEW v \in Uploads,
           \/ ReadOpen(v) \/ DialSucceeds(v) \/ DialFails(v) \/ ReadData(v) \/ ReadClose(v)
           \/ UpstreamEnds(v) \/ Reclaim(v)
           \/ PumpTakes(v) \/ PumpEnds(v) \/ PumpWrites(v) \/ PumpFails(v) \/ PumpCredits(v)
    PROVE  UNCHANGED cvars
<1>1. CASE ReadOpen(v) \/ DialSucceeds(v) \/ DialFails(v) \/ ReadData(v) \/ ReadClose(v)
           \/ UpstreamEnds(v) \/ Reclaim(v)
  BY <1>1 DEF ReadOpen, DialSucceeds, DialFails, ReadData, ReadClose, UpstreamEnds, Reclaim
<1>2. CASE PumpTakes(v) \/ PumpEnds(v) \/ PumpWrites(v) \/ PumpFails(v) \/ PumpCredits(v)
  BY <1>2 DEF PumpTakes, PumpEnds, PumpWrites, PumpFails, PumpCredits
<1> QED
  BY <1>1, <1>2, Zenon

\* Types of the server's state.
LEMMA ServerTypesStep ==
    ASSUME Types, [Next]_vars
    PROVE  ServerTypes'
<1> USE DEF ServerTypes, PGoto
<1>0. ServerTypes /\ <<>> \in Seq(Nat)
  BY DEF Types
<1>1. ASSUME NEW v \in Uploads, StepOf(v)
      PROVE  ServerTypes'
  <2>1. CASE UNCHANGED <<svars, got>>
    BY <2>1, <1>0 DEF svars
  <2>2. CASE ReadOpen(v)
    BY <2>2, <1>0 DEF ReadOpen
  <2>3. CASE DialSucceeds(v)
    BY <2>3, <1>0 DEF DialSucceeds
  <2>4. CASE DialFails(v)
    BY <2>4, <1>0 DEF DialFails, Ending
  <2>5. CASE ReadData(v)
    <3>1. Head(c2s).val \in Nat
      BY <2>5, ChunkRead, WeightTypes DEF ReadData
    <3>2. Append(queue[v], Head(c2s).val) \in Seq(Nat)
      BY <3>1, <1>0, Joins
    <3> QED BY <2>5, <3>2, <1>0 DEF ReadData, QueueChunk, LeaveMap, Ending
  <2>6. CASE ReadClose(v)
    BY <2>6, <1>0 DEF ReadClose, LeaveMap, Ending
  <2>7. CASE UpstreamEnds(v) \/ Reclaim(v)
    BY <2>7, <1>0 DEF UpstreamEnds, Reclaim, LeaveMap, Ending
  <2>8. CASE PumpTakes(v)
    <3>1. queue[v] # <<>> /\ queue[v] \in Seq(Nat)
      BY <2>8, <1>0 DEF PumpTakes
    <3>2. Tail(queue[v]) \in Seq(Nat) /\ Head(queue[v]) \in Nat
      BY <3>1, Leaves
    <3>3. [chunk |-> Head(queue[v]), emptyNow |-> Len(queue[v]) = 1] \in [chunk : Nat, emptyNow : BOOLEAN]
      BY <3>2
    <3> QED BY <2>8, <3>2, <3>3, <1>0 DEF PumpTakes
  <2>9. CASE PumpEnds(v)
    BY <2>9, <1>0 DEF PumpEnds
  <2>10. CASE PumpWrites(v)
    <3>1. hand[v].chunk \in 1 .. Len(Plan[v]) /\ hand[v].chunk \in Nat
      BY <2>10, <1>0 DEF PumpWrites, Types, ChunksPlanned
    <3>2. credited[v] + Size(v, hand[v].chunk) \in Nat
      BY <3>1, <1>0, WeightTypes DEF Size
    <3>3. Append(got[v], hand[v].chunk) \in Seq(Nat)
      BY <3>1, <1>0, Joins
    <3> QED BY <2>10, <3>2, <3>3, <1>0 DEF PumpWrites
  <2>11. CASE PumpFails(v)
    BY <2>11, <1>0 DEF PumpFails, LeaveMap, Ending
  <2>12. CASE PumpCredits(v)
    <3>1. NoChunk \in [chunk : Nat, emptyNow : BOOLEAN]
      BY DEF NoChunk
    <3>2. credited' \in [Uploads -> Nat]
      <4>1. CASE CreditDue(v)
        <5>1. credited' = [credited EXCEPT ![v] = 0]
          BY <2>12, <4>1, Zenon DEF PumpCredits
        <5> QED BY <5>1, <1>0
      <4>2. CASE ~CreditDue(v)
        BY <2>12, <4>2, <1>0, Zenon DEF PumpCredits
      <4> QED BY <4>1, <4>2
    <3> QED BY <2>12, <3>1, <3>2, <1>0 DEF PumpCredits
  <2> QED BY <1>1, <2>1, <2>2, <2>3, <2>4, <2>5, <2>6, <2>7, <2>8, <2>9, <2>10, <2>11, <2>12,
             ClientSteps, Zenon DEF StepOf
<1>2. CASE WakeWriter
  BY <1>2, <1>0 DEF WakeWriter, svars
<1>3. CASE UNCHANGED ownvars
  BY <1>3, <1>0 DEF ownvars, svars
<1> QED
  BY <1>1, <1>2, <1>3, Steps

\* Chunk numbers stay numbers of the plan.
LEMMA PlannedStep ==
    ASSUME Types, [Next]_vars
    PROVE  ChunksPlanned'
<1> USE DEF ChunksPlanned, CGoto, PGoto
<1>0. ChunksPlanned /\ ClientTypes /\ ServerTypes
  BY DEF Types
<1>1. SUFFICES ASSUME NEW u \in Uploads
               PROVE  /\ sent'[u] <= Len(Plan[u])
                      /\ cpc'[u] = "write" => sent'[u] < Len(Plan[u])
                      /\ queue'[u] \in Seq(1 .. Len(Plan[u]))
                      /\ pump'[u] = "write" => hand'[u].chunk \in 1 .. Len(Plan[u])
  OBVIOUS
<1> DEFINE N == Len(Plan[u])
           CGoal == sent'[u] <= N /\ (cpc'[u] = "write" => sent'[u] < N)
           SGoal == /\ queue'[u] \in Seq(1 .. N)
                    /\ pump'[u] = "write" => hand'[u].chunk \in 1 .. N
<1>2. /\ N \in Nat /\ sent[u] \in Nat /\ sent[u] <= N /\ (cpc[u] = "write" => sent[u] < N)
      /\ queue[u] \in Seq(1 .. N) /\ <<>> \in Seq(1 .. N)
      /\ pump[u] = "write" => hand[u].chunk \in 1 .. N
  BY <1>0, WeightTypes DEF ClientTypes
<1> HIDE DEF N
<1>3. ASSUME NEW v \in Uploads, StepOf(v)
      PROVE  CGoal
  <2> USE DEF ClientTypes
  <2>1. CASE UNCHANGED cvars
    BY <2>1, <1>2 DEF cvars
  <2>2. CASE ClientOpen(v) \/ OpenReturns(v) \/ OpenTimesOut(v)
    BY <2>2, <1>0, <1>2 DEF ClientOpen, OpenReturns, OpenTimesOut
  <2>3. CASE Acquire(v)
    BY <2>3, <1>0, <1>2 DEF Acquire, N
  <2>4. CASE WriteChunk(v)
    BY <2>4, <1>0, <1>2 DEF WriteChunk, N
  <2>5. CASE AwaitWindow(v) \/ FinishWriting(v) \/ BridgeEnds(v)
    BY <2>5, <1>0, <1>2 DEF AwaitWindow, FinishWriting, BridgeEnds
  <2>6. CASE ReadOpenOk(v) \/ ReadOpenErr(v) \/ ReadCloseFrame(v)
    BY <2>6, <1>0, <1>2 DEF ReadOpenOk, ReadOpenErr, ReadCloseFrame
  <2>7. CASE ReadWindowUpdate(v)
    BY <2>7, <1>0, <1>2 DEF ReadWindowUpdate, Unpark
  <2> QED BY <1>3, <2>1, <2>2, <2>3, <2>4, <2>5, <2>6, <2>7, ServerSteps, Zenon DEF StepOf
<1>4. ASSUME NEW v \in Uploads, StepOf(v)
      PROVE  SGoal
  <2> USE DEF ServerTypes
  <2>1. CASE UNCHANGED <<svars, got, shed, failed>>
    BY <2>1, <1>2 DEF svars
  <2>2. CASE ReadOpen(v) \/ DialSucceeds(v) \/ DialFails(v)
    BY <2>2, <1>0, <1>2 DEF ReadOpen, DialSucceeds, DialFails
  <2>3. CASE ReadData(v)
    <3>1. Head(c2s).val \in 1 .. Len(Plan[v])
      BY <2>3, ChunkRead DEF ReadData
    <3>2. u = v => Append(queue[v], Head(c2s).val) \in Seq(1 .. N)
      BY <1>2, <3>1, Joins DEF N
    <3>3. queue'[u] \in {queue[u], <<>>} \/ (u = v /\ queue'[u] = Append(queue[v], Head(c2s).val))
      BY <2>3, <1>0 DEF ReadData, QueueChunk, LeaveMap
    <3> QED BY <2>3, <1>2, <3>2, <3>3 DEF ReadData
  <2>4. CASE ReadClose(v) \/ UpstreamEnds(v) \/ Reclaim(v)
    BY <2>4, <1>0, <1>2 DEF ReadClose, UpstreamEnds, Reclaim, LeaveMap
  <2>5. CASE PumpTakes(v)
    <3>1. Head(queue[v]) \in 1 .. Len(Plan[v]) /\ Tail(queue[v]) \in Seq(1 .. Len(Plan[v]))
      BY <2>5, ChunkRead DEF PumpTakes
    <3>2. CASE u = v
      BY <2>5, <1>0, <3>1, <3>2 DEF PumpTakes, N
    <3>3. CASE u # v
      BY <2>5, <1>0, <1>2, <3>3 DEF PumpTakes
    <3> QED BY <3>2, <3>3
  <2>6. CASE PumpEnds(v) \/ PumpWrites(v)
    BY <2>6, <1>0, <1>2 DEF PumpEnds, PumpWrites
  <2>7. CASE PumpFails(v)
    BY <2>7, <1>0, <1>2 DEF PumpFails, LeaveMap
  <2>8. CASE PumpCredits(v)
    BY <2>8, <1>0, <1>2 DEF PumpCredits
  <2> QED BY <1>4, <2>1, <2>2, <2>3, <2>4, <2>5, <2>6, <2>7, <2>8, ClientSteps, Zenon DEF StepOf
<1>5. CASE WakeWriter
  BY <1>5, <1>0, <1>2 DEF WakeWriter, Unpark, svars, ClientTypes, N
<1>6. CASE UNCHANGED ownvars
  BY <1>6, <1>2 DEF ownvars, cvars, svars, N
<1> QED
  BY <1>3, <1>4, <1>5, <1>6, Steps DEF N

\* The initial state has its type.
LEMMA InitTypes ==
    ASSUME Init
    PROVE  Types
<1>1. /\ <<>> \in Seq(CFrame) /\ <<>> \in Seq(SFrame) /\ <<>> \in Seq(Nat)
      /\ \A u \in Uploads : <<>> \in Seq(1 .. Len(Plan[u])) /\ Len(Plan[u]) \in Nat
  BY WeightTypes
<1>2. ClientTypes
  BY DEF Init, ClientTypes
<1>3. ServerTypes
  <2>1. NoChunk \in [chunk : Nat, emptyNow : BOOLEAN]
    BY DEF NoChunk
  <2> QED BY <1>1, <2>1 DEF Init, ServerTypes
<1>4. WireTypes /\ ChunksPlanned
  BY <1>1 DEF Init, WireTypes, ChunksPlanned
<1> QED
  BY <1>2, <1>3, <1>4 DEF Types, Init

-----------------------------------------------------------------------------
(* Opening a stream *)

\* What a step of v does to the client's wire: at most one frame leaves it, or
\* one of v joins it.
LEMMA C2sStep ==
    ASSUME Types, NEW v \in Uploads, StepOf(v)
    PROVE  \/ c2s' = c2s
           \/ /\ ReadOpen(v) \/ ReadData(v) \/ ReadClose(v)
              /\ c2s # <<>> /\ c2s' = Tail(c2s) /\ c2s[1].id = v
           \/ /\ ClientOpen(v) \/ WriteChunk(v) \/ FinishWriting(v) \/ BridgeEnds(v)
              /\ \E f \in CFrame : /\ c2s' = Append(c2s, f) /\ f.id = v
                                   /\ f.type = "OPEN" => ClientOpen(v)
                                   /\ f.type = "DATA" => WriteChunk(v) /\ f.val = sent[v] + 1
<1> DEFINE Fr(t, k) == [type |-> t, id |-> v, val |-> k]
           Joined == \E f \in CFrame : /\ c2s' = Append(c2s, f) /\ f.id = v
                                       /\ f.type = "OPEN" => ClientOpen(v)
                                       /\ f.type = "DATA" => WriteChunk(v) /\ f.val = sent[v] + 1
<1>1. CASE ClientOpen(v)
  <2>1. Fr("OPEN", 0) \in CFrame
    BY DEF CFrame
  <2>2. c2s' = Append(c2s, Fr("OPEN", 0))
    BY <1>1 DEF ClientOpen, ToServer
  <2> QED BY <1>1, <2>1, <2>2
<1>2. CASE WriteChunk(v)
  <2>1. sent[v] + 1 \in Nat /\ sent[v] + 1 \in 1 .. Len(Plan[v])
    BY <1>2, WeightTypes DEF WriteChunk, Types, ClientTypes, ChunksPlanned
  <2>2. Fr("DATA", sent[v] + 1) \in CFrame
    BY <2>1 DEF CFrame
  <2>3. c2s' = Append(c2s, Fr("DATA", sent[v] + 1))
    BY <1>2 DEF WriteChunk, ToServer
  <2> QED BY <1>2, <2>2, <2>3
<1>3. CASE BridgeEnds(v) \/ FinishWriting(v)
  <2>1. Fr("CLOSE", 0) \in CFrame
    BY DEF CFrame
  <2>2. c2s' = Append(c2s, Fr("CLOSE", 0)) \/ c2s' = c2s
    BY <1>3 DEF BridgeEnds, FinishWriting, ToServer
  <2> QED BY <1>3, <2>1, <2>2
<1>4. CASE ReadOpen(v) \/ ReadData(v) \/ ReadClose(v)
  <2>1. c2s # <<>> /\ c2s' = Tail(c2s) /\ Head(c2s).id = v
    BY <1>4 DEF ReadOpen, ReadData, ReadClose, Receives
  <2>2. c2s[1] = Head(c2s)
    BY <2>1, Leaves DEF Types, WireTypes
  <2> QED BY <1>4, <2>1, <2>2, Zenon
<1>5. CASE OpenReturns(v) \/ OpenTimesOut(v) \/ Acquire(v) \/ AwaitWindow(v)
           \/ ReadOpenOk(v) \/ ReadOpenErr(v) \/ ReadWindowUpdate(v) \/ ReadCloseFrame(v)
  <2>1. c2s' = c2s
    BY <1>5 DEF OpenReturns, OpenTimesOut, Acquire, AwaitWindow, ReadOpenOk, ReadOpenErr,
              ReadWindowUpdate, ReadCloseFrame
  <2> QED BY <2>1
<1>6. CASE DialSucceeds(v) \/ DialFails(v) \/ UpstreamEnds(v) \/ PumpTakes(v) \/ PumpEnds(v)
           \/ PumpWrites(v) \/ PumpFails(v) \/ PumpCredits(v) \/ Reclaim(v)
  <2>1. c2s' = c2s
    BY <1>6 DEF DialSucceeds, DialFails, UpstreamEnds, Reclaim, PumpTakes, PumpEnds, PumpWrites,
              PumpFails, PumpCredits
  <2> QED BY <2>1
<1> QED
  BY <1>1, <1>2, <1>3, <1>4, <1>5, <1>6, Zenon DEF StepOf

\* ... and to the server's wire.
LEMMA S2cStep ==
    ASSUME Types, NEW v \in Uploads, StepOf(v)
    PROVE  \/ s2c' = s2c
           \/ /\ ReadOpenOk(v) \/ ReadOpenErr(v) \/ ReadWindowUpdate(v) \/ ReadCloseFrame(v)
              /\ s2c # <<>> /\ s2c' = Tail(s2c) /\ s2c[1].id = v
           \/ \E f \in SFrame :
                 /\ s2c' = Append(s2c, f) /\ f.id = v
                 /\ f.type = "OPEN_OK" => DialSucceeds(v) /\ f.val = Window
                 /\ f.type = "WINDOW_UPDATE" => PumpCredits(v) /\ f.val = credited[v]
                 /\ f.type \in {"OPEN_ERR", "CLOSE"} /\ PumpStarted => stream'[v] \in Ending
<1> DEFINE Fr(t, k) == [type |-> t, id |-> v, val |-> k]
<1>0. ServerTypes /\ Window \in Nat
  BY FlowAssumption DEF Types
<1>1. CASE DialSucceeds(v)
  <2>1. Fr("OPEN_OK", Window) \in SFrame
    BY <1>0 DEF SFrame
  <2>2. s2c' = Append(s2c, Fr("OPEN_OK", Window))
    BY <1>1 DEF DialSucceeds, ToClient
  <2> QED BY <1>1, <2>1, <2>2
<1>2. CASE PumpCredits(v)
  <2>0. credited[v] \in Nat
    BY <1>0 DEF ServerTypes
  <2>1. Fr("WINDOW_UPDATE", credited[v]) \in SFrame
    BY <2>0 DEF SFrame
  <2>2. s2c' = Append(s2c, Fr("WINDOW_UPDATE", credited[v])) \/ s2c' = s2c
    <3>1. CASE CreditDue(v)
      BY <1>2, <3>1, Zenon DEF PumpCredits, ToClient
    <3>2. CASE ~CreditDue(v)
      BY <1>2, <3>2, Zenon DEF PumpCredits
    <3> QED BY <3>1, <3>2
  <2> QED BY <1>2, <2>1, <2>2
<1>3. CASE DialFails(v) \/ UpstreamEnds(v) \/ PumpFails(v) \/ ReadData(v)
  <2>1. Fr("OPEN_ERR", 0) \in SFrame /\ Fr("CLOSE", 0) \in SFrame
    BY DEF SFrame
  <2>2. \/ s2c' = s2c
        \/ s2c' \in {Append(s2c, Fr("OPEN_ERR", 0)), Append(s2c, Fr("CLOSE", 0))}
           /\ (PumpStarted => stream'[v] \in Ending)
    <3> USE DEF ServerTypes, Ending
    <3>1. CASE DialFails(v)
      BY <1>0, <3>1 DEF DialFails, ToClient
    <3>2. CASE UpstreamEnds(v)
      BY <1>0, <3>2 DEF UpstreamEnds, ToClient, LeaveMap
    <3>3. CASE PumpFails(v)
      <4>1. PumpStarted => stream[v] \in {"open"} \cup Ending
        BY <3>3 DEF PumpFails, PumpStarted
      <4> QED BY <1>0, <3>3, <4>1 DEF PumpFails, ToClient, LeaveMap
    <3>4. CASE ReadData(v)
      BY <1>0, <3>4 DEF ReadData, ToClient, LeaveMap
    <3> QED BY <1>3, <3>1, <3>2, <3>3, <3>4
  <2> QED BY <2>1, <2>2
<1>4. CASE ReadOpenOk(v) \/ ReadOpenErr(v) \/ ReadWindowUpdate(v) \/ ReadCloseFrame(v)
  <2>1. s2c # <<>> /\ s2c' = Tail(s2c) /\ Head(s2c).id = v
    BY <1>4 DEF ReadOpenOk, ReadOpenErr, ReadWindowUpdate, ReadCloseFrame, ReadsFrame
  <2>2. s2c[1] = Head(s2c)
    BY <2>1, Leaves DEF Types, WireTypes
  <2> QED BY <1>4, <2>1, <2>2, Zenon
<1>5. CASE ClientOpen(v) \/ OpenReturns(v) \/ OpenTimesOut(v) \/ Acquire(v) \/ AwaitWindow(v)
           \/ WriteChunk(v) \/ FinishWriting(v) \/ BridgeEnds(v)
  <2>1. s2c' = s2c
    BY <1>5 DEF ClientOpen, OpenReturns, OpenTimesOut, Acquire, AwaitWindow, WriteChunk,
                FinishWriting, BridgeEnds
  <2> QED BY <2>1
<1>6. CASE ReadOpen(v) \/ ReadClose(v) \/ Reclaim(v) \/ PumpTakes(v) \/ PumpEnds(v) \/ PumpWrites(v)
  <2>1. s2c' = s2c
    BY <1>6 DEF ReadOpen, ReadClose, Reclaim, PumpTakes, PumpEnds, PumpWrites
  <2> QED BY <2>1
<1> QED
  BY <1>1, <1>2, <1>3, <1>4, <1>5, <1>6, Zenon DEF StepOf

\* What a step of v does to streams: OPEN makes one, a dial opens it or fails,
\* one that is open leaves the map, and one that has is reclaimed.
LEMMA StreamStep ==
    ASSUME Types, PumpStarted, NEW v \in Uploads, StepOf(v)
    PROVE  \/ stream' = stream
           \/ ReadOpen(v) /\ stream' = [stream EXCEPT ![v] = "dialing"]
           \/ DialSucceeds(v) /\ stream[v] = "dialing" /\ stream' = [stream EXCEPT ![v] = "open"]
           \/ /\ DialFails(v) \/ Reclaim(v)
              /\ stream[v] \in {"dialing", "dropping", "closing"}
              /\ stream' = [stream EXCEPT ![v] = "closed"]
           \/ /\ ReadData(v) \/ ReadClose(v) \/ UpstreamEnds(v) \/ PumpFails(v)
              /\ stream[v] = "open"
              /\ \E how \in {"dropping", "closing"} : stream' = [stream EXCEPT ![v] = how]
<1>0. ServerTypes
  BY DEF Types
<1>1. CASE UNCHANGED <<svars, got, shed, failed>>
  BY <1>1 DEF svars
<1>2. CASE ReadOpen(v)
  BY <1>2 DEF ReadOpen
<1>3. CASE DialSucceeds(v)
  BY <1>3 DEF DialSucceeds
<1>4. CASE DialFails(v) \/ Reclaim(v)
  BY <1>4 DEF DialFails, Reclaim
<1>5. CASE ReadData(v) \/ ReadClose(v) \/ UpstreamEnds(v) \/ PumpFails(v)
  <2>1. \/ stream' = stream
        \/ stream[v] = "open" /\ (LeaveMap(v, "dropping") \/ LeaveMap(v, "closing"))
    BY <1>5, Zenon DEF ReadData, ReadClose, UpstreamEnds, PumpFails
  <2> QED BY <1>5, <2>1, Zenon DEF LeaveMap
<1>7. CASE PumpTakes(v) \/ PumpEnds(v) \/ PumpWrites(v) \/ PumpCredits(v)
  BY <1>7 DEF PumpTakes, PumpEnds, PumpWrites, PumpCredits
<1> QED
  BY <1>1, <1>2, <1>3, <1>4, <1>5, <1>7, ClientSteps, Zenon DEF StepOf

\* What a step of v does to the writers: none becomes idle, and none starts or
\* stops holding bytes of its window but v.
LEMMA WriterStep ==
    ASSUME Types, NEW v \in Uploads, StepOf(v), NEW u \in Uploads
    PROVE  /\ cpc'[u] = "idle" => cpc[u] = "idle" /\ (u = v => ~ClientOpen(v))
           /\ u # v => (cpc'[u] = "write" <=> cpc[u] = "write")
           /\ u # v => cpc'[u] = cpc[u]
<1> USE DEF ClientTypes, CGoto
<1>0. ClientTypes
  BY DEF Types
<1>1. CASE UNCHANGED cvars
  <2>1. cpc' = cpc
    BY <1>1 DEF cvars
  <2>2. ~(ClientOpen(v) /\ cpc'[v] = "idle")
    BY <2>1, <1>0 DEF ClientOpen
  <2> QED BY <2>1, <2>2
<1>2. CASE ClientOpen(v)
  BY <1>2, <1>0 DEF ClientOpen
<1>3. CASE OpenReturns(v) \/ OpenTimesOut(v)
  BY <1>3, <1>0 DEF OpenReturns, OpenTimesOut, ClientOpen
<1>4. CASE Acquire(v) \/ WriteChunk(v) \/ BridgeEnds(v)
  BY <1>4, <1>0 DEF Acquire, WriteChunk, BridgeEnds, ClientOpen
<1>5. CASE AwaitWindow(v) \/ FinishWriting(v)
  BY <1>5, <1>0 DEF AwaitWindow, FinishWriting, ClientOpen
<1>6. CASE ReadOpenOk(v) \/ ReadOpenErr(v) \/ ReadCloseFrame(v)
  <2>1. cpc' = cpc
    BY <1>6 DEF ReadOpenOk, ReadOpenErr, ReadCloseFrame
  <2>2. ~(ClientOpen(v) /\ cpc'[v] = "idle")
    BY <2>1, <1>0 DEF ClientOpen
  <2> QED BY <2>1, <2>2
<1>7. CASE ReadWindowUpdate(v)
  BY <1>7, <1>0 DEF ReadWindowUpdate, Unpark, ClientOpen
<1> QED
  BY <1>1, <1>2, <1>3, <1>4, <1>5, <1>6, <1>7, ServerSteps, Zenon DEF StepOf

\* The frame a handler reads is the first on its wire.
LEMMA FirstFrame ==
    ASSUME Types, NEW v \in Uploads
    PROVE  /\ \A t : Receives(t, v) => /\ c2s # <<>> /\ c2s[1] = Head(c2s) /\ At(c2s, 1, t, v)
                                       /\ 1 \in 1 .. Len(c2s)
           /\ \A t : ReadsFrame(t, v) => /\ s2c # <<>> /\ s2c[1] = Head(s2c) /\ At(s2c, 1, t, v)
                                         /\ 1 \in 1 .. Len(s2c)
<1>1. ASSUME NEW t, Receives(t, v)
      PROVE  c2s # <<>> /\ c2s[1] = Head(c2s) /\ At(c2s, 1, t, v) /\ 1 \in 1 .. Len(c2s)
  <2>1. c2s # <<>> /\ c2s \in Seq(CFrame)
    BY <1>1 DEF Receives, Types, WireTypes
  <2>2. c2s[1] = Head(c2s) /\ Len(c2s) \in Nat \ {0}
    BY <2>1, Leaves
  <2> QED BY <1>1, <2>1, <2>2 DEF Receives, At
<1>2. ASSUME NEW t, ReadsFrame(t, v)
      PROVE  s2c # <<>> /\ s2c[1] = Head(s2c) /\ At(s2c, 1, t, v) /\ 1 \in 1 .. Len(s2c)
  <2>1. s2c # <<>> /\ s2c \in Seq(SFrame)
    BY <1>2 DEF ReadsFrame, Types, WireTypes
  <2>2. s2c[1] = Head(s2c) /\ Len(s2c) \in Nat \ {0}
    BY <2>1, Leaves
  <2> QED BY <1>2, <2>1, <2>2 DEF ReadsFrame, At
<1> QED
  BY <1>1, <1>2

\* Pumps start when the dial succeeds.
LEMMA StartedStep ==
    ASSUME Types, OpenOnce, PumpStarted, [Next]_vars
    PROVE  PumpStarted'
<1>0. ServerTypes
  BY DEF Types
<1>1. SUFFICES ASSUME NEW u \in Uploads, pump'[u] # "idle"
               PROVE  stream'[u] \in {"open"} \cup Ending
  BY DEF PumpStarted
<1>2. ASSUME NEW v \in Uploads, StepOf(v)
      PROVE  stream'[u] \in {"open"} \cup Ending
  <2>1. CASE DialSucceeds(v) /\ u = v
    BY <2>1, <1>0 DEF DialSucceeds, ServerTypes
  <2>2. CASE ~(DialSucceeds(v) /\ u = v)
    <3>1. pump[u] # "idle"
      <4> USE DEF PGoto, ServerTypes
      <4>1. CASE UNCHANGED <<svars, got, shed, failed>>
        BY <4>1, <1>1 DEF svars
      <4>2. CASE ReadOpen(v) \/ DialFails(v) \/ ReadData(v) \/ ReadClose(v) \/ UpstreamEnds(v) \/ Reclaim(v)
        BY <4>2, <1>1 DEF ReadOpen, DialFails, ReadData, ReadClose, UpstreamEnds, Reclaim
      <4>3. CASE DialSucceeds(v)
        BY <4>3, <2>2, <1>0, <1>1 DEF DialSucceeds
      <4>4. CASE PumpTakes(v) \/ PumpEnds(v) \/ PumpWrites(v)
        BY <4>4, <1>0, <1>1 DEF PumpTakes, PumpEnds, PumpWrites
      <4>5. CASE PumpFails(v)
        BY <4>5, <1>0, <1>1 DEF PumpFails
      <4>6. CASE PumpCredits(v)
        <5>1. pump[v] = "credit" /\ pump' = [pump EXCEPT ![v] = "take"]
          BY <4>6, Zenon DEF PumpCredits
        <5> QED BY <5>1, <1>0, <1>1
      <4> QED BY <1>2, <4>1, <4>2, <4>3, <4>4, <4>5, <4>6, ClientSteps, Zenon DEF StepOf
    <3>2. stream[u] \in {"open"} \cup Ending
      BY <3>1 DEF PumpStarted
    <3>3. ~(ReadOpen(v) /\ u = v)
      <4>1. SUFFICES ASSUME ReadOpen(v), u = v PROVE FALSE
        OBVIOUS
      <4>2. At(c2s, 1, "OPEN", v) /\ 1 \in 1 .. Len(c2s)
        BY <4>1, FirstFrame DEF ReadOpen
      <4>3. stream[v] = "none"
        BY <4>2 DEF OpenOnce
      <4> QED BY <4>1, <4>3, <3>2 DEF Ending
    <3> QED BY <1>2, <3>2, <3>3, <2>2, <1>0, StreamStep DEF ServerTypes, Ending
  <2> QED BY <2>1, <2>2
<1>3. CASE WakeWriter
  BY <1>1, <1>3 DEF WakeWriter, svars, PumpStarted
<1>4. CASE UNCHANGED ownvars
  BY <1>1, <1>4 DEF ownvars, svars, PumpStarted
<1> QED
  BY <1>2, <1>3, <1>4, Steps

\* An OPEN is on the wire once, and before anything else happens to its stream.
LEMMA OpenOnceStep ==
    ASSUME Types, OpenOnce, PumpStarted, [Next]_vars
    PROVE  OpenOnce'
<1>0. ServerTypes /\ ClientTypes /\ c2s \in Seq(CFrame) /\ Len(c2s) \in Nat
  BY DEF Types, WireTypes
<1>1. ASSUME NEW v \in Uploads, StepOf(v), NEW u \in Uploads
      PROVE  /\ cpc'[u] = "idle" => stream'[u] = "none"
             /\ \A i \in 1 .. Len(c2s') :
                    At(c2s', i, "OPEN", u) =>
                        /\ stream'[u] = "none" /\ cpc'[u] # "idle"
                        /\ \A j \in 1 .. Len(c2s') : At(c2s', j, "OPEN", u) => i = j
  <2> DEFINE Op(i) == At(c2s, i, "OPEN", u)
             Op2(i) == At(c2s', i, "OPEN", u)
             D == 1 .. Len(c2s)
             D2 == 1 .. Len(c2s')
  <2>1. ASSUME NEW i \in D, Op(i)
        PROVE  /\ stream[u] = "none" /\ cpc[u] # "idle" /\ cpc'[u] # "idle"
               /\ \A j \in D : Op(j) => i = j
    BY <2>1, <1>1, WriterStep DEF OpenOnce
  <2>2. cpc[u] = "idle" => stream[u] = "none"
    BY DEF OpenOnce
  <2>3. stream[u] = "none" /\ stream'[u] # "none" => u = v /\ ReadOpen(v)
    BY <1>1, <1>0, StreamStep DEF ServerTypes
  <2>4. ReadOpen(v) => At(c2s, 1, "OPEN", v) /\ 1 \in D /\ c2s' = Tail(c2s) /\ c2s # <<>>
    BY FirstFrame DEF ReadOpen, Receives
  <2>5. cpc'[u] = "idle" => stream'[u] = "none"
    BY <1>1, <2>1, <2>2, <2>3, <2>4, WriterStep
  <2>6. CASE c2s' = c2s
    <3>1. ~ReadOpen(v)
      <4>1. ReadOpen(v) => Len(c2s') = Len(c2s) - 1
        BY <2>4, <1>0, Leaves
      <4> QED BY <4>1, <2>6, <1>0
    <3> QED BY <2>1, <2>3, <2>5, <2>6, <3>1
  <2>7. CASE c2s # <<>> /\ c2s' = Tail(c2s)
    <3>1. /\ Len(c2s) \in Nat /\ Len(c2s') = Len(c2s) - 1
          /\ \A i \in D2 : c2s'[i] = c2s[i + 1] /\ i + 1 \in D
      BY <2>7, <1>0, Leaves
    <3>2. \A i \in D2 : Op2(i) => Op(i + 1) /\ i + 1 \in D
      BY <3>1 DEF At
    <3>3. ReadOpen(v) /\ u = v => \A i \in D2 : ~Op2(i)
      <4>1. SUFFICES ASSUME ReadOpen(v), u = v, NEW i \in D2, Op2(i) PROVE FALSE
        OBVIOUS
      <4>2. Op(1) /\ 1 \in D /\ Op(i + 1) /\ i + 1 \in D
        BY <4>1, <3>2, <2>4
      <4>3. 1 = i + 1
        <5> HIDE DEF Op, D
        <5> QED BY <4>2, <2>1
      <4> QED BY <4>3, <3>1
    <3> HIDE DEF Op, D
    <3>4. ASSUME NEW i \in D2, Op2(i)
          PROVE  /\ stream'[u] = "none" /\ cpc'[u] # "idle"
                 /\ \A j \in D2 : Op2(j) => i = j
      <4>1. stream[u] = "none" /\ cpc'[u] # "idle" /\ \A j \in D : Op(j) => i + 1 = j
        BY <3>4, <3>2, <2>1
      <4>2. \A j \in D2 : Op2(j) => i + 1 = j + 1
        BY <3>2, <4>1
      <4>3. stream'[u] = "none"
        BY <3>3, <3>4, <4>1, <2>3
      <4>4. \A j \in D2 : Op2(j) => i = j
        BY <4>2, <3>1
      <4> QED BY <4>1, <4>3, <4>4
    <3> QED BY <3>4, <2>5
  <2>8. CASE \E f \in CFrame : c2s' = Append(c2s, f) /\ f.id = v /\ (f.type = "OPEN" => ClientOpen(v))
    <3>1. PICK f \in CFrame : c2s' = Append(c2s, f) /\ f.id = v /\ (f.type = "OPEN" => ClientOpen(v))
      BY <2>8
    <3>2. /\ Len(c2s') = Len(c2s) + 1 /\ c2s'[Len(c2s) + 1] = f
          /\ \A i \in D : c2s'[i] = c2s[i]
      BY <3>1, <1>0, Joins
    <3>3. ~ReadOpen(v)
      <4>1. ReadOpen(v) => Len(c2s') = Len(c2s) - 1
        BY <2>4, <1>0, Leaves
      <4> QED BY <4>1, <3>2, <1>0
    <3>4. \A i \in D2 : i \in D \/ i = Len(c2s) + 1
      BY <3>2, <1>0
    <3>5. \A i \in D : Op2(i) <=> Op(i)
      BY <3>2 DEF At
    <3>6. CASE u = v /\ ClientOpen(v)
      <4>1. cpc[u] = "idle" /\ cpc'[u] # "idle"
        BY <3>6, <1>1, WriterStep DEF ClientOpen
      <4>2. \A i \in D : ~Op(i)
        BY <4>1, <2>1
      <4>3. \A i \in D2 : Op2(i) => i = Len(c2s) + 1
        BY <3>4, <3>5, <4>2
      <4>4. stream'[u] = "none"
        BY <4>1, <2>2, <2>3, <3>3
      <4> QED BY <4>1, <4>3, <4>4, <2>5
    <3>7. CASE ~(u = v /\ ClientOpen(v))
      <4>1. ~Op2(Len(c2s) + 1)
        BY <3>1, <3>2, <3>7 DEF At
      <4>2. \A i \in D2 : Op2(i) => i \in D /\ Op(i)
        BY <4>1, <3>4, <3>5
      <4> QED BY <4>2, <2>1, <2>3, <2>5, <3>3
    <3> QED BY <3>6, <3>7
  <2> QED BY <1>1, <2>6, <2>7, <2>8, C2sStep
<1>2. CASE WakeWriter
  <2>1. c2s' = c2s /\ stream' = stream /\ \A u \in Uploads : cpc'[u] = "idle" <=> cpc[u] = "idle"
    BY <1>0, <1>2 DEF WakeWriter, Unpark, svars, ClientTypes
  <2> QED BY <2>1 DEF OpenOnce, At
<1>3. CASE UNCHANGED ownvars
  BY <1>3 DEF ownvars, cvars, svars, OpenOnce, At
<1> QED
  BY <1>1, <1>2, <1>3, Steps DEF OpenOnce

-----------------------------------------------------------------------------
(* Answers and the end of a stream *)

\* What a step of v does to answers and to the stream being marked closed.
LEMMA AnswerStep ==
    ASSUME Types, NEW v \in Uploads, StepOf(v), NEW u \in Uploads
    PROVE  /\ \/ answer'[u] = answer[u]
              \/ u = v /\ ReadOpenOk(v) /\ v \in known /\ answer'[u] = answer[u] \cup {"ok"}
              \/ u = v /\ ReadOpenErr(v) /\ answer'[u] = answer[u] \cup {"err"}
           /\ u \in waking' => u \in waking \/ (u = v /\ ReadCloseFrame(v))
<1> USE DEF ClientTypes
<1>0. ClientTypes
  BY DEF Types
<1>1. CASE UNCHANGED cvars
  BY <1>1 DEF cvars
<1>2. CASE ReadOpenOk(v)
  BY <1>0, <1>2 DEF ReadOpenOk
<1>3. CASE ReadOpenErr(v)
  BY <1>0, <1>3 DEF ReadOpenErr
<1>4. CASE ReadCloseFrame(v)
  BY <1>0, <1>4 DEF ReadCloseFrame
<1>5. CASE ReadWindowUpdate(v)
  BY <1>0, <1>5 DEF ReadWindowUpdate
<1>6. CASE ClientOpen(v) \/ OpenReturns(v) \/ OpenTimesOut(v) \/ Acquire(v) \/ AwaitWindow(v)
           \/ WriteChunk(v) \/ FinishWriting(v) \/ BridgeEnds(v)
  <2>1. UNCHANGED <<answer, waking>>
    BY <1>6 DEF ClientOpen, OpenReturns, OpenTimesOut, Acquire, AwaitWindow, WriteChunk,
                FinishWriting, BridgeEnds
  <2> QED BY <2>1
<1> QED
  BY <1>1, <1>2, <1>3, <1>4, <1>5, <1>6, ServerSteps, Zenon DEF StepOf

\* Where the streams of a step come from.
LEMMA StreamFrom ==
    ASSUME Types, OpenOnce, PumpStarted, NEW v \in Uploads, StepOf(v), NEW u \in Uploads
    PROVE  /\ stream'[u] \in {"none", "dialing"} => stream[u] \in {"none", "dialing"}
           /\ stream'[u] = "open" => \/ stream[u] = "open"
                                     \/ u = v /\ DialSucceeds(v) /\ stream[u] = "dialing"
           /\ stream[u] = "closed" => stream'[u] = "closed"
           /\ stream[u] \in Ending => stream'[u] \in Ending
           /\ stream'[u] \in {"dropping", "closing"} => stream[u] \in {"open", "dropping", "closing"}
<1>0. ServerTypes
  BY DEF Types
<1>1. ReadOpen(v) => stream[v] = "none"
  <2>1. SUFFICES ASSUME ReadOpen(v) PROVE stream[v] = "none"
    OBVIOUS
  <2>2. At(c2s, 1, "OPEN", v) /\ 1 \in 1 .. Len(c2s)
    BY <2>1, FirstFrame DEF ReadOpen
  <2> QED BY <2>2 DEF OpenOnce
<1> QED
  BY <1>0, <1>1, StreamStep DEF ServerTypes, Ending

\* Frames of u on the server's wire after a step: they were there, or v sent one.
LEMMA S2cFrom ==
    ASSUME Types, PumpStarted, NEW v \in Uploads, StepOf(v), NEW i \in 1 .. Len(s2c')
    PROVE  \/ \E j \in 1 .. Len(s2c) : s2c'[i] = s2c[j]
           \/ /\ s2c'[i].id = v
              /\ s2c'[i].type = "OPEN_OK" => DialSucceeds(v) /\ s2c'[i].val = Window
              /\ s2c'[i].type = "WINDOW_UPDATE" => PumpCredits(v) /\ s2c'[i].val = credited[v]
              /\ s2c'[i].type \in {"OPEN_ERR", "CLOSE"} => stream'[v] \in Ending
              /\ s2c'[i].type \in {"OPEN_OK", "WINDOW_UPDATE", "OPEN_ERR", "CLOSE"}
<1>0. s2c \in Seq(SFrame) /\ Len(s2c) \in Nat
  BY DEF Types, WireTypes
<1>1. CASE s2c' = s2c
  BY <1>1
<1>2. CASE s2c # <<>> /\ s2c' = Tail(s2c)
  <2>1. s2c'[i] = s2c[i + 1] /\ Len(s2c') = Len(s2c) - 1
    BY <1>2, <1>0, Leaves
  <2>2. i + 1 \in 1 .. Len(s2c)
    BY <2>1, <1>0
  <2> QED BY <2>1, <2>2
<1>3. CASE \E f \in SFrame :
                 /\ s2c' = Append(s2c, f) /\ f.id = v
                 /\ f.type = "OPEN_OK" => DialSucceeds(v) /\ f.val = Window
                 /\ f.type = "WINDOW_UPDATE" => PumpCredits(v) /\ f.val = credited[v]
                 /\ f.type \in {"OPEN_ERR", "CLOSE"} => stream'[v] \in Ending
  <2>1. PICK f \in SFrame :
                 /\ s2c' = Append(s2c, f) /\ f.id = v
                 /\ f.type = "OPEN_OK" => DialSucceeds(v) /\ f.val = Window
                 /\ f.type = "WINDOW_UPDATE" => PumpCredits(v) /\ f.val = credited[v]
                 /\ f.type \in {"OPEN_ERR", "CLOSE"} => stream'[v] \in Ending
    BY <1>3
  <2>2. /\ Len(s2c') = Len(s2c) + 1 /\ s2c'[Len(s2c) + 1] = f
        /\ \A k \in 1 .. Len(s2c) : s2c'[k] = s2c[k]
    BY <2>1, <1>0, Joins
  <2>3. CASE i \in 1 .. Len(s2c)
    BY <2>2, <2>3
  <2>4. CASE i \notin 1 .. Len(s2c)
    <3>1. s2c'[i] = f
      BY <2>2, <2>4, <1>0
    <3>2. f.type \in {"OPEN_OK", "WINDOW_UPDATE", "OPEN_ERR", "CLOSE"}
      BY DEF SFrame
    <3> QED BY <2>1, <3>1, <3>2
  <2> QED BY <2>3, <2>4
<1> QED
  BY <1>1, <1>2, <1>3, S2cStep

\* A dial that is not over has told the client nothing.
LEMMA UnansweredStep ==
    ASSUME Types, OpenOnce, PumpStarted, Unanswered, [Next]_vars
    PROVE  Unanswered'
<1>1. ASSUME NEW v \in Uploads, StepOf(v), NEW u \in Uploads, stream'[u] \in {"none", "dialing"}
      PROVE  /\ answer'[u] = {} /\ u \notin waking'
             /\ \A i \in 1 .. Len(s2c') : s2c'[i].id # u
  <2>1. /\ stream[u] \in {"none", "dialing"} /\ answer[u] = {} /\ u \notin waking
        /\ \A i \in 1 .. Len(s2c) : s2c[i].id # u
    BY <1>1, StreamFrom DEF Unanswered
  <2>2. \A t : ~(u = v /\ ReadsFrame(t, v))
    BY <2>1, FirstFrame DEF At
  <2>3. ~(u = v /\ (ReadOpenOk(v) \/ ReadOpenErr(v) \/ ReadCloseFrame(v)))
    BY <2>2 DEF ReadOpenOk, ReadOpenErr, ReadCloseFrame
  <2>4. answer'[u] = {} /\ u \notin waking'
    BY <1>1, <2>1, <2>3, AnswerStep
  <2>5. ASSUME NEW i \in 1 .. Len(s2c'), s2c'[i].id = u
        PROVE  FALSE
    <3>1. u = v /\ ~\E j \in 1 .. Len(s2c) : s2c'[i] = s2c[j]
      BY <1>1, <2>1, <2>5, S2cFrom
    <3>2. ~DialSucceeds(v)
      BY <3>1, <1>1 DEF DialSucceeds, Types, ServerTypes
    <3>3. ~PumpCredits(v)
      <4>1. PumpCredits(v) => pump[v] = "credit"
        BY Zenon DEF PumpCredits
      <4> QED BY <3>1, <4>1, <2>1 DEF PumpStarted, Ending
    <3>4. stream'[v] \notin Ending
      BY <3>1, <1>1 DEF Ending
    <3> QED BY <1>1, <3>1, <3>2, <3>3, <3>4, S2cFrom
  <2> QED BY <2>4, <2>5
<1>2. CASE WakeWriter
  BY <1>2 DEF WakeWriter, svars, Unanswered
<1>3. CASE UNCHANGED ownvars
  BY <1>3 DEF ownvars, cvars, svars, Unanswered
<1> QED
  BY <1>1, <1>2, <1>3, Steps DEF Unanswered

\* Nothing on its way to the client ends a stream that is open.
LEMMA LastingStep ==
    ASSUME Types, OpenOnce, PumpStarted, Unanswered, Lasting, [Next]_vars
    PROVE  Lasting'
<1>1. ASSUME NEW v \in Uploads, StepOf(v), NEW u \in Uploads, stream'[u] = "open"
      PROVE  /\ "err" \notin answer'[u] /\ u \notin waking'
             /\ \A i \in 1 .. Len(s2c') :
                    s2c'[i].id = u => s2c'[i].type \in {"OPEN_OK", "WINDOW_UPDATE"}
  <2>1. /\ "err" \notin answer[u] /\ u \notin waking
        /\ \A i \in 1 .. Len(s2c) : s2c[i].id = u => s2c[i].type \in {"OPEN_OK", "WINDOW_UPDATE"}
    BY <1>1, StreamFrom DEF Unanswered, Lasting
  <2>2. \A t : u = v /\ ReadsFrame(t, v) => t \in {"OPEN_OK", "WINDOW_UPDATE"}
    BY <2>1, FirstFrame DEF At
  <2>3. ~(u = v /\ (ReadOpenErr(v) \/ ReadCloseFrame(v)))
    BY <2>2 DEF ReadOpenErr, ReadCloseFrame
  <2>4. "err" \notin answer'[u] /\ u \notin waking'
    BY <1>1, <2>1, <2>3, AnswerStep
  <2>5. ASSUME NEW i \in 1 .. Len(s2c'), s2c'[i].id = u
        PROVE  s2c'[i].type \in {"OPEN_OK", "WINDOW_UPDATE"}
    BY <1>1, <2>1, <2>5, S2cFrom DEF Ending
  <2> QED BY <2>4, <2>5
<1>2. CASE WakeWriter
  BY <1>2 DEF WakeWriter, svars, Lasting
<1>3. CASE UNCHANGED ownvars
  BY <1>3 DEF ownvars, cvars, svars, Lasting
<1> QED
  BY <1>1, <1>2, <1>3, Steps DEF Lasting

\* OPEN_OK is on the wire once, and not after it was read.
LEMMA OkOnceStep ==
    ASSUME Types, Unanswered, OkOnce, [Next]_vars
    PROVE  OkOnce'
<1>0. s2c \in Seq(SFrame) /\ Len(s2c) \in Nat
  BY DEF Types, WireTypes
<1>1. ASSUME NEW v \in Uploads, StepOf(v), NEW u \in Uploads
      PROVE  \A i \in 1 .. Len(s2c') :
                 At(s2c', i, "OPEN_OK", u) =>
                     /\ s2c'[i].val = Window /\ "ok" \notin answer'[u]
                     /\ \A j \in 1 .. Len(s2c') : At(s2c', j, "OPEN_OK", u) => i = j
  <2> DEFINE Ok(i) == At(s2c, i, "OPEN_OK", u)
             Ok2(i) == At(s2c', i, "OPEN_OK", u)
             D == 1 .. Len(s2c)
             D2 == 1 .. Len(s2c')
  <2>1. ASSUME NEW i \in D, Ok(i)
        PROVE  /\ s2c[i].val = Window /\ "ok" \notin answer[u]
               /\ \A j \in D : Ok(j) => i = j
    BY <2>1 DEF OkOnce
  <2>2. "ok" \notin answer[u] /\ ~(u = v /\ ReadOpenOk(v)) => "ok" \notin answer'[u]
    BY <1>1, AnswerStep
  <2>3. ReadOpenOk(v) => At(s2c, 1, "OPEN_OK", v) /\ 1 \in D /\ s2c' = Tail(s2c) /\ s2c # <<>>
    BY FirstFrame DEF ReadOpenOk, ReadsFrame
  <2>4. CASE s2c' = s2c
    <3>1. ~ReadOpenOk(v)
      <4>1. ReadOpenOk(v) => Len(s2c') = Len(s2c) - 1
        BY <2>3, <1>0, Leaves
      <4> QED BY <4>1, <2>4, <1>0
    <3> QED BY <2>1, <2>2, <2>4, <3>1
  <2>5. CASE s2c # <<>> /\ s2c' = Tail(s2c)
    <3>1. /\ Len(s2c') = Len(s2c) - 1
          /\ \A i \in D2 : s2c'[i] = s2c[i + 1] /\ i + 1 \in D
      BY <2>5, <1>0, Leaves
    <3>2. \A i \in D2 : Ok2(i) => Ok(i + 1) /\ i + 1 \in D /\ s2c'[i].val = s2c[i + 1].val
      BY <3>1 DEF At
    <3>3. ReadOpenOk(v) /\ u = v => \A i \in D2 : ~Ok2(i)
      <4>1. SUFFICES ASSUME ReadOpenOk(v), u = v, NEW i \in D2, Ok2(i) PROVE FALSE
        OBVIOUS
      <4>2. Ok(1) /\ 1 \in D /\ Ok(i + 1) /\ i + 1 \in D
        BY <4>1, <3>2, <2>3
      <4>3. 1 = i + 1
        <5> HIDE DEF Ok, D
        <5> QED BY <4>2, <2>1
      <4> QED BY <4>3, <3>1
    <3> HIDE DEF Ok, D
    <3>4. ASSUME NEW i \in D2, Ok2(i)
          PROVE  /\ s2c'[i].val = Window /\ "ok" \notin answer'[u]
                 /\ \A j \in D2 : Ok2(j) => i = j
      <4>1. s2c'[i].val = Window /\ "ok" \notin answer[u] /\ \A j \in D : Ok(j) => i + 1 = j
        BY <3>4, <3>2, <2>1
      <4>2. \A j \in D2 : Ok2(j) => i + 1 = j + 1
        BY <3>2, <4>1
      <4>3. \A j \in D2 : Ok2(j) => i = j
        BY <4>2, <3>1
      <4>4. "ok" \notin answer'[u]
        BY <3>3, <3>4, <4>1, <2>2
      <4> QED BY <4>1, <4>3, <4>4
    <3> QED BY <3>4
  <2>6. CASE \E f \in SFrame : /\ s2c' = Append(s2c, f) /\ f.id = v
                               /\ f.type = "OPEN_OK" => DialSucceeds(v) /\ f.val = Window
    <3>1. PICK f \in SFrame : /\ s2c' = Append(s2c, f) /\ f.id = v
                              /\ f.type = "OPEN_OK" => DialSucceeds(v) /\ f.val = Window
      BY <2>6
    <3>2. /\ Len(s2c') = Len(s2c) + 1 /\ s2c'[Len(s2c) + 1] = f
          /\ \A i \in D : s2c'[i] = s2c[i]
      BY <3>1, <1>0, Joins
    <3>3. ~ReadOpenOk(v)
      <4>1. ReadOpenOk(v) => Len(s2c') = Len(s2c) - 1
        BY <2>3, <1>0, Leaves
      <4> QED BY <4>1, <3>2, <1>0
    <3>4. \A i \in D2 : i \in D \/ i = Len(s2c) + 1
      BY <3>2, <1>0
    <3>5. \A i \in D : (Ok2(i) <=> Ok(i)) /\ s2c'[i].val = s2c[i].val
      BY <3>2 DEF At
    <3>6. CASE u = v /\ f.type = "OPEN_OK"
      <4>1. answer[u] = {} /\ \A i \in D : s2c[i].id # u
        BY <3>1, <3>6 DEF DialSucceeds, Unanswered
      <4>2. \A i \in D2 : Ok2(i) => i = Len(s2c) + 1
        BY <3>4, <3>5, <4>1 DEF At
      <4>3. s2c'[Len(s2c) + 1].val = Window
        BY <3>1, <3>2, <3>6
      <4>4. "ok" \notin answer'[u]
        BY <4>1, <3>3, <2>2
      <4> QED BY <4>2, <4>3, <4>4
    <3>7. CASE ~(u = v /\ f.type = "OPEN_OK")
      <4>1. ~Ok2(Len(s2c) + 1)
        BY <3>1, <3>2, <3>7 DEF At
      <4>2. \A i \in D2 : Ok2(i) => i \in D /\ Ok(i)
        BY <4>1, <3>4, <3>5
      <4> QED BY <4>2, <2>1, <2>2, <3>3, <3>5
    <3> QED BY <3>6, <3>7
  <2> QED BY <1>1, <2>4, <2>5, <2>6, S2cStep
<1>2. CASE WakeWriter
  BY <1>2 DEF WakeWriter, OkOnce, At
<1>3. CASE UNCHANGED ownvars
  BY <1>3 DEF ownvars, cvars, OkOnce, At
<1> QED
  BY <1>1, <1>2, <1>3, Steps DEF OkOnce

\* The client keeps a stream that is open and answered in its map.
LEMMA KeptStep ==
    ASSUME Types, OpenOnce, PumpStarted, Unanswered, Lasting, Kept, [Next]_vars
    PROVE  Kept'
<1>0. ClientTypes
  BY DEF Types
<1>1. ASSUME NEW v \in Uploads, StepOf(v), NEW u \in Uploads,
             stream'[u] = "open", "ok" \in answer'[u]
      PROVE  u \in known'
  <2>1. /\ "err" \notin answer[u] /\ u \notin waking
        /\ \A i \in 1 .. Len(s2c) : s2c[i].id = u => s2c[i].type \in {"OPEN_OK", "WINDOW_UPDATE"}
    BY <1>1, StreamFrom DEF Unanswered, Lasting
  <2>2. CASE "ok" \notin answer[u]
    <3>1. u = v /\ ReadOpenOk(v) /\ v \in known
      BY <1>1, <2>2, AnswerStep
    <3> QED BY <3>1 DEF ReadOpenOk
  <2>3. CASE "ok" \in answer[u]
    <3>1. stream[u] = "open"
      BY <1>1, <2>3, StreamFrom DEF Unanswered
    <3>2. u \in known
      BY <3>1, <2>3 DEF Kept
    <3>3. \A t : u = v /\ ReadsFrame(t, v) => t \in {"OPEN_OK", "WINDOW_UPDATE"}
      BY <2>1, FirstFrame DEF At
    <3>4. CASE UNCHANGED cvars
      BY <3>2, <3>4 DEF cvars
    <3>5. CASE OpenReturns(v) \/ OpenTimesOut(v)
      BY <3>2, <3>5, <2>1, <2>3 DEF OpenReturns, OpenTimesOut
    <3>6. CASE ReadCloseFrame(v)
      BY <3>2, <3>3, <3>6 DEF ReadCloseFrame
    <3>7. CASE ReadOpenOk(v) \/ ReadOpenErr(v) \/ ReadWindowUpdate(v)
      BY <3>2, <3>7 DEF ReadOpenOk, ReadOpenErr, ReadWindowUpdate
    <3>8. CASE ClientOpen(v) \/ Acquire(v) \/ AwaitWindow(v)
               \/ WriteChunk(v) \/ FinishWriting(v) \/ BridgeEnds(v)
      BY <3>2, <3>8 DEF ClientOpen, Acquire, AwaitWindow, WriteChunk, FinishWriting, BridgeEnds
    <3> QED BY <1>1, <3>4, <3>5, <3>6, <3>7, <3>8, ServerSteps, Zenon DEF StepOf
  <2> QED BY <2>2, <2>3
<1>2. CASE WakeWriter
  BY <1>2 DEF WakeWriter, svars, Kept, Lasting
<1>3. CASE UNCHANGED ownvars
  BY <1>3 DEF ownvars, cvars, svars, Kept
<1> QED
  BY <1>1, <1>2, <1>3, Steps DEF Kept

\* Frames on the client's wire after a step: they were there, or v sent one.
LEMMA C2sFrom ==
    ASSUME Types, NEW v \in Uploads, StepOf(v), NEW i \in 1 .. Len(c2s')
    PROVE  \/ \E j \in 1 .. Len(c2s) : c2s'[i] = c2s[j]
           \/ /\ c2s'[i].id = v
              /\ c2s'[i].type = "DATA" => WriteChunk(v)
<1>0. c2s \in Seq(CFrame) /\ Len(c2s) \in Nat
  BY DEF Types, WireTypes
<1>1. CASE c2s' = c2s
  BY <1>1
<1>2. CASE c2s # <<>> /\ c2s' = Tail(c2s)
  <2>1. c2s'[i] = c2s[i + 1] /\ Len(c2s') = Len(c2s) - 1
    BY <1>2, <1>0, Leaves
  <2>2. i + 1 \in 1 .. Len(c2s)
    BY <2>1, <1>0
  <2> QED BY <2>1, <2>2
<1>3. CASE \E f \in CFrame : /\ c2s' = Append(c2s, f) /\ f.id = v
                             /\ f.type = "DATA" => WriteChunk(v)
  <2>1. PICK f \in CFrame : /\ c2s' = Append(c2s, f) /\ f.id = v
                            /\ f.type = "DATA" => WriteChunk(v)
    BY <1>3
  <2>2. /\ Len(c2s') = Len(c2s) + 1 /\ c2s'[Len(c2s) + 1] = f
        /\ \A k \in 1 .. Len(c2s) : c2s'[k] = c2s[k]
    BY <2>1, <1>0, Joins
  <2>3. CASE i \in 1 .. Len(c2s)
    BY <2>2, <2>3
  <2>4. CASE i \notin 1 .. Len(c2s)
    <3>1. c2s'[i] = f
      BY <2>2, <2>4, <1>0
    <3> QED BY <2>1, <3>1
  <2> QED BY <2>3, <2>4
<1> QED
  BY <1>1, <1>2, <1>3, C2sStep

\* Nothing moves before OPEN_OK was read.
LEMMA SilentStep ==
    ASSUME Types, PumpStarted, Silent, [Next]_vars
    PROVE  Silent'
<1>0. ClientTypes /\ ServerTypes
  BY DEF Types
<1>1. ASSUME NEW v \in Uploads, StepOf(v), NEW u \in Uploads, "ok" \notin answer'[u]
      PROVE  /\ sendWindow'[u] = 0 /\ sent'[u] = 0 /\ credited'[u] = 0
             /\ got'[u] = <<>> /\ queue'[u] = <<>>
             /\ cpc'[u] \in {"idle", "opening", "failed"}
             /\ pump'[u] \in {"idle", "take", "exit"}
             /\ \A i \in 1 .. Len(c2s') : ~At(c2s', i, "DATA", u)
             /\ \A i \in 1 .. Len(s2c') : ~At(s2c', i, "WINDOW_UPDATE", u)
  <2>1. /\ "ok" \notin answer[u]
        /\ sendWindow[u] = 0 /\ sent[u] = 0 /\ credited[u] = 0
        /\ got[u] = <<>> /\ queue[u] = <<>>
        /\ cpc[u] \in {"idle", "opening", "failed"}
        /\ pump[u] \in {"idle", "take", "exit"}
        /\ \A i \in 1 .. Len(c2s) : ~At(c2s, i, "DATA", u)
        /\ \A i \in 1 .. Len(s2c) : ~At(s2c, i, "WINDOW_UPDATE", u)
    BY <1>1, AnswerStep DEF Silent
  <2>2. /\ sendWindow'[u] = 0 /\ sent'[u] = 0
        /\ cpc'[u] \in {"idle", "opening", "failed"}
    <3> USE DEF ClientTypes, CGoto
    <3>1. CASE UNCHANGED cvars
      BY <2>1, <3>1 DEF cvars
    <3>2. CASE ClientOpen(v) \/ OpenReturns(v) \/ OpenTimesOut(v)
      BY <1>0, <2>1, <3>2 DEF ClientOpen, OpenReturns, OpenTimesOut
    <3>3. CASE Acquire(v) \/ WriteChunk(v)
      BY <1>0, <2>1, <3>3 DEF Acquire, WriteChunk
    <3>4. CASE AwaitWindow(v) \/ FinishWriting(v) \/ BridgeEnds(v)
      BY <1>0, <2>1, <3>4 DEF AwaitWindow, FinishWriting, BridgeEnds
    <3>5. CASE ReadOpenOk(v)
      BY <1>0, <1>1, <2>1, <3>5 DEF ReadOpenOk
    <3>6. CASE ReadOpenErr(v) \/ ReadCloseFrame(v)
      BY <1>0, <2>1, <3>6 DEF ReadOpenErr, ReadCloseFrame
    <3>7. CASE ReadWindowUpdate(v)
      <4>1. u # v
        BY <2>1, <3>7, FirstFrame DEF ReadWindowUpdate
      <4> QED BY <1>0, <2>1, <3>7, <4>1 DEF ReadWindowUpdate, Unpark
    <3> QED BY <1>1, <3>1, <3>2, <3>3, <3>4, <3>5, <3>6, <3>7, ServerSteps, Zenon DEF StepOf
  <2>3. /\ credited'[u] = 0 /\ got'[u] = <<>> /\ queue'[u] = <<>>
        /\ pump'[u] \in {"idle", "take", "exit"}
    <3> USE DEF ServerTypes, PGoto
    <3>1. CASE UNCHANGED <<svars, got, shed, failed>>
      BY <2>1, <3>1 DEF svars
    <3>2. CASE ReadOpen(v) \/ DialSucceeds(v) \/ DialFails(v)
      BY <1>0, <2>1, <3>2 DEF ReadOpen, DialSucceeds, DialFails
    <3>3. CASE ReadData(v)
      <4>1. u # v
        BY <2>1, <3>3, FirstFrame DEF ReadData
      <4> QED BY <1>0, <2>1, <3>3, <4>1 DEF ReadData, QueueChunk, LeaveMap
    <3>4. CASE ReadClose(v) \/ UpstreamEnds(v) \/ Reclaim(v)
      BY <1>0, <2>1, <3>4 DEF ReadClose, UpstreamEnds, Reclaim, LeaveMap
    <3>5. CASE PumpTakes(v) \/ PumpEnds(v) \/ PumpWrites(v)
      BY <1>0, <2>1, <3>5 DEF PumpTakes, PumpEnds, PumpWrites
    <3>6. CASE PumpFails(v)
      BY <1>0, <2>1, <3>6 DEF PumpFails
    <3>7. CASE PumpCredits(v)
      <4>1. /\ pump[v] = "credit" /\ pump' = [pump EXCEPT ![v] = "take"]
            /\ UNCHANGED <<queue, got>>
            /\ credited' = [credited EXCEPT ![v] = 0] \/ credited' = credited
        BY <3>7, Zenon DEF PumpCredits
      <4> QED BY <4>1, <1>0, <2>1
    <3> QED BY <1>1, <3>1, <3>2, <3>3, <3>4, <3>5, <3>6, <3>7, ClientSteps, Zenon DEF StepOf
  <2>4. ASSUME NEW i \in 1 .. Len(c2s'), At(c2s', i, "DATA", u)
        PROVE  FALSE
    <3>1. ~(u = v /\ WriteChunk(v))
      BY <2>1 DEF WriteChunk
    <3> QED BY <1>1, <2>1, <2>4, <3>1, C2sFrom DEF At
  <2>5. ASSUME NEW i \in 1 .. Len(s2c'), At(s2c', i, "WINDOW_UPDATE", u)
        PROVE  FALSE
    <3>1. ~(u = v /\ PumpCredits(v))
      BY <2>1, Zenon DEF PumpCredits
    <3> QED BY <1>1, <2>1, <2>5, <3>1, S2cFrom DEF At
  <2> QED BY <2>2, <2>3, <2>4, <2>5
<1>2. CASE WakeWriter
  <2>1. /\ UNCHANGED <<sent, sendWindow, answer, cclosed, c2s, s2c, stream, queue, pump, hand,
                       credited, got>>
        /\ \A u \in Uploads : cpc[u] # "parked" => cpc'[u] = cpc[u]
    BY <1>0, <1>2 DEF WakeWriter, Unpark, svars, ClientTypes
  <2> QED BY <2>1 DEF Silent, At
<1>3. CASE UNCHANGED ownvars
  BY <1>3 DEF ownvars, cvars, svars, Silent, At
<1> QED
  BY <1>1, <1>2, <1>3, Steps DEF Silent

\* A stream that is not open, nor being closed, has an empty queue.
LEMMA DroppedStep ==
    ASSUME Types, OpenOnce, PumpStarted, Dropped, [Next]_vars
    PROVE  Dropped'
<1>0. ServerTypes
  BY DEF Types
<1>1. ASSUME NEW v \in Uploads, StepOf(v), NEW u \in Uploads, ~Alive(u)'
      PROVE  queue'[u] = <<>>
  <2> USE DEF ServerTypes, Alive
  <2>1. CASE UNCHANGED <<svars, got, shed, failed>>
    BY <1>1, <2>1 DEF svars, Dropped
  <2>2. CASE ReadOpen(v)
    <3>1. stream[v] = "none"
      <4>1. At(c2s, 1, "OPEN", v) /\ 1 \in 1 .. Len(c2s)
        BY <2>2, FirstFrame DEF ReadOpen
      <4> QED BY <4>1 DEF OpenOnce
    <3> QED BY <1>0, <1>1, <2>2, <3>1 DEF ReadOpen, Dropped
  <2>3. CASE DialSucceeds(v) \/ DialFails(v)
    BY <1>0, <1>1, <2>3 DEF DialSucceeds, DialFails, Dropped
  <2>4. CASE ReadData(v)
    BY <1>0, <1>1, <2>4 DEF ReadData, QueueChunk, LeaveMap, Dropped
  <2>5. CASE ReadClose(v) \/ UpstreamEnds(v) \/ Reclaim(v)
    BY <1>0, <1>1, <2>5 DEF ReadClose, UpstreamEnds, Reclaim, LeaveMap, Dropped
  <2>6. CASE PumpTakes(v) \/ PumpEnds(v) \/ PumpWrites(v)
    BY <1>0, <1>1, <2>6 DEF PumpTakes, PumpEnds, PumpWrites, Dropped
  <2>7. CASE PumpFails(v)
    BY <1>0, <1>1, <2>7 DEF PumpFails, LeaveMap, Dropped
  <2>8. CASE PumpCredits(v)
    <3>1. UNCHANGED <<stream, queue>>
      BY <2>8, Zenon DEF PumpCredits
    <3> QED BY <3>1, <1>1 DEF Dropped
  <2> QED BY <1>1, <2>1, <2>2, <2>3, <2>4, <2>5, <2>6, <2>7, <2>8, ClientSteps, Zenon DEF StepOf
<1>2. CASE WakeWriter
  BY <1>2 DEF WakeWriter, svars, Dropped, Alive
<1>3. CASE UNCHANGED ownvars
  BY <1>3 DEF ownvars, svars, Dropped, Alive
<1> QED
  BY <1>1, <1>2, <1>3, Steps DEF Dropped

-----------------------------------------------------------------------------
(* The window *)

\* A step of v touches nothing of another upload but its place in the wires.
LEMMA Elsewhere ==
    ASSUME Types, NEW v \in Uploads, StepOf(v), NEW u \in Uploads, u # v
    PROVE  /\ sendWindow'[u] = sendWindow[u] /\ sent'[u] = sent[u]
           /\ queue'[u] = queue[u] /\ pump'[u] = pump[u] /\ hand'[u] = hand[u]
           /\ credited'[u] = credited[u] /\ got'[u] = got[u]
<1>0. ClientTypes /\ ServerTypes
  BY DEF Types
<1>1. sendWindow'[u] = sendWindow[u] /\ sent'[u] = sent[u]
  <2> USE DEF ClientTypes, cvars
  <2>1. CASE UNCHANGED cvars
    BY <2>1
  <2>2. CASE ClientOpen(v) \/ OpenReturns(v) \/ OpenTimesOut(v) \/ Acquire(v) \/ AwaitWindow(v)
             \/ WriteChunk(v) \/ FinishWriting(v) \/ BridgeEnds(v)
    BY <1>0, <2>2 DEF ClientOpen, OpenReturns, OpenTimesOut, Acquire, AwaitWindow, WriteChunk,
                      FinishWriting, BridgeEnds
  <2>3. CASE ReadOpenOk(v) \/ ReadOpenErr(v) \/ ReadWindowUpdate(v) \/ ReadCloseFrame(v)
    BY <1>0, <2>3 DEF ReadOpenOk, ReadOpenErr, ReadWindowUpdate, ReadCloseFrame
  <2> QED BY <1>0, <2>1, <2>2, <2>3, ServerSteps, Zenon DEF StepOf
<1>2. /\ queue'[u] = queue[u] /\ pump'[u] = pump[u] /\ hand'[u] = hand[u]
      /\ credited'[u] = credited[u] /\ got'[u] = got[u]
  <2> USE DEF ServerTypes, PGoto
  <2>1. CASE UNCHANGED <<svars, got, shed, failed>>
    BY <2>1 DEF svars
  <2>2. CASE ReadOpen(v) \/ DialSucceeds(v) \/ DialFails(v)
    BY <1>0, <2>2 DEF ReadOpen, DialSucceeds, DialFails
  <2>3. CASE ReadData(v)
    BY <1>0, <2>3 DEF ReadData, QueueChunk, LeaveMap
  <2>4. CASE ReadClose(v) \/ UpstreamEnds(v) \/ Reclaim(v)
    BY <1>0, <2>4 DEF ReadClose, UpstreamEnds, Reclaim, LeaveMap
  <2>5. CASE PumpTakes(v) \/ PumpEnds(v) \/ PumpWrites(v)
    BY <1>0, <2>5 DEF PumpTakes, PumpEnds, PumpWrites
  <2>6. CASE PumpFails(v)
    BY <1>0, <2>6 DEF PumpFails, LeaveMap
  <2>7. CASE PumpCredits(v)
    <3>1. /\ pump' = [pump EXCEPT ![v] = "take"] /\ hand' = [hand EXCEPT ![v] = NoChunk]
          /\ UNCHANGED <<queue, got>>
          /\ credited' = [credited EXCEPT ![v] = 0] \/ credited' = credited
      BY <2>7, Zenon DEF PumpCredits
    <3> QED BY <3>1, <1>0
  <2> QED BY <1>0, <2>1, <2>2, <2>3, <2>4, <2>5, <2>6, <2>7, ClientSteps, Zenon DEF StepOf
<1> QED
  BY <1>1, <1>2

\* The bytes of u on the client's wire.
LEMMA DataWireStep ==
    ASSUME Types, NEW v \in Uploads, StepOf(v), NEW u \in Uploads
    PROVE  /\ DataWire(u) \in Nat
           /\ WriteChunk(v) => DataWire(u)' = DataWire(u) + (IF u = v THEN NextSize(u) ELSE 0)
           /\ ReadData(v) =>
                  /\ DataWire(u)' = DataWire(u) - (IF u = v THEN Size(u, Head(c2s).val) ELSE 0)
                  /\ u = v => Size(u, Head(c2s).val) <= DataWire(u)
           /\ ~WriteChunk(v) /\ ~ReadData(v) => DataWire(u)' = DataWire(u)
<1> DEFINE g == DataOf(u)
<1>0. g \in [CFrame -> Nat] /\ c2s \in Seq(CFrame)
  BY WeightTypes DEF Types, WireTypes
<1>1. \A f \in CFrame : g[f] = IF f.type = "DATA" /\ f.id = u THEN Plan[u][f.val] ELSE 0
  BY DEF DataOf
<1> HIDE DEF g
<1>2. Load(c2s, g) \in Nat
  BY <1>0, Weights
<1>3. ASSUME WriteChunk(v)
      PROVE  Load(c2s', g) = Load(c2s, g) + (IF u = v THEN NextSize(u) ELSE 0)
  <2> DEFINE f == [type |-> "DATA", id |-> v, val |-> sent[v] + 1]
  <2>1. sent[v] + 1 \in Nat /\ sent[v] + 1 \in 1 .. Len(Plan[v])
    BY <1>3, WeightTypes DEF WriteChunk, Types, ClientTypes, ChunksPlanned
  <2>2. f \in CFrame
    BY <2>1 DEF CFrame
  <2>3. g[f] = IF u = v THEN NextSize(u) ELSE 0
    BY <1>1, <2>2 DEF NextSize, Size
  <2>4. c2s' = Append(c2s, f)
    BY <1>3 DEF WriteChunk, ToServer
  <2> HIDE DEF f
  <2>5. Load(c2s', g) = Load(c2s, g) + g[f]
    BY <1>0, <2>2, <2>4, LoadAppend
  <2> QED BY <2>3, <2>5
<1>4. ASSUME NEW t \in {"OPEN", "DATA", "CLOSE"}, Receives(t, v)
      PROVE  /\ Load(c2s', g) =
                    Load(c2s, g) - (IF u = v /\ t = "DATA" THEN Size(u, Head(c2s).val) ELSE 0)
             /\ u = v /\ t = "DATA" => Size(u, Head(c2s).val) <= Load(c2s, g)
  <2>1. c2s # <<>> /\ c2s' = Tail(c2s) /\ c2s[1] = Head(c2s) /\ Head(c2s).type = t
        /\ Head(c2s).id = v /\ Head(c2s) \in CFrame
    BY <1>0, <1>4, Leaves DEF Receives
  <2>2. g[c2s[1]] = IF u = v /\ t = "DATA" THEN Size(u, Head(c2s).val) ELSE 0
    BY <1>1, <2>1 DEF Size
  <2>3. Load(c2s', g) = Load(c2s, g) - g[c2s[1]] /\ g[c2s[1]] <= Load(c2s, g)
    BY <1>0, <2>1, LoadTail
  <2> QED BY <2>2, <2>3
<1>5. ASSUME ~WriteChunk(v), ~ReadData(v)
      PROVE  Load(c2s', g) = Load(c2s, g)
  <2>1. CASE c2s' = c2s
    BY <2>1
  <2>2. CASE ReadOpen(v) \/ ReadClose(v)
    <3>1. Load(c2s', g) = Load(c2s, g) - 0
      BY <1>4, <2>2 DEF ReadOpen, ReadClose
    <3> QED BY <3>1, <1>2
  <2>3. CASE \E f \in CFrame : c2s' = Append(c2s, f) /\ (f.type = "DATA" => WriteChunk(v))
    <3>1. PICK f \in CFrame : c2s' = Append(c2s, f) /\ (f.type = "DATA" => WriteChunk(v))
      BY <2>3
    <3>2. g[f] = 0
      BY <3>1, <1>1, <1>5
    <3>3. Load(c2s', g) = Load(c2s, g) + g[f]
      BY <1>0, <3>1, LoadAppend
    <3> QED BY <3>2, <3>3, <1>2
  <2> QED BY <1>5, <2>1, <2>2, <2>3, C2sStep
<1>6. ReadData(v) => Receives("DATA", v)
  BY DEF ReadData
<1>7. DataWire(u) = Load(c2s, g) /\ DataWire(u)' = Load(c2s', g)
  BY DEF DataWire, g, DataOf, CFrame
<1> QED
  BY <1>2, <1>3, <1>4, <1>5, <1>6, <1>7

\* The credit of u on the server's wire.
LEMMA CreditWireStep ==
    ASSUME Types, NEW v \in Uploads, StepOf(v), NEW u \in Uploads
    PROVE  /\ CreditWire(u) \in Nat
           /\ ReadWindowUpdate(v) =>
                  CreditWire(u)' = CreditWire(u) - (IF u = v THEN Head(s2c).val ELSE 0)
           /\ PumpCredits(v) =>
                  CreditWire(u)' = CreditWire(u)
                                   + (IF u = v /\ CreditDue(v) THEN credited[u] ELSE 0)
           /\ ~ReadWindowUpdate(v) /\ ~PumpCredits(v) => CreditWire(u)' = CreditWire(u)
<1> DEFINE g == CreditOf(u)
<1>0. g \in [SFrame -> Nat] /\ s2c \in Seq(SFrame)
  BY WeightTypes DEF Types, WireTypes
<1>1. \A f \in SFrame : g[f] = IF f.type = "WINDOW_UPDATE" /\ f.id = u THEN f.val ELSE 0
  BY DEF CreditOf
<1> HIDE DEF g
<1>2. Load(s2c, g) \in Nat
  BY <1>0, Weights
<1>3. ASSUME PumpCredits(v)
      PROVE  Load(s2c', g) = Load(s2c, g) + (IF u = v /\ CreditDue(v) THEN credited[u] ELSE 0)
  <2>1. CASE CreditDue(v)
    <3> DEFINE f == [type |-> "WINDOW_UPDATE", id |-> v, val |-> credited[v]]
    <3>1. credited[v] \in Nat
      BY DEF Types, ServerTypes
    <3>2. f \in SFrame
      BY <3>1 DEF SFrame
    <3>3. g[f] = IF u = v THEN credited[u] ELSE 0
      BY <1>1, <3>2
    <3>4. s2c' = Append(s2c, f)
      BY <1>3, <2>1, Zenon DEF PumpCredits, ToClient
    <3> HIDE DEF f
    <3>5. Load(s2c', g) = Load(s2c, g) + g[f]
      BY <1>0, <3>2, <3>4, LoadAppend
    <3> QED BY <3>3, <3>5, <2>1
  <2>2. CASE ~CreditDue(v)
    <3>1. s2c' = s2c
      BY <1>3, <2>2, Zenon DEF PumpCredits
    <3> QED BY <3>1, <1>2, <2>2
  <2> QED BY <2>1, <2>2
<1>4. ASSUME NEW t, ReadsFrame(t, v)
      PROVE  Load(s2c', g) =
                    Load(s2c, g) - (IF u = v /\ t = "WINDOW_UPDATE" THEN Head(s2c).val ELSE 0)
  <2>1. s2c # <<>> /\ s2c' = Tail(s2c) /\ s2c[1] = Head(s2c) /\ Head(s2c).type = t
        /\ Head(s2c).id = v /\ Head(s2c) \in SFrame
    BY <1>0, <1>4, Leaves DEF ReadsFrame
  <2>2. g[s2c[1]] = IF u = v /\ t = "WINDOW_UPDATE" THEN Head(s2c).val ELSE 0
    BY <1>1, <2>1
  <2>3. Load(s2c', g) = Load(s2c, g) - g[s2c[1]]
    BY <1>0, <2>1, LoadTail
  <2> QED BY <2>2, <2>3
<1>5. ASSUME ~ReadWindowUpdate(v), ~PumpCredits(v)
      PROVE  Load(s2c', g) = Load(s2c, g)
  <2>1. CASE s2c' = s2c
    BY <2>1
  <2>2. CASE ReadOpenOk(v) \/ ReadOpenErr(v) \/ ReadCloseFrame(v)
    <3>1. Load(s2c', g) = Load(s2c, g) - 0
      BY <1>4, <2>2 DEF ReadOpenOk, ReadOpenErr, ReadCloseFrame
    <3> QED BY <3>1, <1>2
  <2>3. CASE \E f \in SFrame : s2c' = Append(s2c, f) /\ (f.type = "WINDOW_UPDATE" => PumpCredits(v))
    <3>1. PICK f \in SFrame : s2c' = Append(s2c, f) /\ (f.type = "WINDOW_UPDATE" => PumpCredits(v))
      BY <2>3
    <3>2. g[f] = 0
      BY <3>1, <1>1, <1>5
    <3>3. Load(s2c', g) = Load(s2c, g) + g[f]
      BY <1>0, <3>1, LoadAppend
    <3> QED BY <3>2, <3>3, <1>2
  <2> QED BY <1>5, <2>1, <2>2, <2>3, S2cStep
<1>6. ReadWindowUpdate(v) => ReadsFrame("WINDOW_UPDATE", v)
  BY DEF ReadWindowUpdate
<1>7. CreditWire(u) = Load(s2c, g) /\ CreditWire(u)' = Load(s2c', g)
  BY DEF CreditWire, g, CreditOf, SFrame
<1> QED
  BY <1>2, <1>3, <1>4, <1>5, <1>6, <1>7

\* What is queued weighs what its chunks weigh.
LEMMA QueuedLoad ==
    ASSUME Types, NEW u \in Uploads
    PROVE  /\ queue[u] \in Seq(1 .. Len(Plan[u])) /\ Plan[u] \in [1 .. Len(Plan[u]) -> Nat]
           /\ Queued(u) = Load(queue[u], Plan[u]) /\ Queued(u) \in Nat
<1>1. queue[u] \in Seq(1 .. Len(Plan[u])) /\ Plan[u] \in [1 .. Len(Plan[u]) -> Nat]
  BY WeightTypes DEF Types, ChunksPlanned
<1>2. Queued(u) = Load(queue[u], Plan[u])
  BY DEF Queued, Load, Size
<1>3. Load(queue[u], Plan[u]) \in Nat
  BY <1>1, Weights
<1> QED
  BY <1>1, <1>2, <1>3

\* The amounts the window's equation adds up are numbers.
LEMMA Amounts ==
    ASSUME Types, NEW u \in Uploads
    PROVE  /\ sendWindow[u] \in Nat /\ credited[u] \in Nat /\ Queued(u) \in Nat
           /\ Acquired(u) \in Nat /\ Held(u) \in Nat
           /\ DataWire(u) \in Nat /\ CreditWire(u) \in Nat
<1>1. sendWindow[u] \in Nat /\ credited[u] \in Nat
  BY DEF Types, ClientTypes, ServerTypes
<1>2. Acquired(u) \in Nat
  <2>1. cpc[u] = "write" => sent[u] + 1 \in 1 .. Len(Plan[u])
    BY WeightTypes DEF Types, ChunksPlanned, ClientTypes
  <2> QED BY <2>1, WeightTypes DEF Acquired, NextSize, Size
<1>3. Held(u) \in Nat
  BY WeightTypes DEF Held, Size, Types, ChunksPlanned
<1>4. DataWire(u) \in Nat
  BY WeightTypes, Weights DEF DataWire, Types, WireTypes
<1>5. CreditWire(u) \in Nat
  BY WeightTypes, Weights DEF CreditWire, Types, WireTypes
<1> QED
  BY <1>1, <1>2, <1>3, <1>4, <1>5, QueuedLoad

\* ... before a step and after it.
LEMMA AmountsAll ==
    Types => \A u \in Uploads :
        /\ sendWindow[u] \in Nat /\ credited[u] \in Nat /\ Queued(u) \in Nat
        /\ Acquired(u) \in Nat /\ Held(u) \in Nat
        /\ DataWire(u) \in Nat /\ CreditWire(u) \in Nat
  BY Amounts

\* A chunk is acquired, written, queued, taken, delivered and credited: each step
\* moves its bytes from one term of the equation to another.
LEMMA OwnMoves ==
    ASSUME Types, NEW v \in Uploads, StepOf(v), Types'
    PROVE  /\ Acquire(v) => /\ sendWindow'[v] + NextSize(v) = sendWindow[v]
                            /\ Acquired(v) = 0 /\ Acquired(v)' = NextSize(v)
                            /\ UNCHANGED sent
           /\ WriteChunk(v) => /\ Acquired(v) = NextSize(v) /\ Acquired(v)' = 0
                               /\ sent'[v] = sent[v] + 1 /\ UNCHANGED sendWindow
           /\ PumpTakes(v) => /\ Queued(v)' + Held(v)' = Queued(v) /\ Held(v) = 0
                              /\ UNCHANGED credited
           /\ PumpWrites(v) => /\ Held(v)' = 0 /\ credited'[v] = credited[v] + Held(v)
                               /\ UNCHANGED queue
           /\ PumpCredits(v) =>
                  /\ Held(v) = 0 /\ Held(v)' = 0 /\ UNCHANGED queue
                  /\ credited'[v] + (IF CreditDue(v) THEN credited[v] ELSE 0) = credited[v]
           /\ ReadWindowUpdate(v) =>
                  /\ v \in known => sendWindow'[v] = sendWindow[v] + Head(s2c).val
                  /\ v \notin known => sendWindow'[v] = sendWindow[v]
                  /\ Acquired(v)' = Acquired(v) /\ UNCHANGED sent
<1>0. ClientTypes /\ ServerTypes
  BY DEF Types
<1>1. ASSUME Acquire(v)
      PROVE  /\ sendWindow'[v] + NextSize(v) = sendWindow[v]
             /\ Acquired(v) = 0 /\ Acquired(v)' = NextSize(v) /\ UNCHANGED sent
  <2>1. sent[v] + 1 \in 1 .. Len(Plan[v])
    BY <1>1, <1>0, WeightTypes DEF Acquire, ClientTypes
  <2>2. NextSize(v) \in Nat
    BY <2>1, WeightTypes DEF NextSize, Size
  <2>3. /\ cpc[v] = "send" /\ cpc'[v] = "write" /\ sent' = sent
        /\ sendWindow'[v] = sendWindow[v] - NextSize(v) /\ sendWindow[v] \in Nat
    BY <1>1, <1>0 DEF Acquire, CGoto, ClientTypes
  <2> QED BY <2>2, <2>3 DEF Acquired, NextSize, Size
<1>2. ASSUME WriteChunk(v)
      PROVE  /\ Acquired(v) = NextSize(v) /\ Acquired(v)' = 0
             /\ sent'[v] = sent[v] + 1 /\ UNCHANGED sendWindow
  BY <1>2, <1>0 DEF WriteChunk, CGoto, ClientTypes, Acquired
<1>3. ASSUME PumpTakes(v)
      PROVE  Queued(v)' + Held(v)' = Queued(v) /\ Held(v) = 0 /\ UNCHANGED credited
  <2>1. /\ pump[v] = "take" /\ queue[v] # <<>> /\ pump'[v] = "write"
        /\ hand'[v].chunk = Head(queue[v]) /\ queue'[v] = Tail(queue[v]) /\ credited' = credited
    BY <1>3, <1>0 DEF PumpTakes, PGoto, ServerTypes
  <2>2. /\ queue[v] \in Seq(1 .. Len(Plan[v])) /\ Plan[v] \in [1 .. Len(Plan[v]) -> Nat]
        /\ Queued(v) = Load(queue[v], Plan[v]) /\ Queued(v) \in Nat
    BY QueuedLoad
  <2>3. Queued(v)' = Load(queue'[v], Plan[v])
    BY DEF Queued, Load, Size
  <2>4. /\ Load(Tail(queue[v]), Plan[v]) = Load(queue[v], Plan[v]) - Plan[v][queue[v][1]]
        /\ Plan[v][queue[v][1]] <= Load(queue[v], Plan[v])
    BY <2>1, <2>2, LoadTail
  <2>5. Head(queue[v]) = queue[v][1] /\ queue[v][1] \in 1 .. Len(Plan[v])
    BY <2>1, <2>2, Leaves
  <2>6. Held(v)' = Plan[v][queue[v][1]] /\ Held(v) = 0
    BY <2>1, <2>5 DEF Held, Size
  <2>7. Plan[v][queue[v][1]] \in Nat
    BY <2>2, <2>5
  <2> QED BY <2>1, <2>2, <2>3, <2>4, <2>6, <2>7
<1>4. ASSUME PumpWrites(v)
      PROVE  Held(v)' = 0 /\ credited'[v] = credited[v] + Held(v) /\ UNCHANGED queue
  BY <1>4, <1>0 DEF PumpWrites, PGoto, ServerTypes, Held
<1>5. ASSUME PumpCredits(v)
      PROVE  /\ Held(v) = 0 /\ Held(v)' = 0 /\ UNCHANGED queue
             /\ credited'[v] + (IF CreditDue(v) THEN credited[v] ELSE 0) = credited[v]
  <2>1. /\ pump[v] = "credit" /\ pump' = [pump EXCEPT ![v] = "take"] /\ queue' = queue
        /\ CreditDue(v) => credited' = [credited EXCEPT ![v] = 0]
        /\ ~CreditDue(v) => credited' = credited
    BY <1>5, Zenon DEF PumpCredits, PGoto
  <2>2. credited[v] \in Nat /\ pump'[v] = "take"
    BY <2>1, <1>0 DEF ServerTypes
  <2>3. credited'[v] + (IF CreditDue(v) THEN credited[v] ELSE 0) = credited[v]
    <3>1. CASE CreditDue(v)
      BY <2>1, <2>2, <3>1, <1>0 DEF ServerTypes
    <3>2. CASE ~CreditDue(v)
      BY <2>1, <2>2, <3>2
    <3> QED BY <3>1, <3>2
  <2> QED BY <2>1, <2>2, <2>3 DEF Held
<1>6. ASSUME ReadWindowUpdate(v)
      PROVE  /\ v \in known => sendWindow'[v] = sendWindow[v] + Head(s2c).val
             /\ v \notin known => sendWindow'[v] = sendWindow[v]
             /\ Acquired(v)' = Acquired(v) /\ UNCHANGED sent
  <2>1. sent' = sent /\ (cpc'[v] = "write" <=> cpc[v] = "write")
    BY <1>6, <1>0 DEF ReadWindowUpdate, Unpark, ClientTypes
  <2>2. Acquired(v)' = Acquired(v)
    BY <2>1 DEF Acquired, NextSize
  <2> QED BY <1>6, <1>0, <2>1, <2>2 DEF ReadWindowUpdate, ClientTypes
<1> QED
  BY <1>1, <1>2, <1>3, <1>4, <1>5, <1>6

\* The other steps of the client move nothing ...
LEMMA ClientIdle ==
    ASSUME Types, NEW v \in Uploads,
           \/ ClientOpen(v) \/ OpenReturns(v) \/ OpenTimesOut(v) \/ AwaitWindow(v)
           \/ FinishWriting(v) \/ BridgeEnds(v) \/ ReadOpenErr(v) \/ ReadCloseFrame(v)
           \/ UNCHANGED cvars
    PROVE  sendWindow' = sendWindow /\ sent' = sent /\ Acquired(v)' = Acquired(v)
<1>0. ClientTypes
  BY DEF Types
<1> USE DEF ClientTypes, CGoto, cvars
<1>1. sendWindow' = sendWindow /\ sent' = sent /\ (cpc'[v] = "write" <=> cpc[v] = "write")
  <2>1. CASE ClientOpen(v) \/ OpenReturns(v) \/ OpenTimesOut(v)
    BY <2>1, <1>0 DEF ClientOpen, OpenReturns, OpenTimesOut
  <2>2. CASE AwaitWindow(v) \/ FinishWriting(v) \/ BridgeEnds(v)
    BY <2>2, <1>0 DEF AwaitWindow, FinishWriting, BridgeEnds
  <2>3. CASE ReadOpenErr(v) \/ ReadCloseFrame(v) \/ UNCHANGED cvars
    BY <2>3, <1>0 DEF ReadOpenErr, ReadCloseFrame
  <2> QED BY <2>1, <2>2, <2>3, Zenon
<1> QED
  BY <1>1 DEF Acquired, NextSize

\* ... nor do those of the server that leave the stream open.
LEMMA ServerIdle ==
    ASSUME Types, NEW v \in Uploads,
           PumpEnds(v) \/ UNCHANGED <<svars, got, shed, failed>>
    PROVE  Queued(v)' = Queued(v) /\ Held(v)' = Held(v) /\ UNCHANGED <<credited, got>>
<1>1. queue' = queue /\ hand' = hand /\ UNCHANGED <<credited, got>> /\ (pump'[v] = "write" <=> pump[v] = "write")
  BY DEF PumpEnds, PGoto, svars, Types, ServerTypes
<1> QED
  BY <1>1 DEF Queued, Held, Size

\* The equation's terms about one upload, added up.
Sum(u) == sendWindow[u] + Acquired(u) + DataWire(u) + Queued(u) + Held(u) + credited[u] + CreditWire(u)

\* A step of v that leaves its stream open, and its answer alone, keeps the sum.
LEMMA SumKept ==
    ASSUME Types, Types', PumpStarted, OkOnce, NEW v \in Uploads, StepOf(v),
           stream[v] = "open", stream'[v] = "open", "ok" \in answer[v], v \in known
    PROVE  Sum(v)' = Sum(v)
<1>0. ClientTypes /\ ServerTypes
  BY DEF Types
<1>1. /\ sendWindow[v] \in Nat /\ credited[v] \in Nat /\ Queued(v) \in Nat
      /\ Acquired(v) \in Nat /\ Held(v) \in Nat /\ DataWire(v) \in Nat /\ CreditWire(v) \in Nat
  BY Amounts
<1>2. /\ sendWindow'[v] \in Nat /\ credited'[v] \in Nat /\ Queued(v)' \in Nat
      /\ Acquired(v)' \in Nat /\ Held(v)' \in Nat /\ DataWire(v)' \in Nat /\ CreditWire(v)' \in Nat
  <2>1. Types' => (\A u \in Uploads :
            /\ sendWindow[u] \in Nat /\ credited[u] \in Nat /\ Queued(u) \in Nat
            /\ Acquired(u) \in Nat /\ Held(u) \in Nat
            /\ DataWire(u) \in Nat /\ CreditWire(u) \in Nat)'
    BY AmountsAll, PTL
  <2> QED BY <2>1
<1>3. c2s' = c2s => DataWire(v)' = DataWire(v)
  BY DEF DataWire, DataOf, CFrame
<1>4. s2c' = s2c => CreditWire(v)' = CreditWire(v)
  BY DEF CreditWire, CreditOf, SFrame
<1>5. UNCHANGED cvars => sendWindow'[v] = sendWindow[v] /\ Acquired(v)' = Acquired(v)
  BY ClientIdle
<1>6. UNCHANGED <<svars, got, shed, failed>> =>
          credited'[v] = credited[v] /\ Queued(v)' = Queued(v) /\ Held(v)' = Held(v)
  BY ServerIdle
<1>7. CASE Acquire(v)
  <2>1. c2s' = c2s /\ s2c' = s2c /\ UNCHANGED <<svars, got, shed, failed>>
    BY <1>7 DEF Acquire
  <2>2. sendWindow'[v] + NextSize(v) = sendWindow[v] /\ Acquired(v) = 0 /\ Acquired(v)' = NextSize(v)
    BY <1>7, OwnMoves
  <2> QED BY <1>1, <1>2, <1>3, <1>4, <1>6, <2>1, <2>2 DEF Sum
<1>8. CASE WriteChunk(v)
  <2>1. s2c' = s2c /\ UNCHANGED <<svars, got, shed, failed>>
    BY <1>8 DEF WriteChunk
  <2>2. Acquired(v) = NextSize(v) /\ Acquired(v)' = 0 /\ sendWindow'[v] = sendWindow[v]
    BY <1>8, OwnMoves
  <2>3. DataWire(v)' = DataWire(v) + NextSize(v)
    BY <1>8, DataWireStep
  <2> QED BY <1>1, <1>2, <1>4, <1>6, <2>1, <2>2, <2>3 DEF Sum
<1>9. CASE ReadData(v)
  <2> DEFINE k == Head(c2s).val
  <2>1. /\ s2c' = s2c /\ queue' = [queue EXCEPT ![v] = Append(@, k)]
        /\ UNCHANGED cvars /\ UNCHANGED <<pump, hand, credited>>
    BY <1>9, <1>0 DEF ReadData, QueueChunk, LeaveMap, ServerTypes
  <2>2. k \in 1 .. Len(Plan[v])
    BY <1>9, ChunkRead DEF ReadData
  <2> HIDE DEF k
  <2>3. queue'[v] = Append(queue[v], k)
    BY <2>1, <1>0 DEF ServerTypes
  <2>4. Load(Append(queue[v], k), Plan[v]) = Load(queue[v], Plan[v]) + Plan[v][k]
    BY <2>2, QueuedLoad, LoadAppend
  <2>5. Queued(v)' = Load(queue'[v], Plan[v])
    BY DEF Queued, Load, Size
  <2>6. Queued(v)' = Queued(v) + Plan[v][k] /\ Plan[v][k] \in Nat
    BY <2>2, <2>3, <2>4, <2>5, QueuedLoad
  <2>7. DataWire(v)' = DataWire(v) - Plan[v][k]
    BY <1>9, DataWireStep DEF Size, k
  <2>8. Held(v)' = Held(v) /\ credited'[v] = credited[v]
    BY <2>1 DEF Held, Size
  <2> DEFINE n == Plan[v][k]
  <2>9. n \in Nat /\ Queued(v)' = Queued(v) + n /\ DataWire(v)' = DataWire(v) - n
    BY <2>6, <2>7
  <2>10. /\ CreditWire(v)' = CreditWire(v) /\ sendWindow'[v] = sendWindow[v]
         /\ Acquired(v)' = Acquired(v)
    BY <1>4, <1>5, <2>1
  <2> HIDE DEF n
  <2> QED BY <1>1, <1>2, <2>8, <2>9, <2>10 DEF Sum
<1>10. CASE PumpTakes(v)
  <2>1. c2s' = c2s /\ s2c' = s2c /\ UNCHANGED cvars
    BY <1>10 DEF PumpTakes
  <2>2. Queued(v)' + Held(v)' = Queued(v) /\ Held(v) = 0 /\ credited'[v] = credited[v]
    BY <1>10, OwnMoves
  <2> QED BY <1>1, <1>2, <1>3, <1>4, <1>5, <2>1, <2>2 DEF Sum
<1>11. CASE PumpWrites(v)
  <2>1. c2s' = c2s /\ s2c' = s2c /\ UNCHANGED cvars
    BY <1>11 DEF PumpWrites
  <2>2. Held(v)' = 0 /\ credited'[v] = credited[v] + Held(v) /\ queue' = queue
    BY <1>11, OwnMoves
  <2>3. Queued(v)' = Queued(v)
    BY <2>2 DEF Queued, Size
  <2> QED BY <1>1, <1>2, <1>3, <1>4, <1>5, <2>1, <2>2, <2>3 DEF Sum
<1>12. CASE PumpCredits(v)
  <2>1. c2s' = c2s /\ UNCHANGED cvars
    BY <1>12, Zenon DEF PumpCredits
  <2> DEFINE c == IF CreditDue(v) THEN credited[v] ELSE 0
  <2>2. Held(v) = 0 /\ Held(v)' = 0 /\ credited'[v] + c = credited[v] /\ queue' = queue
    BY <1>12, OwnMoves
  <2>3. CreditWire(v)' = CreditWire(v) + c
    BY <1>12, CreditWireStep
  <2>4. Queued(v)' = Queued(v)
    BY <2>2 DEF Queued, Size
  <2>5. c \in Nat
    BY <1>1
  <2> HIDE DEF c
  <2> QED BY <1>1, <1>2, <1>3, <1>5, <2>1, <2>2, <2>3, <2>4, <2>5 DEF Sum
<1>13. CASE ReadWindowUpdate(v)
  <2>1. c2s' = c2s /\ UNCHANGED <<svars, got, shed, failed>>
    BY <1>13 DEF ReadWindowUpdate
  <2>2. sendWindow'[v] = sendWindow[v] + Head(s2c).val /\ Acquired(v)' = Acquired(v)
    BY <1>13, OwnMoves
  <2>3. CreditWire(v)' = CreditWire(v) - Head(s2c).val
    BY <1>13, CreditWireStep
  <2>4. Head(s2c).val \in Nat
    BY <1>13, ChunkRead DEF ReadWindowUpdate
  <2> DEFINE n == Head(s2c).val
  <2>5. DataWire(v)' = DataWire(v) /\ credited'[v] = credited[v] /\ Queued(v)' = Queued(v)
        /\ Held(v)' = Held(v)
    BY <1>3, <1>6, <2>1
  <2>6. n \in Nat /\ sendWindow'[v] = sendWindow[v] + n /\ CreditWire(v)' = CreditWire(v) - n
    BY <2>2, <2>3, <2>4
  <2> HIDE DEF n
  <2> QED BY <1>1, <1>2, <2>2, <2>5, <2>6 DEF Sum
<1>14. ASSUME ~WriteChunk(v), ~ReadData(v), ~PumpCredits(v), ~ReadWindowUpdate(v)
       PROVE  DataWire(v)' = DataWire(v) /\ CreditWire(v)' = CreditWire(v)
  BY <1>14, DataWireStep, CreditWireStep
<1>15. ASSUME ~WriteChunk(v), ~ReadData(v), ~PumpCredits(v), ~ReadWindowUpdate(v),
              \/ ClientOpen(v) \/ OpenReturns(v) \/ OpenTimesOut(v) \/ AwaitWindow(v)
              \/ FinishWriting(v) \/ BridgeEnds(v) \/ ReadOpenErr(v) \/ ReadCloseFrame(v)
       PROVE  Sum(v)' = Sum(v)
  <2>1. sendWindow'[v] = sendWindow[v] /\ Acquired(v)' = Acquired(v)
    BY <1>15, ClientIdle
  <2>2. UNCHANGED <<svars, got, shed, failed>>
    BY <1>15, ClientSteps
  <2>3. DataWire(v)' = DataWire(v) /\ CreditWire(v)' = CreditWire(v)
    BY <1>14, <1>15
  <2> QED BY <1>1, <1>6, <2>1, <2>2, <2>3 DEF Sum
<1>16. ASSUME ReadOpenOk(v) PROVE FALSE
  BY <1>16, FirstFrame DEF ReadOpenOk, OkOnce
<1>17. ASSUME ReadOpen(v) \/ DialSucceeds(v) \/ DialFails(v) \/ ReadClose(v) \/ UpstreamEnds(v) \/ Reclaim(v)
              \/ PumpFails(v) \/ PumpEnds(v)
       PROVE  FALSE
  BY <1>0, <1>17 DEF ReadOpen, DialSucceeds, DialFails, ReadClose, UpstreamEnds, Reclaim, PumpFails,
                     PumpEnds, LeaveMap, ServerTypes
<1> QED
  BY <1>7, <1>8, <1>9, <1>10, <1>11, <1>12, <1>13, <1>15, <1>16, <1>17, Zenon DEF StepOf

\* A step of another upload keeps it, too.
LEMMA SumElsewhere ==
    ASSUME Types, NEW v \in Uploads, StepOf(v), NEW u \in Uploads, u # v
    PROVE  /\ Sum(u)' = Sum(u) /\ Acquired(u)' = Acquired(u)
           /\ CreditWire(u)' = CreditWire(u)
<1>1. /\ sendWindow'[u] = sendWindow[u] /\ sent'[u] = sent[u]
      /\ queue'[u] = queue[u] /\ pump'[u] = pump[u] /\ hand'[u] = hand[u]
      /\ credited'[u] = credited[u] /\ cpc'[u] = cpc[u]
  BY Elsewhere, WriterStep
<1>2. DataWire(u)' = DataWire(u)
  <2>1. DataWire(u) \in Nat /\ DataWire(u) + 0 = DataWire(u) /\ DataWire(u) - 0 = DataWire(u)
    BY Amounts
  <2> QED BY <2>1, DataWireStep
<1>3. CreditWire(u)' = CreditWire(u)
  <2>1. CreditWire(u) \in Nat /\ CreditWire(u) + 0 = CreditWire(u) /\ CreditWire(u) - 0 = CreditWire(u)
    BY Amounts
  <2> QED BY <2>1, CreditWireStep
<1>4. Acquired(u)' = Acquired(u) /\ Queued(u)' = Queued(u) /\ Held(u)' = Held(u)
  BY <1>1 DEF Acquired, NextSize, Queued, Held, Size
<1> QED
  BY <1>1, <1>2, <1>3, <1>4 DEF Sum

\* Before OPEN_OK the equation is all zeros.
LEMMA SilentZero ==
    ASSUME Types, Silent, NEW u \in Uploads, "ok" \notin answer[u]
    PROVE  /\ sendWindow[u] = 0 /\ Acquired(u) = 0 /\ DataWire(u) = 0 /\ Queued(u) = 0
           /\ Held(u) = 0 /\ credited[u] = 0 /\ CreditWire(u) = 0
<1>1. /\ sendWindow[u] = 0 /\ credited[u] = 0 /\ queue[u] = <<>>
      /\ cpc[u] # "write" /\ pump[u] # "write"
      /\ \A i \in 1 .. Len(c2s) : ~At(c2s, i, "DATA", u)
      /\ \A i \in 1 .. Len(s2c) : ~At(s2c, i, "WINDOW_UPDATE", u)
  BY DEF Silent
<1>2. c2s \in Seq(CFrame) /\ s2c \in Seq(SFrame)
  BY DEF Types, WireTypes
<1>3. \A i \in 1 .. Len(c2s) : DataOf(u)[c2s[i]] = 0
  <2>1. \A i \in 1 .. Len(c2s) : c2s[i] \in CFrame
    BY <1>2
  <2> QED BY <2>1, <1>1 DEF DataOf, At
<1>4. \A i \in 1 .. Len(s2c) : CreditOf(u)[s2c[i]] = 0
  <2>1. \A i \in 1 .. Len(s2c) : s2c[i] \in SFrame
    BY <1>2
  <2> QED BY <2>1, <1>1 DEF CreditOf, At
<1>5. DataWire(u) = 0 /\ CreditWire(u) = 0
  BY <1>2, <1>3, <1>4, WeightTypes, LoadZero DEF DataWire, CreditWire
<1>6. Queued(u) = 0
  <2>1. \A i \in 1 .. Len(queue[u]) : Plan[u][queue[u][i]] = 0
    BY <1>1
  <2> QED BY <2>1, QueuedLoad, LoadZero
<1> QED
  BY <1>1, <1>5, <1>6 DEF Acquired, Held

\* The window's equation is kept.
LEMMA BalancedStep ==
    ASSUME Types, Types', OpenOnce, PumpStarted, Unanswered, OkOnce, Silent, Kept, Balanced,
           [Next]_vars
    PROVE  Balanced'
<1>0. ClientTypes
  BY DEF Types
<1>1. ASSUME NEW v \in Uploads, StepOf(v), NEW u \in Uploads,
             stream'[u] = "open", "ok" \in answer'[u]
      PROVE  Window = Sum(u)'
  <2>1. CASE "ok" \notin answer[u]
    <3>1. u = v /\ ReadOpenOk(v) /\ v \in known
      BY <1>1, <2>1, AnswerStep
    <3>2. Head(s2c).val = Window
      BY <3>1, FirstFrame DEF ReadOpenOk, OkOnce
    <3>3. sendWindow'[v] = Window /\ cpc' = cpc /\ c2s' = c2s /\ UNCHANGED <<svars, got, shed, failed>>
      BY <3>1, <3>2, <1>0 DEF ReadOpenOk, ClientTypes
    <3>4. /\ Acquired(u) = 0 /\ DataWire(u) = 0 /\ Queued(u) = 0
          /\ Held(u) = 0 /\ credited[u] = 0 /\ CreditWire(u) = 0
      BY <2>1, SilentZero
    <3>5. Acquired(u)' = 0
      <4>1. cpc[u] # "write"
        BY <2>1 DEF Silent
      <4> QED BY <3>3, <4>1 DEF Acquired
    <3>6. DataWire(u)' = 0
      BY <3>3, <3>4 DEF DataWire, DataOf, CFrame
    <3>7. Queued(u)' = 0 /\ Held(u)' = 0 /\ credited'[u] = 0
      BY <3>1, <3>3, <3>4, ServerIdle
    <3>8. CreditWire(u)' = 0
      <4>1. ~PumpCredits(v)
        BY <2>1, <3>1, Zenon DEF PumpCredits, Silent
      <4>2. ~ReadWindowUpdate(v)
        BY <3>1 DEF ReadOpenOk, ReadWindowUpdate, ReadsFrame
      <4>3. StepOf(v)
        BY <1>1
      <4> QED BY <3>4, <4>1, <4>2, <4>3, CreditWireStep
    <3>9. Window \in Nat
      BY FlowAssumption
    <3> QED BY <3>1, <3>3, <3>5, <3>6, <3>7, <3>8, <3>9 DEF Sum
  <2>2. CASE "ok" \in answer[u]
    <3>1. stream[u] = "open" /\ u \in known
      BY <1>1, <2>2, StreamFrom DEF Unanswered, Kept
    <3>2. Window = Sum(u)
      BY <3>1, <2>2 DEF Balanced, Sum
    <3>3. CASE u = v
      BY <1>1, <2>2, <3>1, <3>2, <3>3, SumKept
    <3>4. CASE u # v
      BY <1>1, <3>2, <3>4, SumElsewhere
    <3> QED BY <3>3, <3>4
  <2> QED BY <2>1, <2>2
<1>2. CASE WakeWriter
  <2>1. /\ UNCHANGED <<sent, sendWindow, answer, c2s, s2c, stream, queue, pump, hand, credited>>
        /\ \A u \in Uploads : cpc'[u] = "write" <=> cpc[u] = "write"
    BY <1>0, <1>2 DEF WakeWriter, Unpark, svars, ClientTypes
  <2>2. \A u \in Uploads : Sum(u)' = Sum(u)
    BY <2>1 DEF Sum, Acquired, NextSize, DataWire, CreditWire, DataOf, CreditOf, CFrame, SFrame,
                Queued, Held, Size
  <2> QED BY <2>1, <2>2 DEF Balanced, Sum
<1>3. CASE UNCHANGED ownvars
  <2>1. UNCHANGED <<cpc, sent, sendWindow, answer, c2s, s2c, stream, queue, pump, hand, credited>>
    BY <1>3 DEF ownvars, cvars, svars
  <2>2. \A u \in Uploads : Sum(u)' = Sum(u)
    BY <2>1 DEF Sum, Acquired, NextSize, DataWire, CreditWire, DataOf, CreditOf, CFrame, SFrame,
                Queued, Held, Size
  <2> QED BY <2>1, <2>2 DEF Balanced, Sum
<1> QED
  BY <1>1, <1>2, <1>3, Steps DEF Balanced, Sum

\* What an open stream has queued, and what is on the wire for it, fits its window.
LEMMA OpenFits ==
    ASSUME Types, Silent, Balanced, NEW u \in Uploads, stream[u] = "open"
    PROVE  Queued(u) + DataWire(u) <= Window
<1>1. /\ sendWindow[u] \in Nat /\ credited[u] \in Nat /\ Queued(u) \in Nat
      /\ Acquired(u) \in Nat /\ Held(u) \in Nat /\ DataWire(u) \in Nat /\ CreditWire(u) \in Nat
      /\ Window \in Nat
  BY Amounts, FlowAssumption
<1>2. CASE "ok" \in answer[u]
  <2>1. Window = sendWindow[u] + Acquired(u) + DataWire(u) + Queued(u) + Held(u)
                 + credited[u] + CreditWire(u)
    BY <1>2 DEF Balanced
  <2> QED BY <1>1, <2>1
<1>3. CASE "ok" \notin answer[u]
  <2>1. DataWire(u) = 0 /\ Queued(u) = 0
    BY <1>3, SilentZero
  <2> QED BY <1>1, <2>1
<1> QED
  BY <1>2, <1>3

\* A stream that leaves the map takes a queue that fits its window with it, and
\* only the pump touches it then, until it is reclaimed.
LEMMA QueueBoundStep ==
    ASSUME Types, Types', OpenOnce, PumpStarted, Silent, Balanced, QueueBound, [Next]_vars
    PROVE  QueueBound'
<1>0. ServerTypes /\ Window \in Nat
  BY FlowAssumption DEF Types
<1>a. Types' => (\A u \in Uploads :
          /\ sendWindow[u] \in Nat /\ credited[u] \in Nat /\ Queued(u) \in Nat
          /\ Acquired(u) \in Nat /\ Held(u) \in Nat
          /\ DataWire(u) \in Nat /\ CreditWire(u) \in Nat)'
  BY AmountsAll, PTL
<1>1. ASSUME NEW v \in Uploads, StepOf(v), NEW u \in Uploads, stream'[u] \in {"dropping", "closing"}
      PROVE  Queued(u)' <= Window
  <2>1. Queued(u) <= Window
    <3>1. CASE stream[u] \in {"dropping", "closing"}
      BY <3>1 DEF QueueBound
    <3>2. CASE stream[u] = "open"
      <4>1. Queued(u) \in Nat /\ DataWire(u) \in Nat /\ Queued(u) + DataWire(u) <= Window
        BY <3>2, Amounts, OpenFits
      <4> QED BY <1>0, <4>1
    <3> QED BY <1>1, <3>1, <3>2, StreamFrom
  <2>2. CASE queue'[u] = queue[u]
    <3>1. Queued(u)' = Queued(u)
      BY <2>2 DEF Queued, Size
    <3> QED BY <2>1, <3>1
  <2>3. CASE PumpTakes(v) /\ u = v
    <3>1. Queued(v)' + Held(v)' = Queued(v)
      BY <1>1, <2>3, OwnMoves
    <3>2. Queued(v)' \in Nat /\ Held(v)' \in Nat /\ Queued(v) \in Nat
      BY <1>a, Amounts
    <3> QED BY <1>0, <2>1, <2>3, <3>1, <3>2
  <2>4. CASE u = v /\ ~PumpTakes(v)
    <3> USE DEF ServerTypes
    <3>1. CASE UNCHANGED <<svars, got, shed, failed>>
      BY <2>2, <3>1 DEF svars
    <3>2. CASE ReadData(v)
      <4>1. queue' = queue
        BY <1>0, <1>1, <2>4, <3>2 DEF ReadData
      <4> QED BY <2>2, <4>1
    <3>3. CASE ReadOpen(v) \/ DialSucceeds(v) \/ DialFails(v) \/ ReadClose(v) \/ UpstreamEnds(v)
               \/ PumpEnds(v) \/ PumpWrites(v) \/ PumpFails(v) \/ PumpCredits(v)
      <4>1. queue' = queue
        BY <3>3, Zenon DEF ReadOpen, DialSucceeds, DialFails, ReadClose, UpstreamEnds, PumpEnds,
                           PumpWrites, PumpFails, PumpCredits
      <4> QED BY <2>2, <4>1
    <3>4. CASE Reclaim(v)
      BY <1>0, <1>1, <2>4, <3>4 DEF Reclaim
    <3> QED BY <1>1, <2>4, <3>1, <3>2, <3>3, <3>4, ClientSteps, Zenon DEF StepOf
  <2>5. CASE u # v
    BY <1>1, <2>2, <2>5, Elsewhere
  <2> QED BY <2>3, <2>4, <2>5
<1>2. ASSUME UNCHANGED <<stream, queue>> PROVE QueueBound'
  <2>1. \A u \in Uploads : Queued(u)' = Queued(u)
    BY <1>2 DEF Queued, Size
  <2> QED BY <1>2, <2>1 DEF QueueBound
<1>3. CASE WakeWriter
  BY <1>2, <1>3 DEF WakeWriter, svars
<1>4. CASE UNCHANGED ownvars
  BY <1>2, <1>4 DEF ownvars, svars
<1> QED
  BY <1>1, <1>3, <1>4, Steps DEF QueueBound

\* The invariant behind the window's equation.
WindowInv ==
    /\ Types /\ OpenOnce /\ PumpStarted /\ Unanswered /\ Lasting /\ OkOnce /\ Silent /\ Kept
    /\ Dropped /\ QueueBound /\ Balanced

\* It holds of every state.
THEOREM WindowInvHolds == Spec => []WindowInv
<1>1. Init => WindowInv
  <2>1. SUFFICES ASSUME Init PROVE WindowInv
    OBVIOUS
  <2>2. Types
    BY <2>1, InitTypes
  <2>3. OpenOnce /\ PumpStarted /\ Unanswered /\ Lasting
    BY <2>1 DEF Init, OpenOnce, PumpStarted, Unanswered, Lasting
  <2>4. OkOnce /\ Silent /\ Kept /\ Dropped /\ QueueBound /\ Balanced
    BY <2>1 DEF Init, OkOnce, Silent, Kept, Dropped, QueueBound, Balanced
  <2> QED BY <2>2, <2>3, <2>4 DEF WindowInv
<1>2. WindowInv /\ [Next]_vars => WindowInv'
  <2>1. SUFFICES ASSUME WindowInv, [Next]_vars PROVE WindowInv'
    OBVIOUS
  <2> USE <2>1 DEF WindowInv
  <2>2. Types'
    BY ClientTypesStep, ServerTypesStep, WireStep, PlannedStep, OthersStep DEF Types
  <2>3. OpenOnce' /\ PumpStarted' /\ Unanswered' /\ Lasting'
    BY OpenOnceStep, StartedStep, UnansweredStep, LastingStep
  <2>4. OkOnce' /\ Silent' /\ Kept' /\ Dropped'
    BY OkOnceStep, SilentStep, KeptStep, DroppedStep
  <2>5. Balanced' /\ QueueBound'
    BY <2>2, BalancedStep, QueueBoundStep
  <2> QED BY <2>2, <2>3, <2>4, <2>5
<1> QED
  BY <1>1, <1>2, PTL DEF Spec

\* No credit is lost or invented (acquireWindow and the WINDOW_UPDATE handler of
\* the client, the pump's batched credit of the server): for every open stream the
\* parts of the window always add up to the one advertised in OPEN_OK.
THEOREM WindowConservedHolds == Spec => []WindowConserved
<1>1. WindowInv => WindowConserved
  <2>1. SUFFICES ASSUME WindowInv, NEW u \in Uploads, stream[u] = "open", "ok" \in answer[u]
                 PROVE  Window = sendWindow[u]
                                 + (IF cpc[u] = "write" THEN NextSize(u) ELSE 0)
                                 + Total([i \in 1 .. Len(c2s) |->
                                       IF c2s[i].type = "DATA" /\ c2s[i].id = u
                                       THEN Size(u, c2s[i].val) ELSE 0])
                                 + Queued(u)
                                 + (IF pump[u] = "write" THEN Size(u, hand[u].chunk) ELSE 0)
                                 + credited[u]
                                 + Total([i \in 1 .. Len(s2c) |->
                                       IF s2c[i].type = "WINDOW_UPDATE" /\ s2c[i].id = u
                                       THEN s2c[i].val ELSE 0])
    BY DEF WindowConserved, OnTheWay
  <2>2. c2s \in Seq(CFrame) /\ s2c \in Seq(SFrame)
    BY <2>1 DEF WindowInv, Types, WireTypes
  <2>3. DataWire(u) = Total([i \in 1 .. Len(c2s) |->
                          IF c2s[i].type = "DATA" /\ c2s[i].id = u
                          THEN Size(u, c2s[i].val) ELSE 0])
    <3>1. \A i \in 1 .. Len(c2s) : c2s[i] \in CFrame
      BY <2>2
    <3>2. \A i \in 1 .. Len(c2s) :
              DataOf(u)[c2s[i]] = IF c2s[i].type = "DATA" /\ c2s[i].id = u
                                  THEN Size(u, c2s[i].val) ELSE 0
      BY <3>1 DEF DataOf, Size
    <3> QED BY <3>2 DEF DataWire, Load
  <2>4. CreditWire(u) = Total([i \in 1 .. Len(s2c) |->
                          IF s2c[i].type = "WINDOW_UPDATE" /\ s2c[i].id = u
                          THEN s2c[i].val ELSE 0])
    <3>1. \A i \in 1 .. Len(s2c) : s2c[i] \in SFrame
      BY <2>2
    <3>2. \A i \in 1 .. Len(s2c) :
              CreditOf(u)[s2c[i]] = IF s2c[i].type = "WINDOW_UPDATE" /\ s2c[i].id = u
                                    THEN s2c[i].val ELSE 0
      BY <3>1 DEF CreditOf
    <3> QED BY <3>2 DEF CreditWire, Load
  <2>5. Window = sendWindow[u] + Acquired(u) + DataWire(u) + Queued(u) + Held(u)
                 + credited[u] + CreditWire(u)
    BY <2>1 DEF WindowInv, Balanced
  <2> QED BY <2>3, <2>4, <2>5 DEF Acquired, Held
<1> QED
  BY <1>1, WindowInvHolds, PTL

\* What a stream has queued fits its window, with the chunk about to join.
LEMMA QueueFits ==
    ASSUME WindowInv, NEW u \in Uploads
    PROVE  /\ Queued(u) \in Nat
           /\ ~Alive(u) => Queued(u) = 0
           /\ Queued(u) <= Window
           /\ stream[u] = "open" /\ Receives("DATA", u) =>
                  Queued(u) + Size(u, Head(c2s).val) <= Window
<1>0. Types /\ Window \in Nat
  BY FlowAssumption DEF WindowInv
<1>1. /\ sendWindow[u] \in Nat /\ credited[u] \in Nat /\ Queued(u) \in Nat
      /\ Acquired(u) \in Nat /\ Held(u) \in Nat /\ DataWire(u) \in Nat /\ CreditWire(u) \in Nat
  BY <1>0, Amounts
<1>2. ASSUME ~Alive(u) PROVE Queued(u) = 0
  <2>1. queue[u] = <<>>
    BY <1>2 DEF WindowInv, Dropped
  <2>2. \A i \in 1 .. Len(queue[u]) : Plan[u][queue[u][i]] = 0
    BY <2>1
  <2> QED BY <1>0, <2>2, QueuedLoad, LoadZero
<1>3. ASSUME stream[u] = "open" PROVE Queued(u) + DataWire(u) <= Window
  BY <1>3, OpenFits DEF WindowInv
<1>5. ASSUME stream[u] \in {"dropping", "closing"} PROVE Queued(u) <= Window
  BY <1>5 DEF WindowInv, QueueBound
<1>4. ASSUME Receives("DATA", u)
      PROVE  Size(u, Head(c2s).val) <= DataWire(u) /\ Size(u, Head(c2s).val) \in Nat
  <2>1. c2s # <<>> /\ c2s \in Seq(CFrame) /\ c2s[1] = Head(c2s) /\ At(c2s, 1, "DATA", u)
    BY <1>0, <1>4, FirstFrame DEF Types, WireTypes
  <2>2. DataOf(u)[c2s[1]] <= Load(c2s, DataOf(u))
    BY <2>1, WeightTypes, LoadTail
  <2>3. c2s[1] \in CFrame
    BY <2>1, Leaves
  <2>4. DataOf(u)[c2s[1]] = Size(u, Head(c2s).val)
    BY <2>1, <2>3 DEF DataOf, Size, At
  <2>5. Head(c2s).val \in 1 .. Len(Plan[u])
    BY <1>0, <1>4, ChunkRead
  <2> QED BY <2>2, <2>4, <2>5, WeightTypes DEF DataWire, Size
<1>6. Queued(u) <= Window
  BY <1>0, <1>1, <1>2, <1>3, <1>5 DEF Alive
<1> QED
  BY <1>0, <1>1, <1>2, <1>3, <1>4, <1>6

\* A sum is that over the points that count.
LEMMA TotalSupport ==
    ASSUME NEW S, NEW R, R \subseteq S, NEW f \in [S -> Nat], \A x \in S \ R : f[x] = 0
    PROVE  Total(f) = TotalOn(R, f)
<1> DEFINE g == [x \in R |-> f[x]]
<1>1. g \in [R -> Nat]
  OBVIOUS
<1>2. \A c : c \in Cells(f) <=> \E x \in S : \E i \in 1 .. f[x] : c = <<x, i>>
  BY CellsMember
<1>3. \A c : c \in Cells(g) <=> \E x \in R : \E i \in 1 .. g[x] : c = <<x, i>>
  <2> HIDE DEF g
  <2> QED BY <1>1, CellsMember
<1>4. \A x \in R : g[x] = f[x]
  OBVIOUS
<1>5. \A x \in S \ R : 1 .. f[x] = {}
  OBVIOUS
<1> HIDE DEF g
<1>6. Cells(f) = Cells(g)
  <2>1. ASSUME NEW c \in Cells(f) PROVE c \in Cells(g)
    <3>1. PICK x \in S : \E i \in 1 .. f[x] : c = <<x, i>>
      BY <1>2, <2>1
    <3>2. x \in R
      BY <3>1, <1>5
    <3> QED BY <1>3, <1>4, <3>1, <3>2
  <2>2. ASSUME NEW c \in Cells(g) PROVE c \in Cells(f)
    BY <1>2, <1>3, <1>4, <2>2
  <2> QED BY <2>1, <2>2
<1> QED
  BY <1>6 DEF Total, TotalOn, g

\* The budgets (v2SessionBufferCap, v2GlobalBufferCap) shed an upload only while the
\* windows of the streams open or closing exceed the session's, or exceed the
\* process-wide one with what other sessions hold.
THEOREM ShedOnlyIfCrowdedHolds == Spec => ShedOnlyIfCrowded
<1> DEFINE Crowded == Windows > SessionCap \/ Windows + others > GlobalCap
<1>1. WindowInv /\ [Next]_vars => [shed' # shed => Crowded]_vars
  <2>1. SUFFICES ASSUME WindowInv, [Next]_vars, shed' # shed PROVE Crowded
    OBVIOUS
  <2> HIDE DEF Crowded
  <2>2. PICK v \in Uploads : ReadData(v)
    <3>1. ASSUME NEW v \in Uploads, StepOf(v), ~ReadData(v) PROVE shed' = shed
      <4>1. CASE UNCHANGED <<svars, got, shed, failed>>
        BY <4>1
      <4>2. CASE ReadOpen(v) \/ DialSucceeds(v) \/ DialFails(v) \/ ReadClose(v) \/ UpstreamEnds(v) \/ Reclaim(v)
                 \/ PumpTakes(v) \/ PumpEnds(v) \/ PumpWrites(v) \/ PumpFails(v) \/ PumpCredits(v)
        BY <4>2, Zenon DEF ReadOpen, DialSucceeds, DialFails, ReadClose, UpstreamEnds, Reclaim,
                    PumpTakes, PumpEnds, PumpWrites, PumpFails, PumpCredits
      <4> QED BY <3>1, <4>1, <4>2, ClientSteps, Zenon DEF StepOf
    <3>2. WakeWriter => shed' = shed
      BY DEF WakeWriter
    <3>3. UNCHANGED ownvars => shed' = shed
      BY DEF ownvars
    <3> QED BY <2>1, <3>1, <3>2, <3>3, Steps, Zenon
  <2> DEFINE k == Head(c2s).val
             n == Size(v, k)
             R == {u \in Uploads : Alive(u)}
             f == [u \in Uploads |-> Queued(u)]
             g == [u \in R |-> f[u]]
             h == [u \in R |-> IF u = v THEN f[u] + n ELSE f[u]]
  <2>3. /\ stream[v] = "open" /\ Alive(v) /\ Receives("DATA", v)
        /\ Buffered + n > SessionCap \/ Buffered + others + n > GlobalCap
    BY <2>1, <2>2 DEF ReadData, OverBudget, Alive
  <2>4. n \in Nat
    <3>1. k \in 1 .. Len(Plan[v])
      BY <2>1, <2>3, ChunkRead DEF WindowInv
    <3> QED BY <3>1, WeightTypes DEF Size
  <2>5. /\ \A u \in Uploads : Queued(u) \in Nat
        /\ \A u \in Uploads \ R : Queued(u) = 0
        /\ \A u \in R : Queued(u) <= Window
        /\ Queued(v) + n <= Window
    BY <2>1, <2>3, QueueFits
  <2> HIDE DEF k, n
  <2>6. f \in [Uploads -> Nat] /\ \A u \in Uploads \ R : f[u] = 0
    BY <2>5
  <2>7. g \in [R -> Nat] /\ h \in [R -> Nat] /\ v \in R
    BY <2>3, <2>4, <2>5
  <2>8. (\A u \in R \ {v} : h[u] = g[u]) /\ h[v] = g[v] + n /\ g[v] \in Nat
    BY <2>4, <2>7
  <2>9. \A u \in R : h[u] <= Window
    BY <2>5
  <2>10. /\ IsFiniteSet(Uploads) /\ IsFiniteSet(R) /\ Window \in Nat
         /\ SessionCap \in Nat /\ GlobalCap \in Nat /\ others \in Nat
    BY <2>1, FlowAssumption, FS_Subset DEF WindowInv, Types
  <2>11. Total(f) = Total(g)
    <3>1. R \subseteq Uploads
      OBVIOUS
    <3>2. TotalOn(R, f) = Total(g)
      BY DEF TotalOn
    <3> HIDE DEF f, g, R
    <3> QED BY <2>6, <3>1, <3>2, TotalSupport
  <2>12. Buffered = Total(f)
    BY DEF Buffered
  <2>13. Windows = Cardinality(R) * Window
    BY DEF Windows
  <2>14. Cardinality(R) \in Nat
    BY <2>10, FS_CardinalityType
  <2> HIDE DEF f, g, h, R
  <2>15. Total(h) = Total(g) - g[v] + h[v]
    BY <2>7, <2>8, <2>10, TotalUpdate
  <2>16. Total(h) <= Cardinality(R) * Window
    BY <2>7, <2>9, <2>10, TotalBound
  <2>17. Total(g) \in Nat
    BY <2>7, <2>10, TotalType
  <2>18. /\ Total(h) > SessionCap \/ Total(h) + others > GlobalCap
         /\ Total(h) \in Nat
    BY <2>3, <2>4, <2>8, <2>10, <2>11, <2>12, <2>15, <2>17
  <2> DEFINE m == Cardinality(R) * Window
  <2>19. m \in Nat
    BY <2>10, <2>14
  <2>20. Total(h) <= m
    BY <2>16
  <2> HIDE DEF m
  <2>21. m > SessionCap \/ m + others > GlobalCap
    BY <2>18, <2>19, <2>20, <2>10
  <2> QED BY <2>13, <2>21 DEF m, Crowded
<1> QED
  BY <1>1, WindowInvHolds, PTL DEF Spec, ShedOnlyIfCrowded

-----------------------------------------------------------------------------
(* The order of the chunks *)

\* A frame that is no DATA of u joins the wire, ...
LEMMA OrderJoinOther ==
    ASSUME NEW S, NEW q \in Seq(S), NEW f \in S, NEW u, NEW lo \in Nat, NEW hi \in Nat,
           InOrder(q, u, lo, hi), ~(f.type = "DATA" /\ f.id = u)
    PROVE  InOrder(Append(q, f), u, lo, hi)
<1> DEFINE r == Append(q, f)
<1>1. /\ Len(r) = Len(q) + 1 /\ Len(q) \in Nat /\ r[Len(q) + 1] = f
      /\ \A i \in 1 .. Len(q) : r[i] = q[i]
  BY Joins
<1> HIDE DEF r
<1>2. \A i \in 1 .. Len(r) : At(r, i, "DATA", u) => /\ i \in 1 .. Len(q) /\ r[i] = q[i]
                                                    /\ At(q, i, "DATA", u)
  BY <1>1 DEF At
<1>3. \A i \in 1 .. Len(r) : At(r, i, "DATA", u) => r[i].val \in lo + 1 .. hi
  BY <1>2 DEF InOrder
<1>4. \A i, j \in 1 .. Len(r) : At(r, i, "DATA", u) /\ At(r, j, "DATA", u) /\ i < j =>
          r[i].val < r[j].val
  BY <1>2 DEF InOrder
<1>5. ASSUME NEW k \in lo + 1 .. hi
      PROVE  \E i \in 1 .. Len(r) : At(r, i, "DATA", u) /\ r[i].val = k
  <2>1. PICK i \in 1 .. Len(q) : At(q, i, "DATA", u) /\ q[i].val = k
    BY DEF InOrder
  <2>2. i \in 1 .. Len(r) /\ r[i] = q[i]
    BY <1>1
  <2> QED BY <2>1, <2>2 DEF At
<1>6. InOrder(r, u, lo, hi)
  BY <1>3, <1>4, <1>5 DEF InOrder
<1> QED
  BY <1>6 DEF r

\* ... the next chunk of u joins it, ...
LEMMA OrderJoin ==
    ASSUME NEW S, NEW q \in Seq(S), NEW f \in S, NEW u, NEW lo \in Nat, NEW hi \in Nat,
           InOrder(q, u, lo, hi), f.type = "DATA", f.id = u, f.val = hi + 1, lo <= hi
    PROVE  InOrder(Append(q, f), u, lo, hi + 1)
<1> DEFINE r == Append(q, f)
<1>1. /\ Len(r) = Len(q) + 1 /\ Len(q) \in Nat /\ r[Len(q) + 1] = f
      /\ \A i \in 1 .. Len(q) : r[i] = q[i]
  BY Joins
<1> HIDE DEF r
<1>2. \A i \in 1 .. Len(r) :
          \/ i = Len(q) + 1 /\ r[i].val = hi + 1
          \/ i \in 1 .. Len(q) /\ r[i] = q[i] /\ (At(r, i, "DATA", u) => At(q, i, "DATA", u))
  BY <1>1 DEF At
<1>3. \A i \in 1 .. Len(q) : At(q, i, "DATA", u) => q[i].val \in lo + 1 .. hi
  BY DEF InOrder
<1>4. \A i \in 1 .. Len(r) : At(r, i, "DATA", u) => r[i].val \in lo + 1 .. hi + 1
  BY <1>2, <1>3
<1>5. ASSUME NEW i \in 1 .. Len(r), NEW j \in 1 .. Len(r),
             At(r, i, "DATA", u), At(r, j, "DATA", u), i < j
      PROVE  r[i].val < r[j].val
  <2>1. i \in 1 .. Len(q) /\ r[i] = q[i] /\ At(q, i, "DATA", u)
    BY <1>1, <1>2, <1>5
  <2>2. CASE j = Len(q) + 1
    BY <1>1, <1>3, <2>1, <2>2
  <2>3. CASE j # Len(q) + 1
    BY <1>2, <1>5, <2>1, <2>3 DEF InOrder
  <2> QED BY <2>2, <2>3
<1>6. ASSUME NEW k \in lo + 1 .. hi + 1
      PROVE  \E i \in 1 .. Len(r) : At(r, i, "DATA", u) /\ r[i].val = k
  <2>1. CASE k = hi + 1
    <3>1. Len(q) + 1 \in 1 .. Len(r)
      BY <1>1
    <3> QED BY <2>1, <3>1, <1>1 DEF At
  <2>2. CASE k # hi + 1
    <3>1. k \in lo + 1 .. hi
      BY <2>2
    <3>2. PICK i \in 1 .. Len(q) : At(q, i, "DATA", u) /\ q[i].val = k
      BY <3>1 DEF InOrder
    <3>3. i \in 1 .. Len(r) /\ r[i] = q[i]
      BY <1>1
    <3> QED BY <3>2, <3>3 DEF At
  <2> QED BY <2>1, <2>2
<1>7. InOrder(r, u, lo, hi + 1)
  BY <1>4, <1>5, <1>6 DEF InOrder
<1> QED
  BY <1>7 DEF r

\* ... a frame that is no DATA of u leaves it, ...
LEMMA OrderLeaveOther ==
    ASSUME NEW S, NEW q \in Seq(S), q # <<>>, NEW u, NEW lo \in Nat, NEW hi \in Nat,
           InOrder(q, u, lo, hi), ~At(q, 1, "DATA", u)
    PROVE  InOrder(Tail(q), u, lo, hi)
<1> DEFINE r == Tail(q)
<1>1. /\ Len(r) = Len(q) - 1 /\ Len(q) \in Nat
      /\ \A i \in 1 .. Len(r) : r[i] = q[i + 1]
  BY Leaves
<1> HIDE DEF r
<1>2. \A i \in 1 .. Len(r) : i + 1 \in 1 .. Len(q) /\ (At(r, i, "DATA", u) <=> At(q, i + 1, "DATA", u))
  BY <1>1 DEF At
<1>3. \A i \in 1 .. Len(r) : At(r, i, "DATA", u) => r[i].val \in lo + 1 .. hi
  BY <1>1, <1>2 DEF InOrder
<1>4. ASSUME NEW i \in 1 .. Len(r), NEW j \in 1 .. Len(r),
             At(r, i, "DATA", u), At(r, j, "DATA", u), i < j
      PROVE  r[i].val < r[j].val
  <2>1. i + 1 < j + 1
    BY <1>4, <1>1
  <2> QED BY <1>1, <1>2, <1>4, <2>1 DEF InOrder
<1>5. ASSUME NEW k \in lo + 1 .. hi
      PROVE  \E i \in 1 .. Len(r) : At(r, i, "DATA", u) /\ r[i].val = k
  <2>1. PICK i \in 1 .. Len(q) : At(q, i, "DATA", u) /\ q[i].val = k
    BY DEF InOrder
  <2>2. i # 1
    BY <2>1
  <2>3. i - 1 \in 1 .. Len(r) /\ (i - 1) + 1 = i
    BY <1>1, <2>2
  <2>4. r[i - 1] = q[i]
    BY <1>1, <2>3
  <2> QED BY <2>1, <2>3, <2>4 DEF At
<1>6. InOrder(r, u, lo, hi)
  BY <1>3, <1>4, <1>5 DEF InOrder
<1> QED
  BY <1>6 DEF r

\* ... and the DATA of u that leaves it first is the next chunk.
LEMMA OrderLeave ==
    ASSUME NEW S, NEW q \in Seq(S), q # <<>>, NEW u, NEW lo \in Nat, NEW hi \in Nat,
           InOrder(q, u, lo, hi), At(q, 1, "DATA", u)
    PROVE  q[1].val = lo + 1 /\ lo < hi /\ InOrder(Tail(q), u, lo + 1, hi)
<1> DEFINE r == Tail(q)
<1>1. /\ Len(r) = Len(q) - 1 /\ Len(q) \in Nat \ {0}
      /\ \A i \in 1 .. Len(r) : r[i] = q[i + 1]
  BY Leaves
<1> HIDE DEF r
<1>2. \A i \in 1 .. Len(r) : i + 1 \in 1 .. Len(q) /\ (At(r, i, "DATA", u) <=> At(q, i + 1, "DATA", u))
  BY <1>1 DEF At
<1>3. 1 \in 1 .. Len(q) /\ q[1].val \in lo + 1 .. hi
  BY <1>1 DEF InOrder
<1>4. \A i \in 1 .. Len(q) : At(q, i, "DATA", u) /\ i # 1 => q[1].val < q[i].val
  <2>1. \A i \in 1 .. Len(q) : i # 1 => 1 < i
    BY <1>1
  <2> QED BY <1>3, <2>1 DEF InOrder
<1>5. q[1].val = lo + 1
  <2>1. lo + 1 \in lo + 1 .. hi
    BY <1>3
  <2>2. PICK i \in 1 .. Len(q) : At(q, i, "DATA", u) /\ q[i].val = lo + 1
    BY <2>1 DEF InOrder
  <2> QED BY <1>3, <1>4, <2>2
<1>6. \A i \in 1 .. Len(r) : At(r, i, "DATA", u) => r[i].val \in lo + 1 + 1 .. hi
  <2>1. ASSUME NEW i \in 1 .. Len(r), At(r, i, "DATA", u) PROVE r[i].val \in lo + 1 + 1 .. hi
    <3>1. i + 1 \in 1 .. Len(q) /\ At(q, i + 1, "DATA", u) /\ i + 1 # 1 /\ r[i] = q[i + 1]
      BY <1>1, <1>2, <2>1
    <3>2. q[i + 1].val \in lo + 1 .. hi /\ q[1].val < q[i + 1].val
      BY <3>1, <1>4 DEF InOrder
    <3> QED BY <3>1, <3>2, <1>5
  <2> QED BY <2>1
<1>7. ASSUME NEW i \in 1 .. Len(r), NEW j \in 1 .. Len(r),
             At(r, i, "DATA", u), At(r, j, "DATA", u), i < j
      PROVE  r[i].val < r[j].val
  <2>1. i + 1 < j + 1
    BY <1>7, <1>1
  <2> QED BY <1>1, <1>2, <1>7, <2>1 DEF InOrder
<1>8. ASSUME NEW k \in lo + 1 + 1 .. hi
      PROVE  \E i \in 1 .. Len(r) : At(r, i, "DATA", u) /\ r[i].val = k
  <2>1. PICK i \in 1 .. Len(q) : At(q, i, "DATA", u) /\ q[i].val = k
    BY DEF InOrder
  <2>2. i # 1
    BY <2>1, <1>5
  <2>3. i - 1 \in 1 .. Len(r) /\ (i - 1) + 1 = i
    BY <1>1, <2>2
  <2>4. r[i - 1] = q[i]
    BY <1>1, <2>3
  <2> QED BY <2>1, <2>3, <2>4 DEF At
<1>9. InOrder(r, u, lo + 1, hi)
  BY <1>6, <1>7, <1>8 DEF InOrder
<1> QED
  BY <1>3, <1>5, <1>9 DEF r

\* What a step does to the order on the wire.
LEMMA OrderWire ==
    ASSUME Types, NEW v \in Uploads, StepOf(v), NEW u \in Uploads, NEW lo \in Nat, NEW hi \in Nat,
           InOrder(c2s, u, lo, hi), lo <= hi, hi = sent[u]
    PROVE  /\ ~(u = v /\ (WriteChunk(v) \/ ReadData(v))) => InOrder(c2s', u, lo, hi)
           /\ u = v /\ WriteChunk(v) => InOrder(c2s', u, lo, hi + 1)
           /\ u = v /\ ReadData(v) => /\ Head(c2s).val = lo + 1 /\ lo < hi
                                      /\ InOrder(c2s', u, lo + 1, hi)
<1>0. c2s \in Seq(CFrame)
  BY DEF Types, WireTypes
<1>1. ASSUME u = v, WriteChunk(v) PROVE InOrder(c2s', u, lo, hi + 1)
  <2> DEFINE f == [type |-> "DATA", id |-> v, val |-> sent[v] + 1]
  <2>1. sent[v] + 1 \in Nat /\ sent[v] + 1 \in 1 .. Len(Plan[v])
    BY <1>1, WeightTypes DEF WriteChunk, Types, ClientTypes, ChunksPlanned
  <2>2. f \in CFrame /\ f.type = "DATA" /\ f.id = u /\ f.val = hi + 1
    BY <1>1, <2>1 DEF CFrame
  <2>3. c2s' = Append(c2s, f)
    BY <1>1 DEF WriteChunk, ToServer
  <2> HIDE DEF f
  <2> QED BY <1>0, <2>2, <2>3, OrderJoin
<1>2. ASSUME u = v, ReadData(v)
      PROVE  Head(c2s).val = lo + 1 /\ lo < hi /\ InOrder(c2s', u, lo + 1, hi)
  <2>1. c2s # <<>> /\ c2s' = Tail(c2s) /\ c2s[1] = Head(c2s) /\ At(c2s, 1, "DATA", u)
    BY <1>2, FirstFrame DEF ReadData, Receives
  <2> QED BY <1>0, <2>1, OrderLeave
<1>3. ASSUME ~(u = v /\ (WriteChunk(v) \/ ReadData(v)))
      PROVE  InOrder(c2s', u, lo, hi)
  <2>1. CASE c2s' = c2s
    BY <2>1
  <2>2. CASE /\ ReadOpen(v) \/ ReadData(v) \/ ReadClose(v)
             /\ c2s # <<>> /\ c2s' = Tail(c2s) /\ c2s[1].id = v
    <3>1. ReadOpen(v) \/ ReadClose(v) => c2s[1].type # "DATA"
      BY FirstFrame DEF ReadOpen, ReadClose, At
    <3>2. ~At(c2s, 1, "DATA", u)
      BY <1>3, <2>2, <3>1 DEF At
    <3> QED BY <1>0, <2>2, <3>2, OrderLeaveOther
  <2>3. CASE \E f \in CFrame : /\ c2s' = Append(c2s, f) /\ f.id = v
                               /\ f.type = "DATA" => WriteChunk(v)
    <3>1. PICK f \in CFrame : /\ c2s' = Append(c2s, f) /\ f.id = v
                              /\ f.type = "DATA" => WriteChunk(v)
      BY <2>3
    <3>2. ~(f.type = "DATA" /\ f.id = u)
      BY <1>3, <3>1
    <3> QED BY <1>0, <3>1, <3>2, OrderJoinOther
  <2> QED BY <2>1, <2>2, <2>3, C2sStep
<1> QED
  BY <1>1, <1>2, <1>3

\* Counts are numbers.
LEMMA Counts ==
    ASSUME Types, NEW u \in Uploads
    PROVE  /\ Len(got[u]) \in Nat /\ Len(queue[u]) \in Nat /\ InHand(u) \in Nat
           /\ Taken(u) \in Nat /\ sent[u] \in Nat
           /\ got[u] \in Seq(Nat) /\ queue[u] \in Seq(Nat)
<1>1. got[u] \in Seq(Nat) /\ queue[u] \in Seq(Nat) /\ sent[u] \in Nat
  BY DEF Types, ServerTypes, ClientTypes
<1>2. InHand(u) \in Nat
  BY DEF InHand
<1> QED
  BY <1>1, <1>2 DEF Taken

\* A step of v that leaves its stream open keeps its chunks in order.
LEMMA OrderKept ==
    ASSUME Types, NEW v \in Uploads, StepOf(v), stream[v] = "open", stream'[v] = "open",
           OrderedOne(v)
    PROVE  OrderedOne(v)'
<1>0. ClientTypes /\ ServerTypes
  BY DEF Types
<1>1. /\ Len(got[v]) \in Nat /\ Len(queue[v]) \in Nat /\ InHand(v) \in Nat
      /\ Taken(v) \in Nat /\ sent[v] \in Nat /\ got[v] \in Seq(Nat) /\ queue[v] \in Seq(Nat)
  BY Counts
<1> DEFINE g == Len(got[v])
           h == InHand(v)
           n == Len(queue[v])
<1>a. /\ Taken(v) = Len(got[v]) + InHand(v) + Len(queue[v])
      /\ Taken(v)' = Len(got'[v]) + InHand(v)' + Len(queue'[v])
  BY DEF Taken
<1>b. g \in Nat /\ h \in Nat /\ n \in Nat /\ Taken(v) = g + h + n
  BY <1>1, <1>a
<1> HIDE DEF g, h, n
<1>2. /\ pump[v] = "write" => hand[v].chunk = Len(got[v]) + 1
      /\ \A i \in 1 .. Len(queue[v]) : queue[v][i] = Len(got[v]) + InHand(v) + i
      /\ Taken(v) <= sent[v]
      /\ InOrder(c2s, v, Taken(v), sent[v])
  BY DEF OrderedOne
<1>3. /\ ~WriteChunk(v) /\ ~ReadData(v) => InOrder(c2s', v, Taken(v), sent[v])
      /\ WriteChunk(v) => InOrder(c2s', v, Taken(v), sent[v] + 1)
      /\ ReadData(v) => /\ Head(c2s).val = Taken(v) + 1 /\ Taken(v) < sent[v]
                        /\ InOrder(c2s', v, Taken(v) + 1, sent[v])
  BY <1>1, <1>2, OrderWire
<1>4. c2s' = c2s => InOrder(c2s', v, Taken(v), sent[v])
  BY <1>2
<1>5. ASSUME queue'[v] = queue[v], got'[v] = got[v], hand'[v] = hand[v],
             pump'[v] = "write" <=> pump[v] = "write"
      PROVE  /\ pump'[v] = "write" => hand'[v].chunk = Len(got'[v]) + 1
             /\ \A i \in 1 .. Len(queue'[v]) : queue'[v][i] = Len(got'[v]) + InHand(v)' + i
             /\ Taken(v)' = Taken(v)
  <2>1. InHand(v)' = InHand(v)
    BY <1>5 DEF InHand
  <2> QED BY <1>2, <1>5, <2>1 DEF Taken
<1>6. CASE WriteChunk(v)
  <2>1. UNCHANGED <<queue, got, hand, pump>> /\ sent'[v] = sent[v] + 1
    BY <1>0, <1>6 DEF WriteChunk, svars, ClientTypes
  <2>2. Taken(v)' = Taken(v) /\ Taken(v)' <= sent'[v]
    BY <2>1, <1>1, <1>2, <1>5
  <2>3. InOrder(c2s', v, Taken(v)', sent'[v])
    BY <2>1, <2>2, <1>3, <1>6
  <2> QED BY <1>5, <2>1, <2>2, <2>3 DEF OrderedOne, InOrder, At
<1>7. CASE ReadData(v)
  <2> DEFINE k == Head(c2s).val
  <2>1. /\ queue' = [queue EXCEPT ![v] = Append(@, k)]
        /\ UNCHANGED cvars /\ UNCHANGED <<pump, hand, got>>
    BY <1>7, <1>0 DEF ReadData, QueueChunk, LeaveMap, ServerTypes
  <2>2. k = Taken(v) + 1 /\ Taken(v) < sent[v] /\ InOrder(c2s', v, Taken(v) + 1, sent[v])
    BY <1>3, <1>7
  <2>3. k \in Nat
    BY <2>2, <1>1
  <2> HIDE DEF k
  <2>4. queue'[v] = Append(queue[v], k) /\ sent' = sent /\ InHand(v)' = InHand(v)
    BY <2>1, <1>0 DEF ServerTypes, cvars, InHand
  <2>5. /\ Len(queue'[v]) = Len(queue[v]) + 1 /\ queue'[v][Len(queue[v]) + 1] = k
        /\ \A i \in 1 .. Len(queue[v]) : queue'[v][i] = queue[v][i]
    BY <2>3, <2>4, <1>1, Joins
  <2>6. Taken(v)' = Taken(v) + 1
    <3>1. Len(got'[v]) = g /\ InHand(v)' = h /\ Len(queue'[v]) = n + 1
      BY <2>1, <2>4, <2>5 DEF g, h, n
    <3>2. Taken(v)' = g + h + (n + 1)
      BY <1>a, <3>1
    <3> QED BY <1>b, <3>2
  <2>7. ASSUME NEW i \in 1 .. Len(queue'[v])
        PROVE  queue'[v][i] = Len(got'[v]) + InHand(v)' + i
    <3>1. CASE i = Len(queue[v]) + 1
      <4>1. k = Len(got[v]) + InHand(v) + (Len(queue[v]) + 1)
        <5>1. k = g + h + (n + 1)
          BY <2>2, <1>b
        <5> QED BY <5>1 DEF g, h, n
      <4> QED BY <2>1, <2>4, <2>5, <3>1, <4>1
    <3>2. CASE i # Len(queue[v]) + 1
      BY <2>1, <2>4, <2>5, <3>2, <1>1, <1>2
    <3> QED BY <3>1, <3>2
  <2>8. Taken(v)' <= sent'[v] /\ InOrder(c2s', v, Taken(v)', sent'[v])
    BY <2>2, <2>4, <2>6, <1>1
  <2>9. pump'[v] = "write" => hand'[v].chunk = Len(got'[v]) + 1
    BY <2>1, <1>2
  <2> QED BY <2>7, <2>8, <2>9 DEF OrderedOne, InOrder, At
<1>8. CASE PumpTakes(v)
  <2>1. /\ pump[v] = "take" /\ queue[v] # <<>> /\ pump'[v] = "write"
        /\ hand'[v].chunk = Head(queue[v]) /\ queue'[v] = Tail(queue[v])
        /\ got' = got /\ c2s' = c2s /\ UNCHANGED cvars
    BY <1>8, <1>0 DEF PumpTakes, PGoto, ServerTypes
  <2>2. InHand(v) = 0 /\ InHand(v)' = 1 /\ sent' = sent
    BY <2>1 DEF InHand, cvars
  <2>3. /\ Len(queue'[v]) = Len(queue[v]) - 1 /\ Head(queue[v]) = queue[v][1]
        /\ 1 \in 1 .. Len(queue[v])
        /\ \A i \in 1 .. Len(queue'[v]) : queue'[v][i] = queue[v][i + 1] /\ i + 1 \in 1 .. Len(queue[v])
    BY <2>1, <1>1, Leaves
  <2>4. hand'[v].chunk = Len(got'[v]) + 1
    BY <2>1, <2>2, <2>3, <1>1, <1>2
  <2>5. ASSUME NEW i \in 1 .. Len(queue'[v])
        PROVE  queue'[v][i] = Len(got'[v]) + InHand(v)' + i
    <3>1. queue'[v][i] = g + 0 + (i + 1)
      BY <2>2, <2>3, <1>2 DEF g
    <3>2. queue'[v][i] = g + 1 + i
      BY <3>1, <1>b
    <3> QED BY <3>2, <2>1, <2>2 DEF g
  <2>6. Taken(v)' = Taken(v)
    <3>1. Len(got'[v]) = g /\ InHand(v)' = 1 /\ h = 0 /\ Len(queue'[v]) = n - 1
      BY <2>1, <2>2, <2>3 DEF g, h, n
    <3>2. Taken(v)' = g + 1 + (n - 1)
      BY <1>a, <3>1
    <3> QED BY <1>b, <3>1, <3>2
  <2> QED BY <2>1, <2>2, <2>4, <2>5, <2>6, <1>2 DEF OrderedOne, InOrder, At
<1>9. CASE PumpWrites(v)
  <2>1. /\ pump[v] = "write" /\ pump'[v] = "credit" /\ got'[v] = Append(got[v], hand[v].chunk)
        /\ queue' = queue /\ c2s' = c2s /\ UNCHANGED cvars
    BY <1>9, <1>0 DEF PumpWrites, PGoto, ServerTypes
  <2>2. InHand(v) = 1 /\ InHand(v)' = 0 /\ sent' = sent
    BY <2>1 DEF InHand, cvars
  <2>3. Len(got'[v]) = Len(got[v]) + 1
    <3>1. hand[v].chunk \in Nat
      BY <1>0 DEF ServerTypes
    <3> QED BY <2>1, <1>1, <3>1, Joins
  <2>4. \A i \in 1 .. Len(queue'[v]) : queue'[v][i] = Len(got'[v]) + InHand(v)' + i
    BY <2>1, <2>2, <2>3, <1>1, <1>2
  <2>5. Taken(v)' = Taken(v)
    BY <2>1, <2>2, <2>3, <1>1 DEF Taken
  <2> QED BY <2>1, <2>2, <2>4, <2>5, <1>2 DEF OrderedOne, InOrder, At
<1>10. CASE PumpCredits(v)
  <2>1. /\ pump[v] = "credit" /\ pump' = [pump EXCEPT ![v] = "take"]
        /\ UNCHANGED <<queue, got, c2s>> /\ UNCHANGED cvars
    BY <1>10, Zenon DEF PumpCredits, PGoto
  <2>2. pump'[v] = "take" /\ InHand(v)' = 0 /\ InHand(v) = 0 /\ sent' = sent
    BY <2>1, <1>0 DEF InHand, cvars, ServerTypes
  <2>3. Taken(v)' = Taken(v)
    BY <2>1, <2>2 DEF Taken
  <2> QED BY <2>1, <2>2, <2>3, <1>2 DEF OrderedOne, InOrder, At
<1>11. ASSUME ~WriteChunk(v), ~ReadData(v), UNCHANGED <<svars, got, shed, failed>>, sent' = sent
       PROVE  OrderedOne(v)'
  <2>1. UNCHANGED <<queue, got, hand, pump>>
    BY <1>11 DEF svars
  <2>2. InOrder(c2s', v, Taken(v), sent[v])
    BY <1>3, <1>11
  <2>3. Taken(v)' = Taken(v)
    BY <2>1, <1>5
  <2> QED BY <1>2, <1>5, <1>11, <2>1, <2>2, <2>3 DEF OrderedOne, InOrder, At
<1>12. ClientOpen(v) \/ OpenReturns(v) \/ OpenTimesOut(v) \/ AwaitWindow(v)
       \/ FinishWriting(v) \/ BridgeEnds(v) \/ ReadOpenErr(v) \/ ReadCloseFrame(v) => sent' = sent
  BY ClientIdle
<1>13. Acquire(v) \/ ReadOpenOk(v) \/ ReadWindowUpdate(v) => sent' = sent
  BY DEF Acquire, ReadOpenOk, ReadWindowUpdate
<1>14. ASSUME ReadOpen(v) \/ DialSucceeds(v) \/ DialFails(v) \/ ReadClose(v) \/ UpstreamEnds(v) \/ Reclaim(v)
              \/ PumpFails(v) \/ PumpEnds(v)
       PROVE  FALSE
  BY <1>0, <1>14 DEF ReadOpen, DialSucceeds, DialFails, ReadClose, UpstreamEnds, Reclaim, PumpFails,
                     PumpEnds, LeaveMap, ServerTypes
<1> QED
  BY <1>6, <1>7, <1>8, <1>9, <1>10, <1>11, <1>12, <1>13, <1>14, ClientSteps, Zenon DEF StepOf

\* A stream that has its queue carries its chunks in order.
LEMMA AliveCarried ==
    ASSUME Ordered, NEW u \in Uploads, Alive(u)
    PROVE  Carried(u)
  BY DEF Ordered, OrderedOne, Carried, Alive

\* A step of v that ends with its stream being closed carries on with its chunks.
LEMMA CarriedKept ==
    ASSUME Types, NEW v \in Uploads, StepOf(v), Alive(v), stream'[v] \in {"dropping", "closing"},
           Carried(v)
    PROVE  Carried(v)'
<1>0. ClientTypes /\ ServerTypes
  BY DEF Types
<1>1. /\ Len(got[v]) \in Nat /\ Len(queue[v]) \in Nat /\ InHand(v) \in Nat
      /\ Taken(v) \in Nat /\ sent[v] \in Nat /\ got[v] \in Seq(Nat) /\ queue[v] \in Seq(Nat)
  BY Counts
<1> DEFINE g == Len(got[v])
           h == InHand(v)
           n == Len(queue[v])
           m == sent[v]
<1>a. /\ Taken(v) = Len(got[v]) + InHand(v) + Len(queue[v])
      /\ Taken(v)' = Len(got'[v]) + InHand(v)' + Len(queue'[v])
  BY DEF Taken
<1>2. /\ pump[v] = "write" => hand[v].chunk = Len(got[v]) + 1
      /\ pump[v] # "exit" =>
             \A i \in 1 .. Len(queue[v]) : queue[v][i] = Len(got[v]) + InHand(v) + i
      /\ Taken(v) <= sent[v]
  BY DEF Carried
<1>b. g \in Nat /\ h \in Nat /\ n \in Nat /\ m \in Nat /\ g + h + n <= m
  BY <1>1, <1>2, <1>a
<1> HIDE DEF g, h, n, m
<1>3. ASSUME queue'[v] = queue[v], got'[v] = got[v], hand'[v] = hand[v], pump'[v] = pump[v],
             sent'[v] = sent[v]
      PROVE  Carried(v)'
  <2>1. InHand(v)' = InHand(v)
    BY <1>3 DEF InHand
  <2> QED BY <1>2, <1>3, <2>1 DEF Taken, Carried
<1>4. CASE WriteChunk(v)
  <2>1. UNCHANGED <<queue, got, hand, pump>> /\ sent'[v] = sent[v] + 1
    BY <1>0, <1>4 DEF WriteChunk, svars, ClientTypes
  <2>2. InHand(v)' = InHand(v) /\ Taken(v)' = Taken(v)
    BY <2>1 DEF InHand, Taken
  <2>3. Taken(v)' <= sent'[v]
    BY <2>1, <2>2, <1>1, <1>2
  <2> QED BY <1>2, <2>1, <2>2, <2>3 DEF Carried
<1>5. CASE ReadData(v)
  <2>1. UNCHANGED <<queue, got, hand, pump>> /\ UNCHANGED cvars
    BY <1>0, <1>5 DEF ReadData, ServerTypes
  <2> QED BY <1>3, <2>1 DEF cvars
<1>6. CASE PumpTakes(v)
  <2>1. /\ pump[v] = "take" /\ queue[v] # <<>> /\ pump'[v] = "write"
        /\ hand'[v].chunk = Head(queue[v]) /\ queue'[v] = Tail(queue[v])
        /\ got' = got /\ UNCHANGED cvars
    BY <1>6, <1>0 DEF PumpTakes, PGoto, ServerTypes
  <2>2. InHand(v) = 0 /\ InHand(v)' = 1 /\ sent' = sent
    BY <2>1 DEF InHand, cvars
  <2>3. /\ Len(queue'[v]) = Len(queue[v]) - 1 /\ Head(queue[v]) = queue[v][1]
        /\ 1 \in 1 .. Len(queue[v])
        /\ \A i \in 1 .. Len(queue'[v]) : queue'[v][i] = queue[v][i + 1] /\ i + 1 \in 1 .. Len(queue[v])
    BY <2>1, <1>1, Leaves
  <2>4. hand'[v].chunk = Len(got'[v]) + 1
    BY <2>1, <2>2, <2>3, <1>1, <1>2
  <2>5. ASSUME NEW i \in 1 .. Len(queue'[v])
        PROVE  queue'[v][i] = Len(got'[v]) + InHand(v)' + i
    <3>1. queue'[v][i] = g + 0 + (i + 1)
      BY <2>1, <2>2, <2>3, <1>2 DEF g
    <3>2. queue'[v][i] = g + 1 + i
      BY <3>1, <1>b
    <3> QED BY <3>2, <2>1, <2>2 DEF g
  <2>6. Taken(v)' <= sent'[v]
    <3>1. Len(got'[v]) = g /\ InHand(v)' = 1 /\ h = 0 /\ Len(queue'[v]) = n - 1 /\ sent'[v] = m
      BY <2>1, <2>2, <2>3 DEF g, h, n, m
    <3>2. Taken(v)' = g + 1 + (n - 1)
      BY <1>a, <3>1
    <3> QED BY <1>b, <3>1, <3>2
  <2> QED BY <2>4, <2>5, <2>6 DEF Carried
<1>7. CASE PumpWrites(v)
  <2>1. /\ pump[v] = "write" /\ pump'[v] = "credit" /\ got'[v] = Append(got[v], hand[v].chunk)
        /\ queue' = queue /\ UNCHANGED cvars
    BY <1>7, <1>0 DEF PumpWrites, PGoto, ServerTypes
  <2>2. InHand(v) = 1 /\ InHand(v)' = 0 /\ sent' = sent
    BY <2>1 DEF InHand, cvars
  <2>3. Len(got'[v]) = Len(got[v]) + 1
    <3>1. hand[v].chunk \in Nat
      BY <1>0 DEF ServerTypes
    <3> QED BY <2>1, <1>1, <3>1, Joins
  <2>4. \A i \in 1 .. Len(queue'[v]) : queue'[v][i] = Len(got'[v]) + InHand(v)' + i
    BY <2>1, <2>2, <2>3, <1>1, <1>2
  <2>5. Taken(v)' = Taken(v)
    BY <2>1, <2>2, <2>3, <1>1 DEF Taken
  <2> QED BY <2>1, <2>2, <2>4, <2>5, <1>2 DEF Carried
<1>8. CASE PumpCredits(v)
  <2>1. /\ pump[v] = "credit" /\ pump' = [pump EXCEPT ![v] = "take"]
        /\ UNCHANGED <<queue, got>> /\ UNCHANGED cvars
    BY <1>8, Zenon DEF PumpCredits, PGoto
  <2>2. pump'[v] = "take" /\ InHand(v)' = 0 /\ InHand(v) = 0 /\ sent' = sent
    BY <2>1, <1>0 DEF InHand, cvars, ServerTypes
  <2>3. Taken(v)' = Taken(v)
    BY <2>1, <2>2 DEF Taken
  <2> QED BY <2>1, <2>2, <2>3, <1>2 DEF Carried
<1>9. CASE PumpFails(v) \/ PumpEnds(v)
  <2>1. pump'[v] = "exit" /\ UNCHANGED <<queue, got>> /\ UNCHANGED cvars
    BY <1>9, <1>0 DEF PumpFails, PumpEnds, PGoto, ServerTypes
  <2>2. InHand(v)' = 0 /\ sent' = sent
    BY <2>1 DEF InHand, cvars
  <2>3. Taken(v)' <= sent'[v]
    <3>1. Len(got'[v]) = g /\ InHand(v)' = 0 /\ Len(queue'[v]) = n /\ sent'[v] = m
      BY <2>1, <2>2 DEF g, n, m
    <3>2. Taken(v)' = g + 0 + n
      BY <1>a, <3>1
    <3> QED BY <1>b, <3>1, <3>2
  <2> QED BY <2>1, <2>3 DEF Carried
<1>10. CASE ReadClose(v) \/ UpstreamEnds(v)
  <2>1. UNCHANGED <<queue, got, hand, pump>> /\ UNCHANGED cvars
    BY <1>10 DEF ReadClose, UpstreamEnds
  <2> QED BY <1>3, <2>1 DEF cvars
<1>11. ASSUME ReadOpen(v) \/ DialSucceeds(v) \/ DialFails(v) \/ Reclaim(v) PROVE FALSE
  BY <1>0, <1>11 DEF ReadOpen, DialSucceeds, DialFails, Reclaim, ServerTypes
<1>12. ASSUME UNCHANGED <<svars, got, shed, failed>>, sent' = sent
       PROVE  Carried(v)'
  BY <1>3, <1>12 DEF svars
<1>13. ClientOpen(v) \/ OpenReturns(v) \/ OpenTimesOut(v) \/ AwaitWindow(v)
       \/ FinishWriting(v) \/ BridgeEnds(v) \/ ReadOpenErr(v) \/ ReadCloseFrame(v) => sent' = sent
  BY ClientIdle
<1>14. Acquire(v) \/ ReadOpenOk(v) \/ ReadWindowUpdate(v) => sent' = sent
  BY DEF Acquire, ReadOpenOk, ReadWindowUpdate
<1> QED
  BY <1>4, <1>5, <1>6, <1>7, <1>8, <1>9, <1>10, <1>11, <1>12, <1>13, <1>14, ClientSteps, Zenon
     DEF StepOf

\* The order of every upload is kept.
LEMMA OrderedStep ==
    ASSUME Types, Types', OpenOnce, PumpStarted, Unanswered, Silent, Ordered, [Next]_vars
    PROVE  Ordered'
<1>0. ServerTypes
  BY DEF Types
<1>1. ASSUME NEW v \in Uploads, StepOf(v), NEW u \in Uploads, stream'[u] = "open"
      PROVE  OrderedOne(u)'
  <2>1. CASE stream[u] # "open"
    <3>1. u = v /\ DialSucceeds(v) /\ stream[u] = "dialing"
      BY <1>1, <2>1, StreamFrom
    <3>2. "ok" \notin answer[u]
      BY <3>1 DEF Unanswered
    <3>3. /\ sent[u] = 0 /\ got[u] = <<>> /\ queue[u] = <<>>
          /\ \A i \in 1 .. Len(c2s) : ~At(c2s, i, "DATA", u)
      BY <3>2 DEF Silent
    <3>4. UNCHANGED <<sent, got, queue, c2s>> /\ pump'[u] = "take"
      BY <3>1, <1>0 DEF DialSucceeds, PGoto, cvars, ServerTypes
    <3>5. InHand(u)' = 0 /\ Taken(u)' = 0 /\ sent'[u] = 0 /\ Len(queue'[u]) = 0
      <4>1. InHand(u)' = 0 /\ sent'[u] = 0 /\ got'[u] = <<>> /\ queue'[u] = <<>>
        BY <3>3, <3>4 DEF InHand
      <4>2. Len(got'[u]) = 0 /\ Len(queue'[u]) = 0
        BY <4>1
      <4>3. Taken(u)' = 0 + 0 + 0
        <5>1. Taken(u)' = Len(got'[u]) + InHand(u)' + Len(queue'[u])
          BY DEF Taken
        <5> QED BY <4>1, <4>2, <5>1
      <4> QED BY <4>1, <4>2, <4>3
    <3>6. InOrder(c2s', u, 0, 0)
      BY <3>3, <3>4 DEF InOrder, At
    <3> QED BY <3>4, <3>5, <3>6 DEF OrderedOne, InOrder, At
  <2>2. CASE stream[u] = "open"
    <3>1. OrderedOne(u)
      BY <2>2 DEF Ordered
    <3>2. CASE u = v
      BY <1>1, <2>2, <3>1, <3>2, OrderKept
    <3>3. CASE u # v
      <4>1. /\ sent'[u] = sent[u] /\ queue'[u] = queue[u] /\ pump'[u] = pump[u]
            /\ hand'[u] = hand[u] /\ got'[u] = got[u]
        BY <1>1, <3>3, Elsewhere
      <4>2. InHand(u)' = InHand(u) /\ Taken(u)' = Taken(u)
        BY <4>1 DEF InHand, Taken
      <4>3. Taken(u) \in Nat /\ sent[u] \in Nat /\ Taken(u) <= sent[u] /\ InOrder(c2s, u, Taken(u), sent[u])
        BY <3>1, Counts DEF OrderedOne
      <4>4. InOrder(c2s', u, Taken(u), sent[u])
        BY <1>1, <3>3, <4>3, OrderWire
      <4> QED BY <3>1, <4>1, <4>2, <4>4 DEF OrderedOne, InOrder, At
    <3> QED BY <3>2, <3>3
  <2> QED BY <2>1, <2>2
<1>4. ASSUME NEW v \in Uploads, StepOf(v), NEW u \in Uploads,
             stream'[u] \in {"dropping", "closing"}
      PROVE  Carried(u)'
  <2>1. Alive(u)
    BY <1>4, StreamFrom DEF Alive
  <2>2. Carried(u)
    BY <2>1, AliveCarried
  <2>3. CASE u = v
    BY <1>4, <2>1, <2>2, <2>3, CarriedKept
  <2>4. CASE u # v
    <3>1. /\ sent'[u] = sent[u] /\ queue'[u] = queue[u] /\ pump'[u] = pump[u]
          /\ hand'[u] = hand[u] /\ got'[u] = got[u]
      BY <1>4, <2>4, Elsewhere
    <3>2. InHand(u)' = InHand(u) /\ Taken(u)' = Taken(u)
      BY <3>1 DEF InHand, Taken
    <3> QED BY <2>2, <3>1, <3>2 DEF Carried
  <2> QED BY <2>3, <2>4
<1>2. CASE WakeWriter
  <2>1. UNCHANGED <<stream, pump, hand, got, queue, sent, c2s>>
    BY <1>2 DEF WakeWriter, svars
  <2>2. ASSUME NEW u \in Uploads
        PROVE  (OrderedOne(u)' <=> OrderedOne(u)) /\ (Carried(u)' <=> Carried(u))
    <3>1. InHand(u)' = InHand(u) /\ Taken(u)' = Taken(u)
      BY <2>1 DEF InHand, Taken
    <3> QED BY <2>1, <3>1 DEF OrderedOne, Carried, InOrder, At
  <2> QED BY <2>1, <2>2 DEF Ordered
<1>3. CASE UNCHANGED ownvars
  <2>1. UNCHANGED <<stream, pump, hand, got, queue, sent, c2s>>
    BY <1>3 DEF ownvars, cvars, svars
  <2>2. ASSUME NEW u \in Uploads
        PROVE  (OrderedOne(u)' <=> OrderedOne(u)) /\ (Carried(u)' <=> Carried(u))
    <3>1. InHand(u)' = InHand(u) /\ Taken(u)' = Taken(u)
      BY <2>1 DEF InHand, Taken
    <3> QED BY <2>1, <3>1 DEF OrderedOne, Carried, InOrder, At
  <2> QED BY <2>1, <2>2 DEF Ordered
<1> QED
  BY <1>1, <1>2, <1>3, <1>4, Steps DEF Ordered

-----------------------------------------------------------------------------
(* Bytes sent and bytes delivered *)

\* One chunk more is its length more.
LEMMA BytesNext ==
    ASSUME NEW u \in Uploads, NEW n \in 0 .. Len(Plan[u])
    PROVE  /\ Bytes(u, n) \in Nat
           /\ n < Len(Plan[u]) => Bytes(u, n + 1) = Bytes(u, n) + Plan[u][n + 1]
<1>0. Len(Plan[u]) \in Nat /\ Plan[u] \in [1 .. Len(Plan[u]) -> Nat] /\ n \in Nat
  BY WeightTypes
<1>1. ASSUME NEW m \in 0 .. Len(Plan[u])
      PROVE  /\ [i \in 1 .. m |-> Plan[u][i]] \in [1 .. m -> Nat] /\ IsFiniteSet(1 .. m)
             /\ Total([i \in 1 .. m |-> Plan[u][i]]) \in Nat
  <2> DEFINE f == [i \in 1 .. m |-> Plan[u][i]]
             D == 1 .. m
  <2>1. f \in [D -> Nat]
    BY <1>0
  <2>2. IsFiniteSet(D)
    BY <1>0, FS_Interval
  <2>3. Total(f) \in Nat
    <3> HIDE DEF f, D
    <3> QED BY <2>1, <2>2, TotalType
  <2> QED BY <2>1, <2>2, <2>3
<1>2. ASSUME n < Len(Plan[u])
      PROVE  Bytes(u, n + 1) = Bytes(u, n) + Plan[u][n + 1]
  <2> DEFINE D == 1 .. n + 1
             f == [i \in D |-> Plan[u][i]]
             x == n + 1
  <2>0. n + 1 \in 0 .. Len(Plan[u])
    BY <1>0, <1>2
  <2>1. f \in [D -> Nat] /\ IsFiniteSet(D)
    BY <2>0, <1>1
  <2>2. x \in D /\ f[x] = Plan[u][n + 1] /\ D \ {x} = 1 .. n
    BY <1>0
  <2>3. [y \in 1 .. n |-> f[y]] = [y \in 1 .. n |-> Plan[u][y]]
    BY <1>0
  <2>4. Bytes(u, n + 1) = Total(f) /\ Bytes(u, n) = Total([y \in 1 .. n |-> Plan[u][y]])
    BY DEF Bytes, TotalOn
  <2> HIDE DEF f, D, x
  <2>5. Total(f) = TotalOn(D \ {x}, f) + f[x]
    BY <2>1, <2>2, TotalSplit
  <2>6. TotalOn(D \ {x}, f) = Total([y \in 1 .. n |-> f[y]])
    BY <2>2 DEF TotalOn
  <2> QED BY <2>2, <2>3, <2>4, <2>5, <2>6
<1>3. Bytes(u, n) \in Nat
  BY <1>1 DEF Bytes, TotalOn
<1> QED
  BY <1>2, <1>3

\* Nothing is delivered that was not sent.
LEMMA GotSentStep ==
    ASSUME Types, Ordered, GotSent, [Next]_vars
    PROVE  GotSent'
<1>0. ClientTypes /\ ServerTypes
  BY DEF Types
<1>1. ASSUME NEW v \in Uploads, StepOf(v), NEW u \in Uploads
      PROVE  Len(got'[u]) <= sent'[u]
  <2>0. /\ Len(got[u]) \in Nat /\ Len(queue[u]) \in Nat /\ InHand(u) \in Nat
        /\ sent[u] \in Nat /\ got[u] \in Seq(Nat) /\ Len(got[u]) <= sent[u]
    BY Counts DEF GotSent
  <2>1. CASE u # v
    BY <1>1, <2>0, <2>1, Elsewhere
  <2>2. CASE u = v
    <3>1. CASE PumpWrites(v)
      <4>1. /\ pump[v] = "write" /\ Alive(v) /\ sent' = sent
            /\ got'[v] = Append(got[v], hand[v].chunk) /\ hand[v].chunk \in Nat
        BY <3>1, <1>0 DEF PumpWrites, ServerTypes, cvars
      <4>2. Len(got'[v]) = Len(got[v]) + 1
        BY <2>0, <2>2, <4>1, Joins
      <4>3. Len(got[v]) + InHand(v) + Len(queue[v]) <= sent[v]
        BY <4>1, AliveCarried DEF Carried, Taken
      <4>4. InHand(v) = 1
        BY <4>1 DEF InHand
      <4>5. Len(got[v]) + 1 <= sent[v]
        <5> DEFINE g == Len(got[v])
                   n == Len(queue[v])
                   m == sent[v]
        <5>1. g \in Nat /\ n \in Nat /\ m \in Nat /\ g + 1 + n <= m
          BY <2>0, <2>2, <4>3, <4>4
        <5> HIDE DEF g, n, m
        <5>2. g + 1 <= m
          BY <5>1
        <5> QED BY <5>2 DEF g, m
      <4> QED BY <2>2, <4>1, <4>2, <4>5
    <3>2. CASE WriteChunk(v)
      BY <2>0, <2>2, <3>2, <1>0 DEF WriteChunk, ClientTypes, svars
    <3>3. CASE got' = got /\ sent' = sent
      BY <2>0, <3>3
    <3>4. ClientOpen(v) \/ OpenReturns(v) \/ OpenTimesOut(v) \/ AwaitWindow(v)
          \/ FinishWriting(v) \/ BridgeEnds(v) \/ ReadOpenErr(v) \/ ReadCloseFrame(v) => sent' = sent
      BY ClientIdle
    <3>5. Acquire(v) \/ ReadOpenOk(v) \/ ReadWindowUpdate(v) => sent' = sent
      BY DEF Acquire, ReadOpenOk, ReadWindowUpdate
    <3>6. ReadOpen(v) \/ DialSucceeds(v) \/ DialFails(v) \/ ReadData(v) \/ ReadClose(v) \/ UpstreamEnds(v) \/ Reclaim(v)
          \/ PumpTakes(v) \/ PumpEnds(v) \/ PumpFails(v) \/ PumpCredits(v) => got' = got /\ sent' = sent
      BY Zenon DEF ReadOpen, DialSucceeds, DialFails, ReadData, ReadClose, UpstreamEnds, Reclaim,
                   PumpTakes, PumpEnds, PumpFails, PumpCredits, cvars
    <3>7. UNCHANGED <<svars, got, shed, failed>> => got' = got
      OBVIOUS
    <3> QED BY <1>1, <3>1, <3>2, <3>3, <3>4, <3>5, <3>6, <3>7, ClientSteps, Zenon DEF StepOf
  <2> QED BY <2>1, <2>2
<1>2. CASE WakeWriter
  BY <1>2 DEF WakeWriter, GotSent
<1>3. CASE UNCHANGED ownvars
  BY <1>3 DEF ownvars, cvars, GotSent
<1> QED
  BY <1>1, <1>2, <1>3, Steps DEF GotSent

\* The two sides of the ledger.
Owed(u) == sendWindow[u] + Acquired(u) + Bytes(u, sent[u]) + credited[u] + CreditWire(u)
Covered(u) == Window + Bytes(u, Len(got[u]))

\* A step of v keeps its ledger.
LEMMA LedgerKept ==
    ASSUME Types, Types', OkOnce, Ordered, GotSent, GotSent', NEW v \in Uploads, StepOf(v),
           "ok" \in answer[v], Owed(v) <= Covered(v)
    PROVE  Owed(v)' <= Covered(v)'
<1>0. ClientTypes /\ ServerTypes /\ Window \in Nat
  BY FlowAssumption DEF Types
<1>1. /\ sendWindow[v] \in Nat /\ credited[v] \in Nat /\ Acquired(v) \in Nat /\ Held(v) \in Nat
      /\ CreditWire(v) \in Nat
  BY Amounts
<1>2. /\ sendWindow'[v] \in Nat /\ credited'[v] \in Nat /\ Acquired(v)' \in Nat
      /\ CreditWire(v)' \in Nat
  <2>1. Types' => (\A u \in Uploads :
            /\ sendWindow[u] \in Nat /\ credited[u] \in Nat /\ Queued(u) \in Nat
            /\ Acquired(u) \in Nat /\ Held(u) \in Nat
            /\ DataWire(u) \in Nat /\ CreditWire(u) \in Nat)'
    BY AmountsAll, PTL
  <2> QED BY <2>1
<1>3. /\ sent[v] \in 0 .. Len(Plan[v]) /\ Len(got[v]) \in 0 .. Len(Plan[v])
      /\ Bytes(v, sent[v]) \in Nat /\ Bytes(v, Len(got[v])) \in Nat
  <2>1. sent[v] \in Nat /\ Len(got[v]) \in Nat /\ Len(got[v]) <= sent[v] /\ sent[v] <= Len(Plan[v])
        /\ Len(Plan[v]) \in Nat
    BY Counts, WeightTypes DEF GotSent, Types, ChunksPlanned
  <2> QED BY <2>1, BytesNext
<1> DEFINE BS == Bytes(v, sent[v])
           BG == Bytes(v, Len(got[v]))
           BS2 == Bytes(v, sent'[v])
           BG2 == Bytes(v, Len(got'[v]))
<1>4. /\ sendWindow[v] + Acquired(v) + BS + credited[v] + CreditWire(v) <= Window + BG
      /\ BS \in Nat /\ BG \in Nat
  BY <1>3 DEF Owed, Covered
<1>5. SUFFICES sendWindow'[v] + Acquired(v)' + BS2 + credited'[v] + CreditWire(v)' <= Window + BG2
  BY DEF Owed, Covered, Bytes
<1>6. (sent' = sent => BS2 = BS) /\ (got' = got => BG2 = BG)
  OBVIOUS
<1> HIDE DEF BS, BG, BS2, BG2
<1>7. s2c' = s2c => CreditWire(v)' = CreditWire(v)
  BY DEF CreditWire, CreditOf, SFrame
<1>8. UNCHANGED cvars => sendWindow'[v] = sendWindow[v] /\ Acquired(v)' = Acquired(v) /\ BS2 = BS
  BY <1>6, ClientIdle
<1>9. UNCHANGED <<svars, got, shed, failed>> => credited'[v] = credited[v] /\ BG2 = BG
  BY <1>6, ServerIdle
<1>10. CASE Acquire(v)
  <2>1. s2c' = s2c /\ UNCHANGED <<svars, got, shed, failed>>
    BY <1>10 DEF Acquire
  <2>2. /\ sendWindow'[v] + NextSize(v) = sendWindow[v] /\ Acquired(v) = 0
        /\ Acquired(v)' = NextSize(v) /\ BS2 = BS
    BY <1>10, <1>6, OwnMoves
  <2> QED BY <1>0, <1>1, <1>2, <1>4, <1>7, <1>9, <2>1, <2>2
<1>11. CASE WriteChunk(v)
  <2>1. s2c' = s2c /\ UNCHANGED <<svars, got, shed, failed>>
    BY <1>11 DEF WriteChunk
  <2>2. /\ Acquired(v) = NextSize(v) /\ Acquired(v)' = 0 /\ sendWindow'[v] = sendWindow[v]
        /\ sent'[v] = sent[v] + 1
    BY <1>11, OwnMoves
  <2>3. sent[v] < Len(Plan[v])
    BY <1>11 DEF WriteChunk, Types, ChunksPlanned
  <2>4. BS2 = BS + NextSize(v)
    BY <1>3, <2>2, <2>3, BytesNext DEF BS, BS2, NextSize, Size
  <2> QED BY <1>0, <1>1, <1>2, <1>4, <1>7, <1>9, <2>1, <2>2, <2>4
<1>12. CASE ReadWindowUpdate(v)
  <2> DEFINE n == Head(s2c).val
  <2>1. UNCHANGED <<svars, got, shed, failed>>
    BY <1>12 DEF ReadWindowUpdate
  <2>2. /\ sendWindow'[v] = sendWindow[v] + n \/ sendWindow'[v] = sendWindow[v]
        /\ Acquired(v)' = Acquired(v) /\ BS2 = BS
    BY <1>12, <1>6, OwnMoves
  <2>3. CreditWire(v)' = CreditWire(v) - n
    BY <1>12, CreditWireStep
  <2>4. n \in Nat
    BY <1>12, ChunkRead DEF ReadWindowUpdate
  <2> HIDE DEF n
  <2> QED BY <1>0, <1>1, <1>2, <1>4, <1>9, <2>1, <2>2, <2>3, <2>4
<1>13. CASE PumpWrites(v)
  <2>1. s2c' = s2c /\ UNCHANGED cvars
    BY <1>13 DEF PumpWrites
  <2>2. credited'[v] = credited[v] + Held(v)
    BY <1>13, OwnMoves
  <2>3. /\ pump[v] = "write" /\ Alive(v) /\ hand[v].chunk \in Nat
        /\ got'[v] = Append(got[v], hand[v].chunk) /\ got[v] \in Seq(Nat)
    BY <1>0, <1>13 DEF PumpWrites, ServerTypes
  <2>4. hand[v].chunk = Len(got[v]) + 1
    BY <2>3, AliveCarried DEF Carried
  <2>5. Len(got'[v]) = Len(got[v]) + 1
    BY <2>3, Joins
  <2>6. Held(v) = Plan[v][Len(got[v]) + 1]
    BY <2>3, <2>4 DEF Held, Size
  <2>7. hand[v].chunk \in 1 .. Len(Plan[v])
    BY <2>3 DEF Types, ChunksPlanned
  <2>8. Len(got[v]) < Len(Plan[v])
    BY <1>3, <2>4, <2>7
  <2>9. BG2 = BG + Held(v)
    BY <1>3, <2>5, <2>6, <2>8, BytesNext DEF BG, BG2
  <2> QED BY <1>0, <1>1, <1>2, <1>4, <1>7, <1>8, <2>1, <2>2, <2>9
<1>14. CASE PumpCredits(v)
  <2>1. UNCHANGED cvars /\ got' = got
    BY <1>14, Zenon DEF PumpCredits
  <2> DEFINE c == IF CreditDue(v) THEN credited[v] ELSE 0
  <2>2. credited'[v] + c = credited[v]
    BY <1>14, OwnMoves
  <2>3. CreditWire(v)' = CreditWire(v) + c
    BY <1>14, CreditWireStep
  <2>5. c \in Nat
    BY <1>1
  <2> HIDE DEF c
  <2> QED BY <1>0, <1>1, <1>2, <1>4, <1>6, <1>8, <2>1, <2>2, <2>3, <2>5
<1>15. ASSUME ~PumpCredits(v), ~ReadWindowUpdate(v)
       PROVE  CreditWire(v)' = CreditWire(v)
  BY <1>15, CreditWireStep
<1>16. ASSUME ~PumpCredits(v), ~ReadWindowUpdate(v),
              \/ ClientOpen(v) \/ OpenReturns(v) \/ OpenTimesOut(v) \/ AwaitWindow(v)
              \/ FinishWriting(v) \/ BridgeEnds(v) \/ ReadOpenErr(v) \/ ReadCloseFrame(v)
       PROVE  sendWindow'[v] + Acquired(v)' + BS2 + credited'[v] + CreditWire(v)' <= Window + BG2
  <2>1. sendWindow'[v] = sendWindow[v] /\ Acquired(v)' = Acquired(v) /\ sent' = sent
    BY <1>16, ClientIdle
  <2>2. UNCHANGED <<svars, got, shed, failed>>
    BY <1>16, ClientSteps
  <2> QED BY <1>4, <1>6, <1>9, <1>15, <1>16, <2>1, <2>2
<1>17. ASSUME ReadOpenOk(v) PROVE FALSE
  BY <1>17, FirstFrame DEF ReadOpenOk, OkOnce
<1>18. ASSUME ~PumpCredits(v), ~ReadWindowUpdate(v),
              \/ ReadOpen(v) \/ DialSucceeds(v) \/ DialFails(v) \/ ReadData(v) \/ ReadClose(v)
              \/ UpstreamEnds(v) \/ Reclaim(v) \/ PumpTakes(v) \/ PumpEnds(v) \/ PumpFails(v)
       PROVE  sendWindow'[v] + Acquired(v)' + BS2 + credited'[v] + CreditWire(v)' <= Window + BG2
  <2>1. UNCHANGED cvars
    BY <1>18, ServerSteps
  <2>2. credited' = credited /\ got' = got
    BY <1>18, Zenon DEF ReadOpen, DialSucceeds, DialFails, ReadData, ReadClose, UpstreamEnds, Reclaim,
                        PumpTakes, PumpEnds, PumpFails
  <2> QED BY <1>4, <1>6, <1>8, <1>15, <1>18, <2>1, <2>2
<1> QED
  BY <1>10, <1>11, <1>12, <1>13, <1>14, <1>16, <1>17, <1>18, Zenon DEF StepOf

\* The ledger of every upload is kept.
LEMMA LedgerStep ==
    ASSUME Types, Types', OkOnce, Silent, Ordered, GotSent, GotSent', Ledger, [Next]_vars
    PROVE  Ledger'
<1>0. ClientTypes
  BY DEF Types
<1>1. ASSUME NEW v \in Uploads, StepOf(v), NEW u \in Uploads, "ok" \in answer'[u]
      PROVE  Owed(u)' <= Covered(u)'
  <2>1. CASE "ok" \notin answer[u]
    <3>1. u = v /\ ReadOpenOk(v) /\ v \in known
      BY <1>1, <2>1, AnswerStep
    <3>2. Head(s2c).val = Window
      BY <3>1, FirstFrame DEF ReadOpenOk, OkOnce
    <3>3. /\ sendWindow'[v] = Window /\ cpc' = cpc /\ sent' = sent
          /\ UNCHANGED <<svars, got, shed, failed>>
      BY <3>1, <3>2, <1>0 DEF ReadOpenOk, ClientTypes
    <3>4. credited[u] = 0 /\ CreditWire(u) = 0 /\ cpc[u] # "write" /\ sent[u] = 0 /\ got[u] = <<>>
      BY <2>1, SilentZero DEF Silent
    <3>5. Acquired(u)' = 0 /\ credited'[u] = 0
      BY <3>3, <3>4 DEF Acquired, svars
    <3>6. CreditWire(u)' = 0
      <4>1. ~PumpCredits(v)
        BY <2>1, <3>1, Zenon DEF PumpCredits, Silent
      <4>2. ~ReadWindowUpdate(v)
        BY <3>1 DEF ReadOpenOk, ReadWindowUpdate, ReadsFrame
      <4>3. StepOf(v)
        BY <1>1
      <4> QED BY <3>4, <4>1, <4>2, <4>3, CreditWireStep
    <3>7. sent'[u] = 0 /\ Len(got'[u]) = 0
      BY <3>3, <3>4
    <3>8. Bytes(u, 0) \in Nat /\ Window \in Nat
      BY BytesNext, WeightTypes, FlowAssumption
    <3>9. Owed(u)' = Window + 0 + Bytes(u, 0) + 0 + 0
      BY <3>1, <3>3, <3>5, <3>6, <3>7 DEF Owed, Bytes
    <3>10. Covered(u)' = Window + Bytes(u, 0)
      BY <3>7 DEF Covered, Bytes
    <3> QED BY <3>8, <3>9, <3>10
  <2>2. CASE "ok" \in answer[u]
    <3>1. Owed(u) <= Covered(u)
      BY <2>2 DEF Ledger, Owed, Covered
    <3>2. CASE u = v
      BY <1>1, <2>2, <3>1, <3>2, LedgerKept
    <3>3. CASE u # v
      <4>1. sendWindow'[u] = sendWindow[u] /\ sent'[u] = sent[u] /\ credited'[u] = credited[u]
            /\ got'[u] = got[u]
        BY <1>1, <3>3, Elsewhere
      <4>2. Acquired(u)' = Acquired(u) /\ CreditWire(u)' = CreditWire(u)
        BY <1>1, <3>3, SumElsewhere
      <4> QED BY <3>1, <4>1, <4>2 DEF Owed, Covered, Bytes
    <3> QED BY <3>2, <3>3
  <2> QED BY <2>1, <2>2
<1>2. ASSUME UNCHANGED <<answer, sendWindow, sent, credited, got, s2c>>,
             \A u \in Uploads : cpc'[u] = "write" <=> cpc[u] = "write"
      PROVE  Ledger'
  <2>1. \A u \in Uploads : Acquired(u)' = Acquired(u) /\ CreditWire(u)' = CreditWire(u)
    BY <1>2 DEF Acquired, NextSize, CreditWire, CreditOf, SFrame
  <2> QED BY <1>2, <2>1 DEF Ledger, Bytes
<1>3. CASE WakeWriter
  BY <1>0, <1>2, <1>3 DEF WakeWriter, Unpark, svars, ClientTypes
<1>4. CASE UNCHANGED ownvars
  BY <1>2, <1>4 DEF ownvars, cvars, svars
<1>5. (\A u \in Uploads : "ok" \in answer[u] => Owed(u) <= Covered(u))' => Ledger'
  BY DEF Ledger, Owed, Covered
<1> QED
  BY <1>1, <1>3, <1>4, <1>5, Steps

-----------------------------------------------------------------------------
(* The refinement *)

\* The invariant behind the refinement of Upload.
UploadInv == WindowInv /\ Ordered /\ GotSent /\ Ledger

\* It holds of every state.
THEOREM UploadInvHolds == Spec => []UploadInv
<1>1. Init => Ordered /\ GotSent /\ Ledger
  BY DEF Init, Ordered, GotSent, Ledger
<1>2. UploadInv /\ WindowInv' /\ [Next]_vars => Ordered' /\ GotSent' /\ Ledger'
  <2>1. SUFFICES ASSUME UploadInv, WindowInv', [Next]_vars
                 PROVE  Ordered' /\ GotSent' /\ Ledger'
    OBVIOUS
  <2> USE <2>1 DEF UploadInv, WindowInv
  <2>2. Ordered' /\ GotSent'
    BY OrderedStep, GotSentStep
  <2>3. Ledger'
    BY <2>2, LedgerStep
  <2> QED BY <2>2, <2>3
<1> QED
  BY <1>1, <1>2, WindowInvHolds, PTL DEF Spec, UploadInv

\* The client's writer and window, the two wires, and the server's queue, pump and
\* credit implement Upload: chunks reach the upstream in order, each once, none
\* skipped, never more than a window ahead, and none after the stream has ended.
THEOREM RefinesUploadHolds == Spec => RefinesUpload
<1> DEFINE Over == {u \in Uploads : stream[u] = "closed"}
<1>1. Init => Promise!Init
  <2>1. SUFFICES ASSUME Init PROVE Promise!Init
    OBVIOUS
  <2>2. Over = {}
    BY <2>1 DEF Init
  <2> QED BY <2>1, <2>2 DEF Init, Promise!Init
<1>2. UploadInv /\ [Next]_vars => [Promise!Next]_(Promise!uvars)
  <2>1. SUFFICES ASSUME UploadInv, [Next]_vars PROVE [Promise!Next]_(Promise!uvars)
    OBVIOUS
  <2>0. Types /\ OpenOnce /\ PumpStarted /\ Silent /\ Ordered /\ GotSent /\ Ledger
        /\ ClientTypes /\ ServerTypes /\ Window \in Nat
    BY <2>1, FlowAssumption DEF UploadInv, WindowInv, Types
  <2>2. ASSUME sent' = sent, got' = got, Over' = Over
        PROVE  [Promise!Next]_(Promise!uvars)
    BY <2>2 DEF Promise!uvars
  <2>3. ASSUME NEW v \in Uploads, sent' = sent, got' = got, Over' = Over \cup {v}
        PROVE  [Promise!Next]_(Promise!uvars)
    <3>1. Promise!End(v)
      BY <2>3 DEF Promise!End
    <3> QED BY <3>1 DEF Promise!Next
  <2>4. ASSUME NEW v \in Uploads, StepOf(v)
        PROVE  Over' = Over \/ Over' = Over \cup {v}
    <3>1. \/ stream' = stream
          \/ \E how \in {"dialing", "open", "dropping", "closing"} : stream' = [stream EXCEPT ![v] = how]
          \/ stream' = [stream EXCEPT ![v] = "closed"]
      BY <2>0, <2>4, StreamStep
    <3>2. stream[v] = "closed" => stream'[v] = "closed"
      BY <2>0, <2>4, StreamFrom
    <3> QED BY <2>0, <3>1, <3>2 DEF ServerTypes
  <2>5. ASSUME NEW v \in Uploads, WriteChunk(v)
        PROVE  [Promise!Next]_(Promise!uvars)
    <3>1. /\ cpc[v] = "write" /\ sent' = [sent EXCEPT ![v] = @ + 1] /\ got' = got /\ stream' = stream
      BY <2>5 DEF WriteChunk, svars
    <3>2. sent[v] < Len(Plan[v]) /\ sent[v] \in 0 .. Len(Plan[v])
      BY <2>0, <3>1, WeightTypes DEF Types, ChunksPlanned, ClientTypes
    <3>3. "ok" \in answer[v]
      BY <2>0, <3>1 DEF Silent
    <3>4. sendWindow[v] + Acquired(v) + Bytes(v, sent[v]) + credited[v] + CreditWire(v)
              <= Window + Bytes(v, Len(got[v]))
      BY <2>0, <3>3 DEF Ledger
    <3>5. /\ sendWindow[v] \in Nat /\ credited[v] \in Nat /\ CreditWire(v) \in Nat
          /\ Acquired(v) \in Nat
      BY <2>0, Amounts
    <3>6. Acquired(v) = Plan[v][sent[v] + 1]
      BY <3>1 DEF Acquired, NextSize, Size
    <3>7. Len(got[v]) \in 0 .. Len(Plan[v])
      BY <2>0, <3>2, Counts, WeightTypes DEF GotSent
    <3>8. Bytes(v, Len(got[v])) \in Nat /\ Bytes(v, sent[v]) \in Nat
      BY <3>2, <3>7, BytesNext
    <3>9. Bytes(v, sent[v] + 1) = Bytes(v, sent[v]) + Acquired(v)
      BY <3>2, <3>6, BytesNext
    <3>10. Bytes(v, sent[v] + 1) - Bytes(v, Len(got[v])) <= Window
      BY <2>0, <3>4, <3>5, <3>8, <3>9
    <3>11. Promise!Bytes(v, sent[v] + 1) - Promise!Bytes(v, Len(got[v])) <= Window
      <4>1. \A n : Promise!Bytes(v, n) = Bytes(v, n)
        BY Zenon DEF Promise!Bytes, Promise!TotalOn, Promise!Total, Promise!Cells, Promise!Cardinality,
                     Bytes, TotalOn, Total, Cells, Cardinality
      <4> QED BY <3>10, <4>1
    <3>12. Promise!Send(v)
      BY <3>1, <3>2, <3>11 DEF Promise!Send
    <3> QED BY <3>12 DEF Promise!Next
  <2>6. ASSUME NEW v \in Uploads, PumpWrites(v)
        PROVE  [Promise!Next]_(Promise!uvars)
    <3>1. /\ pump[v] = "write" /\ Alive(v) /\ stream' = stream /\ sent' = sent
          /\ got' = [got EXCEPT ![v] = Append(@, hand[v].chunk)]
      BY <2>6 DEF PumpWrites, cvars
    <3>2. hand[v].chunk = Len(got[v]) + 1 /\ Taken(v) <= sent[v] /\ stream[v] # "closed"
      BY <2>0, <3>1, AliveCarried DEF Carried, Alive
    <3>3. Len(got[v]) < sent[v]
      <4>1. InHand(v) = 1 /\ Taken(v) = Len(got[v]) + InHand(v) + Len(queue[v])
        BY <3>1 DEF InHand, Taken
      <4>2. Len(got[v]) \in Nat /\ Len(queue[v]) \in Nat /\ sent[v] \in Nat
        BY <2>0, Counts
      <4> DEFINE g == Len(got[v])
                 n == Len(queue[v])
                 m == sent[v]
      <4>3. g \in Nat /\ n \in Nat /\ m \in Nat /\ g + 1 + n <= m
        BY <3>2, <4>1, <4>2
      <4> HIDE DEF g, n, m
      <4>4. g < m
        BY <4>3
      <4> QED BY <4>4 DEF g, m
    <3>4. got' = [got EXCEPT ![v] = Append(@, Len(@) + 1)]
      BY <2>0, <3>1, <3>2 DEF ServerTypes
    <3>5. Promise!Deliver(v)
      BY <3>1, <3>2, <3>3, <3>4 DEF Promise!Deliver
    <3> QED BY <3>5 DEF Promise!Next
  <2>7. ASSUME NEW v \in Uploads, StepOf(v), ~WriteChunk(v), ~PumpWrites(v)
        PROVE  sent' = sent /\ got' = got
    <3>1. UNCHANGED cvars => sent' = sent
      BY DEF cvars
    <3>2. ClientOpen(v) \/ OpenReturns(v) \/ OpenTimesOut(v) \/ AwaitWindow(v)
          \/ FinishWriting(v) \/ BridgeEnds(v) \/ ReadOpenErr(v) \/ ReadCloseFrame(v) => sent' = sent
      BY <2>0, ClientIdle
    <3>3. Acquire(v) \/ ReadOpenOk(v) \/ ReadWindowUpdate(v) => sent' = sent
      BY DEF Acquire, ReadOpenOk, ReadWindowUpdate
    <3>4. ReadOpen(v) \/ DialSucceeds(v) \/ DialFails(v) \/ ReadData(v) \/ ReadClose(v)
          \/ UpstreamEnds(v) \/ Reclaim(v) \/ PumpTakes(v) \/ PumpEnds(v) \/ PumpFails(v) \/ PumpCredits(v)
              => got' = got
      BY Zenon DEF ReadOpen, DialSucceeds, DialFails, ReadData, ReadClose, UpstreamEnds, Reclaim,
                   PumpTakes, PumpEnds, PumpFails, PumpCredits
    <3>5. UNCHANGED <<svars, got, shed, failed>> => got' = got
      OBVIOUS
    <3> QED BY <2>7, <3>1, <3>2, <3>3, <3>4, <3>5, ClientSteps, ServerSteps, Zenon DEF StepOf
  <2>8. ASSUME NEW v \in Uploads, StepOf(v)
        PROVE  [Promise!Next]_(Promise!uvars)
    BY <2>2, <2>3, <2>4, <2>5, <2>6, <2>7, <2>8, Zenon
  <2>9. CASE WakeWriter
    BY <2>2, <2>9 DEF WakeWriter, svars
  <2>10. CASE UNCHANGED ownvars
    BY <2>2, <2>10 DEF ownvars, cvars, svars
  <2> QED BY <2>1, <2>8, <2>9, <2>10, Steps
<1> QED
  BY <1>1, <1>2, UploadInvHolds, PTL DEF Spec, RefinesUpload, Promise!Spec

=============================================================================
