------------------------ MODULE ClientSessionProofs -------------------------
(***************************************************************************)
(* That a download is whole, for every number of streams, every length of  *)
(* the upstreams and every capacity of channels and connection: the local  *)
(* application receives the upstream's chunks in order and without a gap,  *)
(* and an end of the stream it did not ask for is the upstream's, unless   *)
(* the server gave the stream up (a failed write to the upstream, a shed). *)
(*                                                                         *)
(* The chunks of a stream are numbered, and Flow says where they are: the  *)
(* application has the first, the channel of the stream the following, the *)
(* read loop's hand the next, DATA frames on the connection the ones after *)
(* that up to the last the server wrote.  Nothing of this is lost because  *)
(* a stream is taken out of the map, or marked closed, only behind all its *)
(* DATA (Silent, Behind, Unlisted), or when the stream or the session      *)
(* fails.  Behind a CLOSE in mid-download chunks are skipped: Listening    *)
(* ends there, and what is in the channel stays without a gap.  Ended      *)
(* relates the end of the server's reader to its causes; Opening says that *)
(* an id is opened once.                                                   *)
(***************************************************************************)
EXTENDS ClientSession, SequenceTheorems, TLAPS

Downstream ==
    {Data(u, k) : u \in Streams, k \in Nat}
        \cup {Frame(t, u) : t \in {"OPEN_OK", "CLOSE"}, u \in Streams}
        \cup {[type |-> "PING"]}
Upstream ==
    {Frame(t, u) : t \in {"OPEN", "CLOSE"}, u \in Streams} \cup {[type |-> "PONG"]}

Types ==
    /\ wire \in {"up", "cut", "closed"}
    /\ s2c \in Seq(Downstream) /\ c2s \in Seq(Upstream)
    /\ srv \in [Streams -> {"none", "dialing", "open", "closed"}]
    /\ reader \in [Streams -> {"idle", "check", "read", "write", "left", "exit"}]
    /\ taken \in [Streams -> Nat]
    /\ loop \in {"read", "deliver", "pong", "close", "exit"}
    /\ loop = "deliver" => \E u \in Streams, k \in Nat : held = Data(u, k)
    /\ known \subseteq Streams /\ marked \subseteq Streams
    /\ shed \subseteq Streams /\ failed \subseteq Streams
    /\ incoming \in [Streams -> Seq(Nat)]
    /\ copier \in [Streams -> {"idle", "stored", "opening", "failed", "copy", "gone", "eof"}]
    /\ bridge \in [Streams -> {"idle", "read", "parked", "done"}]
    /\ seen \in [Streams -> Seq(Nat)]

\* Frame f is among those on their way; the chunks of u among them are the ones
\* after lo up to hi; and they are in order.
Has(q, f) == \E i \in DOMAIN q : q[i] = f
Between(q, u, lo, hi) == \A k \in Nat : Has(q, Data(u, k)) <=> lo < k /\ k <= hi
Rising(q, u) ==
    \A i, j \in DOMAIN q : \A k, m \in Nat :
        i < j /\ q[i] = Data(u, k) /\ q[j] = Data(u, m) => k < m

\* The stream may yet have its chunks received.
Alive(u) == copier[u] \in {"idle", "stored", "opening", "copy"}

\* And no chunk of it is being skipped behind a CLOSE in mid-download.
Listening(u) == Alive(u) /\ (u \in failed => u \notin marked)

InHand(u) == loop = "deliver" /\ held.id = u
Got(u) == Len(seen[u]) + Len(incoming[u])
Arrived(u) == IF InHand(u) THEN Got(u) + 1 ELSE Got(u)
Written(u) == IF reader[u] = "write" THEN taken[u] - 1 ELSE taken[u]

\* Where the chunks of a stream are.
Flow(u) ==
    /\ \A i \in 1 .. Len(seen[u]) : seen[u][i] = i
    /\ Alive(u) => \A i \in 1 .. Len(incoming[u]) : incoming[u][i] = Len(seen[u]) + i
    /\ Listening(u) =>
           /\ InHand(u) => held.chunk = Got(u) + 1
           /\ \E w \in Nat :
                  /\ Arrived(u) <= w
                  /\ wire = "up" => w = Written(u)
                  /\ Between(s2c, u, Arrived(u), w)
           /\ Rising(s2c, u)

\* No chunk of the stream is on its way any more.
Silent(u) == ~InHand(u) /\ \A k \in Nat : ~Has(s2c, Data(u, k))

\* CLOSE is behind the stream's last chunk, unless the server gave the stream up.
Behind(u) ==
    u \notin failed => \A i \in DOMAIN s2c : s2c[i] = Frame("CLOSE", u) =>
        reader[u] = "exit" /\ \A j \in DOMAIN s2c : \A k \in Nat : s2c[j] = Data(u, k) => j < i

\* When a stream is not in the map, or marked closed.
Unlisted(u) ==
    /\ Alive(u) /\ u \notin known => copier[u] = "idle" \/ u \in marked
    /\ u \in marked /\ loop \notin {"close", "exit"} =>
           /\ u \notin known /\ ~InHand(u)
           /\ u \notin failed => reader[u] = "exit" /\ Silent(u)

\* An id is opened once, and has no chunks before.
Opening(u) ==
    /\ copier[u] = "idle" => u \notin known /\ u \notin marked
    /\ copier[u] \in {"idle", "stored"} => reader[u] \in {"idle", "exit"} /\ Silent(u)
    /\ copier[u] \in {"idle", "stored", "opening", "failed"} => bridge[u] = "idle"
    /\ wire = "up" =>
           /\ copier[u] \in {"idle", "stored"} => srv[u] = "none" /\ ~Has(c2s, Frame("OPEN", u))
           /\ srv[u] \in {"none", "dialing"} => reader[u] = "idle"
           /\ Has(c2s, Frame("OPEN", u)) => srv[u] = "none"
           /\ u \in shed => srv[u] \in {"open", "closed"}
           /\ \A i, j \in DOMAIN c2s :
                  c2s[i] = Frame("OPEN", u) /\ c2s[j] = Frame("OPEN", u) => i = j

\* Why the server's reader ended, and the application's.
Ended(u) ==
    /\ wire = "up" =>
           /\ Has(c2s, Frame("CLOSE", u)) => bridge[u] = "done"
           /\ srv[u] = "closed" \/ reader[u] = "exit" =>
                  bridge[u] = "done" \/ taken[u] = Down[u] \/ u \in failed
    /\ copier[u] = "eof" /\ wire = "up" /\ bridge[u] # "done" /\ u \notin failed =>
           Len(seen[u]) = Down[u]

SessionInv ==
    /\ Types
    /\ loop \in {"close", "exit"} => wire # "up"
    /\ \A u \in Streams : Flow(u) /\ Behind(u) /\ Unlisted(u) /\ Opening(u) /\ Ended(u)

-----------------------------------------------------------------------------
(* Frames, and sequences of them *)

\* What a frame is made of.
LEMMA FrameFields ==
    ASSUME NEW u, NEW k, NEW t
    PROVE  /\ Data(u, k).type = "DATA" /\ Data(u, k).id = u /\ Data(u, k).chunk = k
           /\ Frame(t, u).type = t /\ Frame(t, u).id = u
BY DEF Data, Frame

\* A frame from the server is told by its type.
LEMMA DownstreamKinds ==
    ASSUME NEW f \in Downstream
    PROVE  /\ f.type = "DATA" => \E u \in Streams, k \in Nat : f = Data(u, k)
           /\ f.type = "CLOSE" => \E u \in Streams : f = Frame("CLOSE", u)
           /\ f.type = "OPEN_OK" => \E u \in Streams : f = Frame("OPEN_OK", u)
<1>1. CASE \E u \in Streams, k \in Nat : f = Data(u, k)
  BY <1>1, FrameFields
<1>2. CASE \E t \in {"OPEN_OK", "CLOSE"}, u \in Streams : f = Frame(t, u)
  BY <1>2, FrameFields
<1>3. CASE f = [type |-> "PING"]
  <2>1. f.type = "PING"
    BY <1>3
  <2> QED BY <2>1
<1> QED BY <1>1, <1>2, <1>3 DEF Downstream

\* One more frame.
LEMMA HasAppend ==
    ASSUME NEW S, NEW q \in Seq(S), NEW f \in S
    PROVE  /\ Append(q, f) \in Seq(S) /\ Len(q) \in Nat
           /\ DOMAIN q = 1 .. Len(q) /\ DOMAIN Append(q, f) = 1 .. Len(q) + 1
           /\ \A i \in 1 .. Len(q) : Append(q, f)[i] = q[i]
           /\ Append(q, f)[Len(q) + 1] = f
           /\ \A g : Has(Append(q, f), g) <=> Has(q, g) \/ g = f
<1> DEFINE p == Append(q, f)
<1>1. /\ p \in Seq(S) /\ Len(q) \in Nat
      /\ DOMAIN q = 1 .. Len(q) /\ DOMAIN p = 1 .. Len(q) + 1
      /\ \A i \in 1 .. Len(q) : p[i] = q[i]
      /\ p[Len(q) + 1] = f
  OBVIOUS
<1> HIDE DEF p
<1>2. ASSUME NEW g PROVE Has(p, g) <=> Has(q, g) \/ g = f
  <2>1. \A i \in 1 .. Len(q) + 1 : i \in 1 .. Len(q) \/ i = Len(q) + 1
    BY <1>1
  <2>2. Has(p, g) => Has(q, g) \/ g = f
    BY <1>1, <2>1 DEF Has
  <2>3. Has(q, g) => Has(p, g)
    BY <1>1 DEF Has
  <2>4. g = f => Has(p, g)
    BY <1>1 DEF Has
  <2> QED BY <2>2, <2>3, <2>4
<1> QED BY <1>1, <1>2 DEF p

\* One frame less.
LEMMA HasTail ==
    ASSUME NEW S, NEW q \in Seq(S), q # <<>>
    PROVE  /\ Tail(q) \in Seq(S) /\ Len(q) \in Nat \ {0} /\ Head(q) \in S
           /\ DOMAIN q = 1 .. Len(q) /\ DOMAIN Tail(q) = 1 .. Len(q) - 1
           /\ \A i \in 1 .. Len(q) - 1 : Tail(q)[i] = q[i + 1]
           /\ Head(q) = q[1]
           /\ \A g : Has(q, g) <=> Has(Tail(q), g) \/ g = Head(q)
<1> DEFINE p == Tail(q)
<1>1. /\ p \in Seq(S) /\ Len(q) \in Nat \ {0} /\ Head(q) \in S
      /\ DOMAIN q = 1 .. Len(q) /\ DOMAIN p = 1 .. Len(q) - 1
      /\ \A i \in 1 .. Len(q) - 1 : p[i] = q[i + 1]
      /\ Head(q) = q[1]
  <2>1. Len(q) \in Nat \ {0}
    BY EmptySeq
  <2> QED BY <2>1, HeadTailProperties
<1> HIDE DEF p
<1>2. ASSUME NEW g PROVE Has(q, g) <=> Has(p, g) \/ g = Head(q)
  <2>1. \A i \in 1 .. Len(q) : i = 1 \/ (i - 1 \in 1 .. Len(q) - 1 /\ p[i - 1] = q[i])
    BY <1>1
  <2>2. Has(q, g) => Has(p, g) \/ g = Head(q)
    BY <1>1, <2>1 DEF Has
  <2>3. Has(p, g) => Has(q, g)
    BY <1>1 DEF Has
  <2>4. g = Head(q) => Has(q, g)
    BY <1>1 DEF Has
  <2> QED BY <2>2, <2>3, <2>4
<1> QED BY <1>1, <1>2 DEF p

\* Frames that are no chunk of u do not touch its chunks.
LEMMA AppendOther ==
    ASSUME NEW S, NEW q \in Seq(S), NEW f \in S, NEW u, \A k \in Nat : f # Data(u, k)
    PROVE  /\ \A k \in Nat : Has(Append(q, f), Data(u, k)) <=> Has(q, Data(u, k))
           /\ Rising(q, u) => Rising(Append(q, f), u)
<1> DEFINE p == Append(q, f)
<1>1. /\ Len(q) \in Nat /\ DOMAIN q = 1 .. Len(q) /\ DOMAIN p = 1 .. Len(q) + 1
      /\ \A i \in 1 .. Len(q) : p[i] = q[i]
      /\ p[Len(q) + 1] = f
      /\ \A g : Has(p, g) <=> Has(q, g) \/ g = f
  BY HasAppend
<1> HIDE DEF p
<1>2. ASSUME NEW i \in DOMAIN p, NEW k \in Nat, p[i] = Data(u, k) PROVE i \in DOMAIN q /\ q[i] = p[i]
  BY <1>1, <1>2
<1>3. Rising(q, u) => Rising(p, u)
  BY <1>2 DEF Rising
<1> QED BY <1>1, <1>3 DEF p

\* The same for the oldest.
LEMMA TailOther ==
    ASSUME NEW S, NEW q \in Seq(S), q # <<>>, NEW u
    PROVE  /\ Rising(q, u) => Rising(Tail(q), u)
           /\ (\A k \in Nat : Head(q) # Data(u, k)) =>
                  \A k \in Nat : Has(Tail(q), Data(u, k)) <=> Has(q, Data(u, k))
<1> DEFINE p == Tail(q)
<1>1. /\ Len(q) \in Nat \ {0} /\ DOMAIN q = 1 .. Len(q) /\ DOMAIN p = 1 .. Len(q) - 1
      /\ \A i \in 1 .. Len(q) - 1 : p[i] = q[i + 1]
      /\ \A g : Has(q, g) <=> Has(p, g) \/ g = Head(q)
  BY HasTail
<1> HIDE DEF p
<1>2. ASSUME Rising(q, u),
             NEW i \in DOMAIN p, NEW j \in DOMAIN p, NEW k \in Nat, NEW m \in Nat,
             i < j, p[i] = Data(u, k), p[j] = Data(u, m)
      PROVE  k < m
  <2>1. i + 1 \in DOMAIN q /\ j + 1 \in DOMAIN q /\ i + 1 < j + 1 /\ q[i + 1] = p[i] /\ q[j + 1] = p[j]
    BY <1>1, <1>2
  <2> QED BY <1>2, <2>1 DEF Rising
<1>3. Rising(q, u) => Rising(p, u)
  BY <1>2 DEF Rising
<1> QED BY <1>1, <1>3 DEF p

\* The server writes the next chunk.
LEMMA AppendNext ==
    ASSUME NEW S, NEW q \in Seq(S), NEW u, NEW lo \in Nat, NEW hi \in Nat, lo <= hi,
           Data(u, hi + 1) \in S, Between(q, u, lo, hi), Rising(q, u)
    PROVE  Between(Append(q, Data(u, hi + 1)), u, lo, hi + 1) /\ Rising(Append(q, Data(u, hi + 1)), u)
<1> DEFINE f == Data(u, hi + 1)
           p == Append(q, f)
<1>1. /\ Len(q) \in Nat /\ DOMAIN q = 1 .. Len(q) /\ DOMAIN p = 1 .. Len(q) + 1
      /\ \A i \in 1 .. Len(q) : p[i] = q[i]
      /\ p[Len(q) + 1] = f
      /\ \A g : Has(p, g) <=> Has(q, g) \/ g = f
  BY HasAppend
<1>2. \A k \in Nat : Data(u, k) = f <=> k = hi + 1
  BY FrameFields
<1> HIDE DEF p, f
<1>3. Between(p, u, lo, hi + 1)
  BY <1>1, <1>2 DEF Between
<1>4. ASSUME NEW i \in DOMAIN p, NEW j \in DOMAIN p, NEW k \in Nat, NEW m \in Nat,
             i < j, p[i] = Data(u, k), p[j] = Data(u, m)
      PROVE  k < m
  <2>1. i \in DOMAIN q /\ q[i] = Data(u, k)
    BY <1>1, <1>4
  <2>2. CASE j \in DOMAIN q
    BY <1>1, <1>4, <2>1, <2>2 DEF Rising
  <2>3. CASE j = Len(q) + 1
    <3>1. m = hi + 1
      BY <1>1, <1>2, <1>4, <2>3
    <3>2. k <= hi
      BY <2>1 DEF Between, Has
    <3> QED BY <3>1, <3>2
  <2> QED BY <1>1, <1>4, <2>2, <2>3
<1> QED BY <1>3, <1>4 DEF Rising, p, f

\* The client reads one, and it is the next.
LEMMA TailFirst ==
    ASSUME NEW S, NEW q \in Seq(S), q # <<>>, NEW u, NEW lo \in Nat, NEW hi \in Nat,
           NEW k \in Nat, Head(q) = Data(u, k), Between(q, u, lo, hi), Rising(q, u)
    PROVE  k = lo + 1 /\ k <= hi /\ Between(Tail(q), u, lo + 1, hi)
<1> DEFINE p == Tail(q)
<1>1. /\ Len(q) \in Nat \ {0} /\ DOMAIN q = 1 .. Len(q) /\ DOMAIN p = 1 .. Len(q) - 1
      /\ \A i \in 1 .. Len(q) - 1 : p[i] = q[i + 1]
      /\ \A g : Has(q, g) <=> Has(p, g) \/ g = Head(q)
      /\ q[1] = Head(q)
  BY HasTail
<1> HIDE DEF p
<1>2. lo < k /\ k <= hi
  BY <1>1 DEF Between
<1>3. ASSUME NEW m \in Nat, Has(p, Data(u, m)) PROVE k < m
  <2>1. PICK i \in DOMAIN p : p[i] = Data(u, m)
    BY <1>3 DEF Has
  <2>2. i + 1 \in DOMAIN q /\ 1 \in DOMAIN q /\ 1 < i + 1 /\ q[i + 1] = Data(u, m)
    BY <1>1, <2>1
  <2> QED BY <1>1, <2>2 DEF Rising
<1>4. k = lo + 1
  <2>1. Has(q, Data(u, lo + 1))
    BY <1>2 DEF Between
  <2>2. CASE Data(u, lo + 1) = Head(q)
    BY <2>2, FrameFields
  <2>3. CASE Has(p, Data(u, lo + 1))
    BY <1>2, <1>3, <2>3
  <2> QED BY <1>1, <2>1, <2>2, <2>3
<1>5. ASSUME NEW m \in Nat PROVE Has(p, Data(u, m)) <=> lo + 1 < m /\ m <= hi
  <2>0. Data(u, m) = Head(q) <=> m = k
    <3>1. Data(u, m).chunk = m /\ Head(q).chunk = k
      BY FrameFields
    <3> QED BY <3>1
  <2>1. Has(q, Data(u, m)) <=> Has(p, Data(u, m)) \/ m = k
    BY <1>1, <2>0
  <2>2. Has(q, Data(u, m)) <=> lo < m /\ m <= hi
    BY DEF Between
  <2> QED BY <1>3, <1>4, <2>1, <2>2
<1> QED BY <1>2, <1>4, <1>5 DEF Between, p

-----------------------------------------------------------------------------
(* The kinds *)

USE DEF wvars, svars, fvars, lvars, avars

\* What the server writes.
LEMMA WritesDown ==
    ASSUME NEW f \in Downstream, Types, ServerWrites(f)
    PROVE  s2c' \in Seq(Downstream)
BY HasAppend DEF Types, ServerWrites

\* What the client writes.
LEMMA WritesUp ==
    ASSUME NEW f \in Upstream, Types, ClientWrites(f)
    PROVE  c2s' \in Seq(Upstream)
BY HasAppend DEF Types, ClientWrites

\* What is read is of the kinds too.
LEMMA ReadsDown ==
    ASSUME Types, NEW t, Reads(t)
    PROVE  s2c' \in Seq(Downstream) /\ Head(s2c) \in Downstream
BY HasTail DEF Types, Reads

\* Also by the server.
LEMMA TakesUp ==
    ASSUME Types, c2s # <<>>, c2s' = Tail(c2s)
    PROVE  c2s' \in Seq(Upstream)
BY HasTail DEF Types

\* Whoever was woken is in one of the places of the bridge.
LEMMA WakeTypes ==
    ASSUME Types, NEW us, Wake(us)
    PROVE  /\ bridge' \in [Streams -> {"idle", "read", "parked", "done"}]
           /\ \A u \in Streams : /\ bridge'[u] = "done" <=> bridge[u] = "done"
                                 /\ bridge'[u] = "idle" <=> bridge[u] = "idle"
BY DEF Types, Wake

\* The kinds of the initial state.
LEMMA TypesInit == Init => Types
<1> SUFFICES ASSUME Init PROVE Types
  OBVIOUS
<1>1. <<>> \in Seq(Downstream) /\ <<>> \in Seq(Upstream) /\ <<>> \in Seq(Nat)
  BY EmptySeq
<1> QED BY <1>1, ClientAssumption DEF Init, Types, Initially

\* Every step keeps the kinds.
LEMMA TypesStep == Types /\ Next => Types'
<1> SUFFICES ASSUME Types, Next PROVE Types'
  OBVIOUS
<1>1. ASSUME NEW u \in Streams, ReadOpen(u) \/ ReadClose(u) PROVE Types'
  <2>1. c2s' \in Seq(Upstream)
    BY <1>1, TakesUp DEF ReadOpen, ReadClose, ServerReads
  <2> QED BY <1>1, <2>1 DEF Types, ReadOpen, ReadClose, Drop
<1>2. CASE ReadPong
  <2>1. c2s' \in Seq(Upstream)
    BY <1>2, TakesUp DEF ReadPong
  <2> QED BY <1>2, <2>1 DEF Types, ReadPong
<1>3. CASE SendPing
  <2>1. s2c' \in Seq(Downstream)
    <3>1. [type |-> "PING"] \in Downstream
      BY DEF Downstream
    <3> QED BY <1>3, <3>1, WritesDown DEF SendPing
  <2> QED BY <1>3, <2>1 DEF Types, SendPing
<1>4. ASSUME NEW u \in Streams, Dialed(u) \/ UpstreamOver(u) PROVE Types'
  <2>1. s2c' \in Seq(Downstream)
    <3>1. Frame("OPEN_OK", u) \in Downstream /\ Frame("CLOSE", u) \in Downstream
      BY DEF Downstream
    <3> QED BY <1>4, <3>1, WritesDown DEF Dialed, UpstreamOver
  <2>2. CASE Dialed(u)
    BY <2>1, <2>2 DEF Types, Dialed, RGoto
  <2>3. CASE UpstreamOver(u)
    BY <2>1, <2>3 DEF Types, UpstreamOver, Drop, RGoto
  <2> QED BY <1>4, <2>2, <2>3
<1>5. ASSUME NEW u \in Streams, WriteData(u) PROVE Types'
  <2>1. s2c' \in Seq(Downstream)
    <3>1. Data(u, taken[u]) \in Downstream
      BY DEF Downstream, Types
    <3> QED BY <1>5, <3>1, WritesDown DEF WriteData
  <2> QED BY <1>5, <2>1 DEF Types, WriteData, RGoto
<1>20. ASSUME NEW u \in Streams, PumpFails(u) \/ ShedClose(u) PROVE Types'
  <2>1. s2c' \in Seq(Downstream)
    <3>1. Frame("CLOSE", u) \in Downstream
      BY DEF Downstream
    <3> QED BY <1>20, <3>1, WritesDown DEF PumpFails, ShedClose, GiveUp
  <2>2. GiveUp(u) /\ shed' \in {shed, {}}
    BY <1>20 DEF PumpFails, ShedClose
  <2> QED BY <2>1, <2>2 DEF Types, GiveUp, Drop
<1>21. ASSUME NEW u \in Streams, Shed(u) PROVE Types'
  BY <1>21 DEF Types, Shed
<1>6. ASSUME NEW u \in Streams, Check(u) \/ ReadUpstream(u) PROVE Types'
  <2>1. CASE Check(u)
    BY <2>1 DEF Types, Check, RGoto
  <2>2. CASE ReadUpstream(u)
    BY <2>2 DEF Types, ReadUpstream, RGoto
  <2> QED BY <1>6, <2>1, <2>2
<1>7. CASE Cut
  <2>1. <<>> \in Seq(Upstream)
    BY EmptySeq
  <2> QED BY <1>7, <2>1 DEF Types, Cut
<1>8. ASSUME NEW u \in Streams, Store(u) \/ Opened(u) \/ OpenTimesOut(u) PROVE Types'
  <2>1. CASE Store(u)
    BY <2>1 DEF Types, Store, CGoto
  <2>2. CASE Opened(u)
    BY <2>2 DEF Types, Opened, CGoto
  <2>3. CASE OpenTimesOut(u)
    BY <2>3 DEF Types, OpenTimesOut, CGoto
  <2> QED BY <1>8, <2>1, <2>2, <2>3
<1>9. ASSUME NEW u \in Streams, SendOpen(u) PROVE Types'
  <2>1. c2s' \in Seq(Upstream)
    <3>1. Frame("OPEN", u) \in Upstream
      BY DEF Upstream
    <3> QED BY <1>9, <3>1, WritesUp DEF SendOpen, Types
  <2> QED BY <1>9, <2>1 DEF Types, SendOpen, CGoto
<1>10. ASSUME NEW u \in Streams, Copy(u) PROVE Types'
  <2>1. incoming[u] \in Seq(Nat) /\ seen[u] \in Seq(Nat) /\ incoming[u] # <<>>
    BY <1>10 DEF Types, Copy
  <2>2. Tail(incoming[u]) \in Seq(Nat) /\ Append(seen[u], Head(incoming[u])) \in Seq(Nat)
    BY <2>1, HasTail, HasAppend
  <2>3. incoming' \in [Streams -> Seq(Nat)] /\ seen' \in [Streams -> Seq(Nat)]
    BY <1>10, <2>2 DEF Types, Copy
  <2> QED BY <1>10, <2>3 DEF Types, Copy, CGoto
<1>11. ASSUME NEW u \in Streams, CopyEof(u) \/ AwaitWindow(u) PROVE Types'
  <2>1. CASE CopyEof(u)
    BY <2>1 DEF Types, CopyEof, CGoto
  <2>2. CASE AwaitWindow(u)
    BY <2>2 DEF Types, AwaitWindow
  <2> QED BY <1>11, <2>1, <2>2
<1>12. ASSUME NEW u \in Streams, LocalEof(u) PROVE Types'
  <2>1. c2s' \in Seq(Upstream)
    <3>1. Frame("CLOSE", u) \in Upstream
      BY DEF Upstream
    <3> QED BY <1>12, <3>1, WritesUp DEF LocalEof, Types
  <2> QED BY <1>12, <2>1 DEF Types, LocalEof
<1>13. ASSUME NEW u \in Streams, LoopCredit(u) \/ MarkClosed(u) PROVE Types'
  <2>1. bridge' \in [Streams -> {"idle", "read", "parked", "done"}]
    BY <1>13, WakeTypes DEF LoopCredit, MarkClosed
  <2> QED BY <1>13, <2>1 DEF Types, LoopCredit, MarkClosed
<1>14. CASE LoopOpenOK \/ LoopPing
  <2>1. s2c' \in Seq(Downstream)
    BY <1>14, ReadsDown DEF LoopOpenOK, LoopPing
  <2> QED BY <1>14, <2>1 DEF Types, LoopOpenOK, LoopPing, Reads
<1>15. CASE LoopData
  <2>1. s2c' \in Seq(Downstream) /\ Head(s2c) \in Downstream
    BY <1>15, ReadsDown DEF LoopData
  <2>2. \E u \in Streams, k \in Nat : Head(s2c) = Data(u, k)
    BY <1>15, <2>1, DownstreamKinds DEF LoopData, Reads
  <2> QED BY <1>15, <2>1, <2>2 DEF Types, LoopData, Reads
<1>16. CASE LoopClose
  <2>1. s2c' \in Seq(Downstream) /\ bridge' \in [Streams -> {"idle", "read", "parked", "done"}]
    BY <1>16, ReadsDown, WakeTypes DEF LoopClose
  <2> QED BY <1>16, <2>1 DEF Types, LoopClose, Reads
<1>17. CASE Deliver
  <2>1. PICK u \in Streams, k \in Nat : held = Data(u, k)
    BY <1>17 DEF Types, Deliver
  <2>2. held.id = u /\ held.chunk = k
    BY <2>1, FrameFields
  <2>3. Append(incoming[u], k) \in Seq(Nat)
    BY HasAppend DEF Types
  <2>4. incoming' \in [Streams -> Seq(Nat)]
    <3>1. incoming' \in {incoming, [incoming EXCEPT ![u] = Append(incoming[u], k)]}
      BY <1>17, <2>2 DEF Deliver
    <3> QED BY <2>3, <3>1 DEF Types
  <2> QED BY <1>17, <2>4 DEF Types, Deliver
<1>18. CASE Pong
  <2>1. c2s' \in Seq(Upstream)
    <3>1. [type |-> "PONG"] \in Upstream
      BY DEF Upstream
    <3> QED BY <1>18, <3>1, WritesUp DEF Pong, Types
  <2> QED BY <1>18, <2>1 DEF Types, Pong
<1>19. CASE LoopFails \/ CloseConn
  BY <1>19 DEF Types, LoopFails, CloseConn
<1> QED BY <1>1, <1>2, <1>3, <1>4, <1>5, <1>6, <1>7, <1>8, <1>9, <1>10, <1>11, <1>12, <1>13,
           <1>14, <1>15, <1>16, <1>17, <1>18, <1>19, <1>20, <1>21
     DEF Next, ServerLoop, Loop, Reader, Copier

-----------------------------------------------------------------------------
(* The chunks of a stream *)

\* A step moves no chunk of u: it changes at most what others have, or ends u.
Rests(u) ==
    /\ seen'[u] = seen[u] /\ incoming'[u] = incoming[u]
    /\ Alive(u)' => Alive(u)
    /\ InHand(u)' <=> InHand(u)
    /\ InHand(u)' => held' = held
    /\ wire' = "up" => wire = "up" /\ Written(u)' = Written(u)
    /\ \A k \in Nat : Has(s2c', Data(u, k)) <=> Has(s2c, Data(u, k))
    /\ Rising(s2c, u) => Rising(s2c', u)

\* Then its chunks are where they were.
LEMMA FlowRests ==
    ASSUME NEW u \in Streams, Flow(u), Rests(u), Listening(u)' => Listening(u)
    PROVE  Flow(u)'
<1>1. Got(u)' = Got(u) /\ Arrived(u)' = Arrived(u)
  BY DEF Rests, Got, Arrived
<1>2. \A i \in 1 .. Len(seen'[u]) : seen'[u][i] = i
  BY DEF Flow, Rests
<1>3. ASSUME Listening(u)'
      PROVE  /\ InHand(u)' => held'.chunk = Got(u)' + 1
             /\ \E w \in Nat :
                    /\ Arrived(u)' <= w
                    /\ wire' = "up" => w = Written(u)'
                    /\ Between(s2c', u, Arrived(u)', w)
             /\ Rising(s2c', u)
  <2>1. Listening(u)
    BY <1>3
  <2>2. PICK w \in Nat : /\ Arrived(u) <= w
                         /\ wire = "up" => w = Written(u)
                         /\ Between(s2c, u, Arrived(u), w)
    BY <2>1 DEF Flow
  <2>3. Between(s2c', u, Arrived(u)', w)
    BY <1>1, <2>2 DEF Rests, Between
  <2>4. Arrived(u)' <= w /\ (wire' = "up" => w = Written(u)')
    BY <1>1, <2>2 DEF Rests
  <2>5. Rising(s2c', u) /\ (InHand(u)' => held'.chunk = Got(u)' + 1)
    BY <1>1, <2>1 DEF Rests, Flow
  <2> QED BY <2>3, <2>4, <2>5
<1>4. Alive(u)' => \A i \in 1 .. Len(incoming'[u]) : incoming'[u][i] = Len(seen'[u]) + i
  BY DEF Rests, Flow
<1> QED BY <1>2, <1>3, <1>4 DEF Flow

\* Steps that leave the connection to the client alone move chunks only where the
\* read loop delivers one or the application takes one.
LEMMA RestsIdle ==
    ASSUME Types, Next, NEW u \in Streams, s2c' = s2c, ~Deliver, ~Copy(u)
    PROVE  Rests(u)
<1> DEFINE Goal == /\ seen'[u] = seen[u] /\ incoming'[u] = incoming[u]
                   /\ Alive(u)' => Alive(u)
                   /\ InHand(u)' <=> InHand(u)
                   /\ InHand(u)' => held' = held
                   /\ wire' = "up" => wire = "up" /\ Written(u)' = Written(u)
<1> SUFFICES Goal
  BY DEF Rests
<1> USE DEF Types, Alive, InHand, Written
<1>1. CASE ServerLoop
  BY <1>1 DEF ServerLoop, ReadPong, ReadOpen, ReadClose, ShedClose, GiveUp, Drop
<1>15. ASSUME NEW v \in Streams, PumpFails(v) \/ Shed(v) PROVE Goal
  BY <1>15 DEF PumpFails, Shed, GiveUp, Drop
<1>2. ASSUME NEW v \in Streams, Check(v) PROVE Goal
  BY <1>2 DEF Check, RGoto
<1>3. ASSUME NEW v \in Streams, ReadUpstream(v) PROVE Goal
  BY <1>3 DEF ReadUpstream, RGoto
<1>4. CASE Cut
  BY <1>4 DEF Cut
<1>5. ASSUME NEW v \in Streams, Store(v) \/ SendOpen(v) PROVE Goal
  BY <1>5 DEF Store, SendOpen, CGoto
<1>6. ASSUME NEW v \in Streams, Opened(v) \/ OpenTimesOut(v) PROVE Goal
  BY <1>6 DEF Opened, OpenTimesOut, CGoto
<1>7. ASSUME NEW v \in Streams, Copy(v) PROVE Goal
  <2>1. v # u
    BY <1>7
  <2> QED BY <1>7, <2>1 DEF Copy, CGoto
<1>8. ASSUME NEW v \in Streams, CopyEof(v) PROVE Goal
  BY <1>8 DEF CopyEof, CGoto
<1>9. ASSUME NEW v \in Streams, AwaitWindow(v) \/ LocalEof(v) \/ LoopCredit(v) \/ MarkClosed(v) PROVE Goal
  BY <1>9 DEF AwaitWindow, LocalEof, LoopCredit, MarkClosed
<1>10. CASE Pong \/ LoopFails \/ CloseConn
  BY <1>10 DEF Pong, LoopFails, CloseConn
<1>11. ~(LoopOpenOK \/ LoopData \/ LoopClose \/ LoopPing)
  <2>1. s2c # <<>> => s2c # Tail(s2c)
    <3>1. s2c # <<>> => Len(Tail(s2c)) = Len(s2c) - 1 /\ Len(s2c) \in Nat
      BY HeadTailProperties, EmptySeq
    <3> QED BY <3>1
  <2> QED BY <2>1 DEF LoopOpenOK, LoopData, LoopClose, LoopPing, Reads
<1>12. \A f \in Downstream : ~ServerWrites(f)
  <2>1. ASSUME NEW f \in Downstream PROVE s2c # Append(s2c, f)
    <3>1. Len(Append(s2c, f)) = Len(s2c) + 1 /\ Len(s2c) \in Nat
      OBVIOUS
    <3> QED BY <3>1
  <2> QED BY <2>1 DEF ServerWrites
<1>13. ~SendPing
  BY <1>12 DEF SendPing, Downstream
<1>14. \A v \in Streams : ~Dialed(v) /\ ~UpstreamOver(v) /\ ~WriteData(v)
  BY <1>12 DEF Dialed, UpstreamOver, WriteData, Downstream
<1> QED BY <1>1, <1>2, <1>3, <1>4, <1>5, <1>6, <1>7, <1>8, <1>9, <1>10, <1>11, <1>13, <1>14, <1>15
     DEF Next, Loop, Reader, Copier

\* Steps that write or read another frame move no chunk of u.
LEMMA RestsFrames ==
    ASSUME Types, Next, NEW u \in Streams, Opening(u), s2c' # s2c,
           ~WriteData(u), ~(LoopData /\ Head(s2c).id = u)
    PROVE  Rests(u)
<1> DEFINE Same == \A k \in Nat : Has(s2c', Data(u, k)) <=> Has(s2c, Data(u, k))
           Ord == Rising(s2c, u) => Rising(s2c', u)
           Rest == /\ seen'[u] = seen[u] /\ incoming'[u] = incoming[u]
                   /\ Alive(u)' => Alive(u)
                   /\ InHand(u)' <=> InHand(u)
                   /\ InHand(u)' => held' = held
                   /\ wire' = "up" => wire = "up" /\ Written(u)' = Written(u)
<1>1. ASSUME NEW f \in Downstream, ServerWrites(f), f.type # "DATA" \/ f.id # u PROVE Same /\ Ord
  <2>1. \A k \in Nat : f # Data(u, k)
    BY <1>1, FrameFields
  <2> QED BY <1>1, <2>1, AppendOther DEF ServerWrites, Types
<1>2. ASSUME NEW t, Reads(t), t # "DATA" \/ Head(s2c).id # u PROVE Same /\ Ord
  <2>1. \A k \in Nat : Head(s2c) # Data(u, k)
    BY <1>2, FrameFields DEF Reads
  <2> QED BY <1>2, <2>1, TailOther DEF Reads, Types
<1>3. CASE SendPing
  <2>1. [type |-> "PING"] \in Downstream /\ [type |-> "PING"].type # "DATA"
    BY DEF Downstream
  <2>2. Same /\ Ord
    BY <1>1, <1>3, <2>1 DEF SendPing
  <2>3. Rest
    BY <1>3 DEF SendPing, ServerWrites, Types, Alive, InHand, Written
  <2> QED BY <2>2, <2>3 DEF Rests
<1>4. ASSUME NEW v \in Streams, Dialed(v) PROVE Rests(u)
  <2>1. Frame("OPEN_OK", v) \in Downstream /\ Frame("OPEN_OK", v).type # "DATA"
    BY FrameFields DEF Downstream
  <2>2. Same /\ Ord
    BY <1>1, <1>4, <2>1 DEF Dialed
  <2>3. Rest
    BY <1>4 DEF Dialed, RGoto, ServerWrites, Types, Alive, InHand, Written, Opening
  <2> QED BY <2>2, <2>3 DEF Rests
<1>5. ASSUME NEW v \in Streams, UpstreamOver(v) PROVE Rests(u)
  <2>1. Frame("CLOSE", v) \in Downstream /\ Frame("CLOSE", v).type # "DATA"
    BY FrameFields DEF Downstream
  <2>2. Same /\ Ord
    BY <1>1, <1>5, <2>1 DEF UpstreamOver
  <2>3. Rest
    BY <1>5 DEF UpstreamOver, RGoto, Drop, ServerWrites, Types, Alive, InHand, Written
  <2> QED BY <2>2, <2>3 DEF Rests
<1>11. ASSUME NEW v \in Streams, GiveUp(v) PROVE Rests(u)
  <2>1. Frame("CLOSE", v) \in Downstream /\ Frame("CLOSE", v).type # "DATA"
    BY FrameFields DEF Downstream
  <2>2. Same /\ Ord
    BY <1>1, <1>11, <2>1 DEF GiveUp
  <2>3. Rest
    BY <1>11 DEF GiveUp, Drop, ServerWrites, Types, Alive, InHand, Written
  <2> QED BY <2>2, <2>3 DEF Rests
<1>12. ASSUME NEW v \in Streams, PumpFails(v) \/ ShedClose(v) PROVE Rests(u)
  BY <1>11, <1>12 DEF PumpFails, ShedClose
<1>6. ASSUME NEW v \in Streams, WriteData(v) PROVE Rests(u)
  <2>0. v # u
    BY <1>6
  <2>1. Data(v, taken[v]) \in Downstream /\ Data(v, taken[v]).id # u
    <3>1. taken[v] \in Nat
      BY DEF Types
    <3>2. Data(v, taken[v]).id = v
      BY FrameFields
    <3> QED BY <2>0, <3>1, <3>2 DEF Downstream
  <2>2. Same /\ Ord
    BY <1>1, <1>6, <2>1 DEF WriteData
  <2>3. Rest
    BY <1>6, <2>0 DEF WriteData, RGoto, ServerWrites, Types, Alive, InHand, Written
  <2> QED BY <2>2, <2>3 DEF Rests
<1>7. CASE LoopOpenOK \/ LoopPing \/ LoopClose
  <2>2. Same /\ Ord
    BY <1>2, <1>7 DEF LoopOpenOK, LoopPing, LoopClose
  <2>3. Rest
    BY <1>7 DEF LoopOpenOK, LoopPing, LoopClose, Reads, Types, Alive, InHand, Written
  <2> QED BY <2>2, <2>3 DEF Rests
<1>8. CASE LoopData
  <2>2. Same /\ Ord
    BY <1>2, <1>8 DEF LoopData
  <2>3. Rest
    BY <1>8 DEF LoopData, Reads, Types, Alive, InHand, Written
  <2> QED BY <2>2, <2>3 DEF Rests
<1>9. ~ReadPong /\ ~Cut /\ ~Deliver /\ ~Pong /\ ~LoopFails /\ ~CloseConn
  BY DEF ReadPong, Cut, Deliver, Pong, LoopFails, CloseConn
<1>10. ASSUME NEW v \in Streams
       PROVE  /\ ~ReadOpen(v) /\ ~ReadClose(v) /\ ~Shed(v)
              /\ ~Check(v) /\ ~ReadUpstream(v) /\ ~Store(v) /\ ~SendOpen(v) /\ ~Opened(v)
              /\ ~OpenTimesOut(v) /\ ~Copy(v) /\ ~CopyEof(v) /\ ~AwaitWindow(v) /\ ~LocalEof(v)
              /\ ~LoopCredit(v) /\ ~MarkClosed(v)
  BY DEF ReadOpen, ReadClose, Shed, Check, ReadUpstream, Store, SendOpen, Opened, OpenTimesOut, Copy,
         CopyEof, AwaitWindow, LocalEof, LoopCredit, MarkClosed
<1> QED BY <1>3, <1>4, <1>5, <1>6, <1>7, <1>8, <1>9, <1>10, <1>12
     DEF Next, ServerLoop, Loop, Reader, Copier

\* The server writes a chunk of u: the next.
LEMMA FlowWrite ==
    ASSUME Types, NEW u \in Streams, Flow(u), WriteData(u)
    PROVE  Flow(u)'
<1>1. /\ seen' = seen /\ incoming' = incoming /\ loop' = loop /\ held' = held /\ wire' = "up"
      /\ wire = "up" /\ copier' = copier /\ taken' = taken /\ reader[u] = "write" /\ reader'[u] = "check"
      /\ s2c' = Append(s2c, Data(u, taken[u])) /\ taken[u] \in Nat
      /\ failed' = failed /\ marked' = marked
  BY DEF WriteData, ServerWrites, RGoto, Types
<1>2. /\ Got(u)' = Got(u) /\ Arrived(u)' = Arrived(u) /\ (InHand(u)' <=> InHand(u))
      /\ Alive(u)' <=> Alive(u)
      /\ Listening(u)' <=> Listening(u)
  BY <1>1 DEF Got, Arrived, Alive, Listening, InHand
<1>3. Got(u) \in Nat /\ Arrived(u) \in Nat
  BY DEF Types, Got, Arrived
<1>4. ASSUME Listening(u)
      PROVE  /\ \E w \in Nat :
                    /\ Arrived(u)' <= w
                    /\ wire' = "up" => w = Written(u)'
                    /\ Between(s2c', u, Arrived(u)', w)
             /\ Rising(s2c', u)
  <2>1. PICK w \in Nat : /\ Arrived(u) <= w
                         /\ wire = "up" => w = Written(u)
                         /\ Between(s2c, u, Arrived(u), w)
    BY <1>4 DEF Flow
  <2>2. w + 1 = taken[u] /\ Written(u)' = w + 1
    BY <1>1, <2>1 DEF Written
  <2>3. Data(u, w + 1) \in Downstream
    BY DEF Downstream
  <2>4. Rising(s2c, u) /\ s2c \in Seq(Downstream)
    BY <1>4 DEF Flow, Types
  <2>5. Between(s2c', u, Arrived(u), w + 1) /\ Rising(s2c', u)
    BY <1>1, <1>3, <2>1, <2>2, <2>3, <2>4, AppendNext
  <2> QED BY <1>2, <1>3, <2>1, <2>2, <2>5
<1>5. \A i \in 1 .. Len(seen'[u]) : seen'[u][i] = i
  BY <1>1 DEF Flow
<1>6. Alive(u) => \A i \in 1 .. Len(incoming'[u]) : incoming'[u][i] = Len(seen'[u]) + i
  BY <1>1 DEF Flow
<1>7. Listening(u) /\ InHand(u)' => held'.chunk = Got(u)' + 1
  BY <1>1, <1>2 DEF Flow
<1> QED BY <1>2, <1>4, <1>5, <1>6, <1>7 DEF Flow

\* The read loop takes a chunk of u off the connection: it is the next, and the
\* stream is in the map.
LEMMA FlowRead ==
    ASSUME Types, NEW u \in Streams, Flow(u), Unlisted(u), Opening(u),
           LoopData, Head(s2c).id = u
    PROVE  Flow(u)'
<1>1. /\ loop = "read" /\ s2c # <<>> /\ s2c' = Tail(s2c) /\ s2c \in Seq(Downstream)
      /\ seen' = seen /\ incoming' = incoming /\ wire' = wire /\ copier' = copier
      /\ taken' = taken /\ reader' = reader /\ Head(s2c).type = "DATA"
      /\ failed' = failed /\ marked' = marked
  BY DEF LoopData, Reads, Types
<1>2. PICK k \in Nat : Head(s2c) = Data(u, k)
  <2>1. Head(s2c) \in Downstream
    BY <1>1, HasTail
  <2>2. PICK v \in Streams, k \in Nat : Head(s2c) = Data(v, k)
    BY <1>1, <2>1, DownstreamKinds
  <2>3. v = u
    BY <2>2, FrameFields
  <2> QED BY <2>2, <2>3
<1>3. \A i \in 1 .. Len(seen'[u]) : seen'[u][i] = i
  BY <1>1 DEF Flow
<1>6. Alive(u)' => \A i \in 1 .. Len(incoming'[u]) : incoming'[u][i] = Len(seen'[u]) + i
  BY <1>1 DEF Flow, Alive
<1>4. CASE ~Listening(u)
  <2>1. ~Listening(u)'
    BY <1>1, <1>4 DEF Alive, Listening
  <2> QED BY <1>3, <1>6, <2>1 DEF Flow
<1>5. CASE Listening(u)
  <2>1. Has(s2c, Data(u, k))
    BY <1>1, <1>2, HasTail
  <2>2. ~Silent(u)
    BY <2>1 DEF Silent
  <2>3. u \in known
    BY <1>1, <1>5, <2>2 DEF Unlisted, Opening, Listening
  <2>4. loop' = "deliver" /\ held' = Head(s2c)
    BY <2>3 DEF LoopData
  <2>5. held'.id = u /\ held'.chunk = k
    BY <1>2, <2>4, FrameFields
  <2>6. /\ InHand(u)' /\ Got(u)' = Got(u) /\ Got(u) \in Nat /\ Arrived(u) = Got(u)
        /\ Arrived(u)' = Got(u) + 1 /\ Written(u)' = Written(u)
    BY <1>1, <2>4, <2>5 DEF InHand, Got, Arrived, Types, Written
  <2>7. PICK w \in Nat : /\ Arrived(u) <= w
                         /\ wire = "up" => w = Written(u)
                         /\ Between(s2c, u, Arrived(u), w)
    BY <1>5 DEF Flow
  <2>8. Rising(s2c, u)
    BY <1>5 DEF Flow
  <2>9. k = Got(u) + 1 /\ k <= w /\ Between(s2c', u, Got(u) + 1, w)
    BY <1>1, <1>2, <2>6, <2>7, <2>8, TailFirst
  <2>10. Rising(s2c', u)
    BY <1>1, <2>8, TailOther
  <2>12. held'.chunk = Got(u)' + 1
    BY <2>5, <2>6, <2>9
  <2>13. /\ Arrived(u)' <= w /\ (wire' = "up" => w = Written(u)')
         /\ Between(s2c', u, Arrived(u)', w)
    BY <1>1, <2>6, <2>7, <2>9
  <2> QED BY <1>3, <1>6, <2>10, <2>12, <2>13 DEF Flow
<1> QED BY <1>4, <1>5

\* The chunk in hand joins the channel.
LEMMA FlowDeliver ==
    ASSUME Types, NEW u \in Streams, Flow(u), Unlisted(u), Deliver
    PROVE  Flow(u)'
<1>1. /\ loop = "deliver" /\ loop' = "read" /\ s2c' = s2c /\ seen' = seen /\ wire' = wire
      /\ copier' = copier /\ taken' = taken /\ reader' = reader
      /\ failed' = failed /\ marked' = marked
  BY DEF Deliver
<1>2. PICK v \in Streams, k \in Nat : held = Data(v, k)
  BY <1>1 DEF Types
<1>3. held.id = v /\ held.chunk = k
  BY <1>2, FrameFields
<1>4. /\ ~InHand(u)' /\ Written(u)' = Written(u)
      /\ Alive(u)' <=> Alive(u)
      /\ Listening(u)' <=> Listening(u)
  BY <1>1 DEF InHand, Alive, Listening, Written
<1>5. CASE v # u
  <2>1. ~InHand(u) /\ incoming'[u] = incoming[u]
    BY <1>3, <1>5 DEF InHand, Deliver, Types
  <2> QED BY <1>1, <1>4, <2>1, FlowRests DEF Rests
<1>6. CASE v = u
  <2>1. InHand(u)
    BY <1>1, <1>3, <1>6 DEF InHand
  <2>2. u \notin marked
    BY <1>1, <2>1 DEF Unlisted
  <2>9. Alive(u) => Listening(u)
    BY <2>2 DEF Listening
  <2>3. incoming'[u] = Append(incoming[u], k) /\ incoming[u] \in Seq(Nat) /\ seen[u] \in Seq(Nat)
    BY <1>3, <1>6, <2>2 DEF Deliver, Types
  <2> DEFINE n == Len(incoming[u])
             a == Len(seen[u])
  <2>4. n \in Nat /\ a \in Nat /\ Len(incoming'[u]) = n + 1 /\ incoming'[u][n + 1] = k
        /\ \A i \in 1 .. n : incoming'[u][i] = incoming[u][i]
    BY <2>3
  <2>5. Got(u) = a + n /\ Got(u)' = a + n + 1 /\ Arrived(u) = a + n + 1 /\ Arrived(u)' = a + n + 1
    <3>1. Got(u) = a + n /\ Got(u)' = a + (n + 1)
      BY <1>1, <2>4 DEF Got
    <3>2. Arrived(u) = Got(u) + 1 /\ Arrived(u)' = Got(u)'
      BY <1>4, <2>1 DEF Arrived
    <3> HIDE DEF a, n
    <3> QED BY <2>4, <3>1, <3>2
  <2>6. \A i \in 1 .. Len(seen'[u]) : seen'[u][i] = i
    BY <1>1 DEF Flow
  <2>7. ASSUME Alive(u)
        PROVE  \A i \in 1 .. Len(incoming'[u]) : incoming'[u][i] = Len(seen'[u]) + i
    <3>1. k = a + n + 1 /\ \A i \in 1 .. n : incoming[u][i] = a + i
      BY <1>3, <2>1, <2>5, <2>7, <2>9 DEF Flow
    <3> HIDE DEF n, a
    <3>2. Len(seen'[u]) = a
      BY <1>1 DEF a
    <3>3. ASSUME NEW i \in 1 .. n + 1 PROVE incoming'[u][i] = a + i
      <4>1. CASE i \in 1 .. n
        BY <2>4, <3>1, <4>1
      <4>2. CASE i = n + 1
        BY <2>4, <3>1, <4>2
      <4> QED BY <2>4, <4>1, <4>2
    <3> QED BY <2>4, <3>2, <3>3
  <2>8. ASSUME Listening(u)
        PROVE  /\ \E w \in Nat : /\ Arrived(u)' <= w
                                 /\ wire' = "up" => w = Written(u)'
                                 /\ Between(s2c', u, Arrived(u)', w)
               /\ Rising(s2c', u)
    BY <1>1, <1>4, <2>5, <2>8 DEF Flow
  <2> QED BY <1>4, <2>6, <2>7, <2>8 DEF Flow
<1> QED BY <1>5, <1>6

\* The application takes the oldest of its channel, which is its next.
LEMMA FlowCopy ==
    ASSUME Types, NEW u \in Streams, Flow(u), Copy(u)
    PROVE  Flow(u)'
<1>1. /\ loop' = loop /\ held' = held /\ s2c' = s2c /\ wire' = wire
      /\ taken' = taken /\ reader' = reader /\ copier[u] = "copy"
      /\ failed' = failed /\ marked' = marked
      /\ incoming[u] # <<>> /\ incoming'[u] = Tail(incoming[u])
      /\ incoming[u] \in Seq(Nat) /\ seen[u] \in Seq(Nat)
  BY DEF Copy, Types
<1>2. CASE seen' = seen /\ copier'[u] = "gone"
  <2>1. ~Alive(u)' /\ ~Listening(u)'
    BY <1>2 DEF Alive, Listening
  <2> QED BY <1>2, <2>1 DEF Flow
<1>3. CASE seen'[u] = Append(seen[u], Head(incoming[u])) /\ copier' = copier
  <2> DEFINE n == Len(incoming[u])
             a == Len(seen[u])
             h == Head(incoming[u])
  <2>1. /\ n \in Nat \ {0} /\ h = incoming[u][1] /\ Len(incoming'[u]) = n - 1
        /\ \A i \in 1 .. n - 1 : incoming'[u][i] = incoming[u][i + 1]
    BY <1>1, HasTail, HeadTailProperties
  <2>2. h \in Nat
    BY <1>1, HasTail
  <2>3. /\ a \in Nat /\ Len(seen'[u]) = a + 1 /\ seen'[u][a + 1] = h
        /\ \A i \in 1 .. a : seen'[u][i] = seen[u][i]
    BY <1>1, <1>3, <2>2
  <2>4. /\ Alive(u) /\ (InHand(u)' <=> InHand(u)) /\ Written(u)' = Written(u)
        /\ Listening(u)' <=> Listening(u)
    BY <1>1, <1>3 DEF Alive, Listening, InHand, Written
  <2>5. (\A i \in 1 .. n : incoming[u][i] = a + i) /\ (\A i \in 1 .. a : seen[u][i] = i)
    BY <2>4 DEF Flow
  <2>6. Got(u) = a + n /\ Got(u)' = a + n
    <3>1. Got(u)' = (a + 1) + (n - 1)
      BY <2>1, <2>3 DEF Got
    <3> HIDE DEF a, n
    <3>2. Got(u)' = a + n
      BY <2>1, <2>3, <3>1
    <3> QED BY <3>2 DEF Got, a, n
  <2>7. Arrived(u)' = Arrived(u)
    BY <2>4, <2>6 DEF Arrived
  <2>8. h = a + 1
    BY <2>1, <2>5
  <2> HIDE DEF a, n, h
  <2>9. \A i \in 1 .. Len(seen'[u]) : seen'[u][i] = i
    BY <2>3, <2>5, <2>8
  <2>10. \A i \in 1 .. Len(incoming'[u]) : incoming'[u][i] = Len(seen'[u]) + i
    BY <2>1, <2>3, <2>5
  <2>11. Listening(u) =>
           /\ InHand(u)' => held'.chunk = Got(u)' + 1
           /\ \E w \in Nat : /\ Arrived(u)' <= w
                             /\ wire' = "up" => w = Written(u)'
                             /\ Between(s2c', u, Arrived(u)', w)
           /\ Rising(s2c', u)
    BY <1>1, <2>4, <2>6, <2>7 DEF Flow
  <2> QED BY <2>4, <2>9, <2>10, <2>11 DEF Flow
<1> QED BY <1>1, <1>2, <1>3 DEF Copy, CGoto, Types

-----------------------------------------------------------------------------
(* Who changes what *)

\* The server gives up a stream.
Fails(u) == PumpFails(u) \/ ShedClose(u)

\* The steps that leave the server's streams alone.
LEMMA ServerRests ==
    ASSUME Next
    PROVE  \/ UNCHANGED <<srv, reader, taken>> \/ Cut
           \/ \E v \in Streams : \/ ReadOpen(v) \/ ReadClose(v) \/ Dialed(v) \/ Check(v)
                                 \/ ReadUpstream(v) \/ WriteData(v) \/ UpstreamOver(v) \/ Fails(v)
<1>1. CASE Loop
  BY <1>1 DEF Loop, LoopOpenOK, LoopData, LoopClose, LoopPing, Deliver, Pong, LoopFails, CloseConn,
              MarkClosed
<1>2. ASSUME NEW v \in Streams,
             Store(v) \/ Copier(v) \/ AwaitWindow(v) \/ LocalEof(v) \/ LoopCredit(v)
      PROVE  UNCHANGED <<srv, reader, taken>>
  BY <1>2 DEF Copier, Store, SendOpen, Opened, OpenTimesOut, Copy, CopyEof, AwaitWindow, LocalEof,
              LoopCredit
<1>3. CASE SendPing \/ ReadPong
  BY <1>3 DEF SendPing, ReadPong
<1>4. ASSUME NEW v \in Streams, Shed(v) PROVE UNCHANGED <<srv, reader, taken>>
  BY <1>4 DEF Shed
<1> QED BY <1>1, <1>2, <1>3, <1>4 DEF Next, ServerLoop, Reader, Fails

\* handleOpen, the reader of the upstream and the end of the session move the reader.
LEMMA ReaderMoves ==
    ASSUME Types, Next, NEW u \in Streams
    PROVE  \/ reader'[u] = reader[u] \/ Cut \/ Dialed(u)
           \/ reader[u] = "check" /\ reader'[u] \in {"left", "read"}
           \/ reader[u] = "read" /\ reader'[u] = "write" /\ ReadUpstream(u)
           \/ reader[u] = "write" /\ reader'[u] = "check"
           \/ reader[u] = "read" /\ reader'[u] = "exit" /\ UpstreamOver(u)
<1> USE DEF Types
<1>1. ASSUME NEW v \in Streams, ReadOpen(v) \/ ReadClose(v) PROVE reader' = reader
  BY <1>1 DEF ReadOpen, ReadClose
<1>2. ASSUME NEW v \in Streams, Dialed(v), v # u PROVE reader'[u] = reader[u]
  BY <1>2 DEF Dialed, RGoto
<1>3. ASSUME NEW v \in Streams, Check(v)
      PROVE  \/ reader'[u] = reader[u]
             \/ reader[u] = "check" /\ reader'[u] \in {"left", "read"}
  BY <1>3 DEF Check, RGoto
<1>4. ASSUME NEW v \in Streams, ReadUpstream(v)
      PROVE  \/ reader'[u] = reader[u]
             \/ reader[u] = "read" /\ reader'[u] = "write" /\ v = u
  BY <1>4 DEF ReadUpstream, RGoto
<1>5. ASSUME NEW v \in Streams, WriteData(v)
      PROVE  reader'[u] = reader[u] \/ (reader[u] = "write" /\ reader'[u] = "check")
  BY <1>5 DEF WriteData, RGoto
<1>6. ASSUME NEW v \in Streams, UpstreamOver(v)
      PROVE  \/ reader'[u] = reader[u]
             \/ reader[u] = "read" /\ reader'[u] = "exit" /\ v = u
  BY <1>6 DEF UpstreamOver, RGoto
<1>7. ASSUME NEW v \in Streams, Fails(v) PROVE reader' = reader
  BY <1>7 DEF Fails, PumpFails, ShedClose, GiveUp
<1> QED BY ServerRests, <1>1, <1>2, <1>3, <1>4, <1>5, <1>6, <1>7

\* OPEN, the dial and the ends of a stream move the server's entry.
LEMMA ServerMoves ==
    ASSUME Types, Next, NEW u \in Streams
    PROVE  \/ srv'[u] = srv[u] \/ Cut \/ ReadOpen(u) \/ Dialed(u)
           \/ srv'[u] = "closed" /\ (ReadClose(u) \/ UpstreamOver(u) \/ Fails(u))
<1> USE DEF Types
<1>1. ASSUME NEW v \in Streams, Check(v) \/ ReadUpstream(v) \/ WriteData(v) PROVE srv' = srv
  BY <1>1 DEF Check, ReadUpstream, WriteData
<1>2. ASSUME NEW v \in Streams, ReadOpen(v) \/ Dialed(v), v # u PROVE srv'[u] = srv[u]
  BY <1>2 DEF ReadOpen, Dialed
<1>3. ASSUME NEW v \in Streams, ReadClose(v)
      PROVE  srv'[u] = srv[u] \/ (srv'[u] = "closed" /\ v = u)
  BY <1>3 DEF ReadClose, Drop
<1>4. ASSUME NEW v \in Streams, UpstreamOver(v)
      PROVE  srv'[u] = srv[u] \/ (srv'[u] = "closed" /\ v = u)
  BY <1>4 DEF UpstreamOver, Drop
<1>5. ASSUME NEW v \in Streams, Fails(v)
      PROVE  srv'[u] = srv[u] \/ (srv'[u] = "closed" /\ v = u)
  BY <1>5 DEF Fails, PumpFails, ShedClose, GiveUp, Drop
<1> QED BY ServerRests, <1>1, <1>2, <1>3, <1>4, <1>5

\* Only the reader takes a chunk from the upstream.
LEMMA TakenMoves ==
    ASSUME Types, Next, NEW u \in Streams
    PROVE  taken'[u] = taken[u] \/ ReadUpstream(u)
<1>1. ASSUME NEW v \in Streams, ReadUpstream(v), v # u PROVE taken'[u] = taken[u]
  BY <1>1 DEF ReadUpstream, Types
<1>2. ASSUME NEW v \in Streams, \/ ReadOpen(v) \/ ReadClose(v) \/ Dialed(v) \/ Check(v)
                                \/ WriteData(v) \/ UpstreamOver(v) \/ Fails(v)
      PROVE  taken' = taken
  BY <1>2 DEF ReadOpen, ReadClose, Dialed, Check, WriteData, UpstreamOver, Fails, PumpFails, ShedClose,
              GiveUp
<1>3. Cut => taken' = taken
  BY DEF Cut
<1> QED BY ServerRests, <1>1, <1>2, <1>3

\* The steps that leave handleSocks5 and its bridge alone, and those that do not.
LEMMA ClientRests ==
    ASSUME Next
    PROVE  \/ UNCHANGED <<copier, bridge, seen>> \/ LoopClose
           \/ \E v \in Streams : \/ Store(v) \/ SendOpen(v) \/ Opened(v) \/ OpenTimesOut(v) \/ Copy(v)
                                 \/ CopyEof(v) \/ AwaitWindow(v) \/ LocalEof(v) \/ LoopCredit(v)
                                 \/ MarkClosed(v)
<1>1. CASE ServerLoop \/ SendPing \/ Cut
  BY <1>1 DEF ServerLoop, ReadPong, ReadOpen, ReadClose, ShedClose, GiveUp, SendPing, Cut
<1>2. ASSUME NEW v \in Streams, Dialed(v) \/ Reader(v) \/ UpstreamOver(v) \/ PumpFails(v) \/ Shed(v)
      PROVE  UNCHANGED <<copier, bridge, seen>>
  BY <1>2 DEF Reader, Dialed, Check, ReadUpstream, WriteData, UpstreamOver, PumpFails, GiveUp, Shed
<1>3. CASE LoopOpenOK \/ LoopData \/ LoopPing \/ Deliver \/ Pong \/ LoopFails \/ CloseConn
  BY <1>3 DEF LoopOpenOK, LoopData, LoopPing, Deliver, Pong, LoopFails, CloseConn
<1> QED BY <1>1, <1>2, <1>3 DEF Next, Loop, Copier

\* How handleSocks5 moves.
LEMMA CopierMoves ==
    ASSUME Types, Next, NEW u \in Streams
    PROVE  \/ copier'[u] = copier[u]
           \/ Store(u) /\ copier[u] = "idle" /\ copier'[u] = "stored"
           \/ copier[u] = "stored" /\ copier'[u] \in {"opening", "failed"}
           \/ Opened(u) /\ copier[u] = "opening" /\ copier'[u] = "copy"
           \/ copier[u] = "opening" /\ copier'[u] = "failed"
           \/ copier[u] = "copy" /\ copier'[u] = "gone"
           \/ CopyEof(u) /\ copier[u] = "copy" /\ copier'[u] = "eof"
<1> USE DEF Types, CGoto
<1>1. ASSUME NEW v \in Streams, AwaitWindow(v) \/ LocalEof(v) \/ LoopCredit(v) \/ MarkClosed(v)
      PROVE  copier' = copier
  BY <1>1 DEF AwaitWindow, LocalEof, LoopCredit, MarkClosed
<1>2. LoopClose => copier' = copier
  BY DEF LoopClose
<1>3. ASSUME NEW v \in Streams, Store(v)
      PROVE  copier'[u] = copier[u] \/ (v = u /\ copier[u] = "idle" /\ copier'[u] = "stored")
  BY <1>3 DEF Store
<1>4. ASSUME NEW v \in Streams, SendOpen(v)
      PROVE  copier'[u] = copier[u] \/ (copier[u] = "stored" /\ copier'[u] \in {"opening", "failed"})
  BY <1>4 DEF SendOpen
<1>5. ASSUME NEW v \in Streams, Opened(v)
      PROVE  copier'[u] = copier[u] \/ (v = u /\ copier[u] = "opening" /\ copier'[u] = "copy")
  BY <1>5 DEF Opened
<1>6. ASSUME NEW v \in Streams, OpenTimesOut(v)
      PROVE  copier'[u] = copier[u] \/ (copier[u] = "opening" /\ copier'[u] = "failed")
  BY <1>6 DEF OpenTimesOut
<1>7. ASSUME NEW v \in Streams, Copy(v)
      PROVE  copier'[u] = copier[u] \/ (copier[u] = "copy" /\ copier'[u] = "gone")
  BY <1>7 DEF Copy
<1>8. ASSUME NEW v \in Streams, CopyEof(v)
      PROVE  copier'[u] = copier[u] \/ (v = u /\ copier[u] = "copy" /\ copier'[u] = "eof")
  BY <1>8 DEF CopyEof
<1> QED BY ClientRests, <1>1, <1>2, <1>3, <1>4, <1>5, <1>6, <1>7, <1>8

\* How the other goroutine of the bridge moves.
LEMMA BridgeMoves ==
    ASSUME Types, Next, NEW u \in Streams
    PROVE  \/ bridge'[u] = bridge[u] \/ Opened(u)
           \/ bridge[u] \in {"read", "parked"} /\ bridge'[u] \in {"read", "parked", "done"}
<1> USE DEF Types
<1>1. ASSUME NEW v \in Streams,
             Store(v) \/ SendOpen(v) \/ OpenTimesOut(v) \/ Copy(v) \/ CopyEof(v)
      PROVE  bridge' = bridge
  BY <1>1 DEF Store, SendOpen, OpenTimesOut, Copy, CopyEof
<1>2. ASSUME NEW v \in Streams, Opened(v), v # u PROVE bridge'[u] = bridge[u]
  BY <1>2 DEF Opened
<1>3. ASSUME NEW v \in Streams, AwaitWindow(v) \/ LocalEof(v)
      PROVE  \/ bridge'[u] = bridge[u]
             \/ bridge[u] = "read" /\ bridge'[u] \in {"parked", "done"}
  BY <1>3 DEF AwaitWindow, LocalEof
<1>4. ASSUME NEW us, Wake(us)
      PROVE  bridge'[u] = bridge[u] \/ (bridge[u] = "parked" /\ bridge'[u] = "read")
  BY <1>4 DEF Wake
<1>5. ASSUME NEW v \in Streams, LoopCredit(v) \/ MarkClosed(v)
      PROVE  bridge'[u] = bridge[u] \/ (bridge[u] = "parked" /\ bridge'[u] = "read")
  BY <1>4, <1>5 DEF LoopCredit, MarkClosed
<1>6. LoopClose => bridge'[u] = bridge[u] \/ (bridge[u] = "parked" /\ bridge'[u] = "read")
  BY <1>4 DEF LoopClose
<1> QED BY ClientRests, <1>1, <1>2, <1>3, <1>5, <1>6

\* A connection that is up was up; a read loop that has begun session.close ends.
LEMMA WireMoves ==
    ASSUME Types, Next
    PROVE  /\ wire' = "up" => wire = "up" /\ ~Cut
           /\ loop \in {"close", "exit"} => loop' \in {"close", "exit"}
           /\ loop' \in {"close", "exit"} => loop \in {"close", "exit"} \/ wire' = "cut"
<1> USE DEF Types
<1>1. CASE ServerLoop \/ SendPing \/ Cut
  BY <1>1 DEF ServerLoop, ReadPong, ReadOpen, ReadClose, ShedClose, GiveUp, SendPing, Cut, ServerWrites
<1>2. CASE ~Cut /\ \E v \in Streams : Dialed(v) \/ Reader(v) \/ UpstreamOver(v) \/ PumpFails(v) \/ Shed(v)
  BY <1>2 DEF Reader, Dialed, Check, ReadUpstream, WriteData, UpstreamOver, PumpFails, Shed, GiveUp,
              ServerWrites
<1>3. CASE ~Cut /\ (LoopOpenOK \/ LoopData \/ LoopClose \/ LoopPing \/ Deliver)
  BY <1>3 DEF LoopOpenOK, LoopData, LoopClose, LoopPing, Deliver, Reads
<1>4. CASE ~Cut /\ (Pong \/ LoopFails \/ CloseConn \/ \E v \in Streams : MarkClosed(v))
  BY <1>4 DEF Pong, LoopFails, CloseConn, MarkClosed
<1>5. CASE ~Cut /\ \E v \in Streams : Store(v) \/ Copier(v) \/ AwaitWindow(v) \/ LocalEof(v) \/ LoopCredit(v)
  BY <1>5 DEF Copier, Store, SendOpen, Opened, OpenTimesOut, Copy, CopyEof, AwaitWindow, LocalEof,
              LoopCredit
<1> QED BY <1>1, <1>2, <1>3, <1>4, <1>5 DEF Next, Loop

\* A stream is marked by CLOSE or by session.close, for good; and one that leaves
\* the map is marked or has failed.
LEMMA ListMoves ==
    ASSUME Types, Next, NEW u \in Streams
    PROVE  /\ u \in marked => u \in marked'
           /\ u \in marked' => u \in marked \/ loop' = "close" \/ (LoopClose /\ Head(s2c).id = u)
           /\ u \in marked' => u \in marked \/ u \in known
           /\ LoopClose /\ Head(s2c).id = u => u \notin known'
           /\ u \in known' => u \in known \/ Store(u)
           /\ u \in known => u \in known' \/ u \in marked' \/ copier'[u] = "failed"
           /\ Store(u) => u \in known'
<1> DEFINE Goal == /\ u \in marked => u \in marked'
                   /\ u \in marked' => u \in marked \/ loop' = "close" \/ (LoopClose /\ Head(s2c).id = u)
                   /\ u \in marked' => u \in marked \/ u \in known
                   /\ u \in known' => u \in known \/ Store(u)
                   /\ u \in known => u \in known' \/ u \in marked' \/ copier'[u] = "failed"
<1> USE DEF Types
<1>1. ASSUME ServerLoop \/ SendPing \/ Cut PROVE Goal
  BY <1>1 DEF ServerLoop, ReadPong, ReadOpen, ReadClose, ShedClose, GiveUp, SendPing, Cut
<1>2. ASSUME \E v \in Streams : Dialed(v) \/ Reader(v) \/ UpstreamOver(v) \/ PumpFails(v) \/ Shed(v)
      PROVE  Goal
  BY <1>2 DEF Reader, Dialed, Check, ReadUpstream, WriteData, UpstreamOver, PumpFails, GiveUp, Shed
<1>3. ASSUME LoopOpenOK \/ LoopData \/ LoopPing \/ Deliver \/ Pong \/ LoopFails \/ CloseConn PROVE Goal
  BY <1>3 DEF LoopOpenOK, LoopData, LoopPing, Deliver, Pong, LoopFails, CloseConn
<1>4. ASSUME LoopClose PROVE Goal
  BY <1>4 DEF LoopClose
<1>5. ASSUME \E v \in Streams : MarkClosed(v) PROVE Goal
  BY <1>5 DEF MarkClosed
<1>6. ASSUME NEW v \in Streams, Store(v) \/ SendOpen(v) PROVE Goal
  <2>1. CASE Store(v)
    <3>1. /\ marked' = marked /\ (u \in known => u \in known')
          /\ u \in known' => u \in known \/ u = v
      BY <2>1 DEF Store
    <3> QED BY <2>1, <3>1
  <2>2. CASE SendOpen(v)
    BY <2>2 DEF SendOpen, CGoto
  <2> QED BY <1>6, <2>1, <2>2
<1>7. ASSUME NEW v \in Streams, Opened(v) \/ OpenTimesOut(v) PROVE Goal
  BY <1>7 DEF Opened, OpenTimesOut, CGoto
<1>8. ASSUME NEW v \in Streams, Copy(v) \/ CopyEof(v) \/ AwaitWindow(v) \/ LocalEof(v) \/ LoopCredit(v)
      PROVE  Goal
  BY <1>8 DEF Copy, CopyEof, AwaitWindow, LocalEof, LoopCredit
<1>9. Store(u) => u \in known'
  BY DEF Store
<1>10. Goal
  BY <1>1, <1>2, <1>3, <1>4, <1>5, <1>6, <1>7, <1>8 DEF Next, Loop, Copier
<1>11. LoopClose /\ Head(s2c).id = u => u \notin known'
  BY DEF LoopClose
<1> QED BY <1>9, <1>10, <1>11

\* A stream that was given up is so for good.
LEMMA FailedMoves ==
    ASSUME Types, Next, NEW u \in Streams
    PROVE  /\ u \in failed => u \in failed'
           /\ Fails(u) => u \in failed'
           /\ u \in shed' => u \in shed \/ (srv[u] = "open" /\ srv' = srv)
<1> DEFINE Goal == /\ u \in failed => u \in failed'
                   /\ u \in shed' => u \in shed \/ (srv[u] = "open" /\ srv' = srv)
<1>1. ASSUME UNCHANGED fvars PROVE Goal
  BY <1>1
<1>2. ASSUME NEW v \in Streams, PumpFails(v) \/ ShedClose(v) PROVE Goal
  BY <1>2 DEF PumpFails, ShedClose, GiveUp
<1>3. ASSUME NEW v \in Streams, Shed(v) PROVE Goal
  BY <1>3 DEF Shed
<1>4. ASSUME Cut PROVE Goal
  BY <1>4 DEF Cut
<1>5. ASSUME Loop PROVE Goal
  <2>1. UNCHANGED fvars
    BY <1>5 DEF Loop, LoopOpenOK, LoopData, LoopClose, LoopPing, Deliver, Pong, LoopFails, CloseConn,
                MarkClosed
  <2> QED BY <1>1, <2>1
<1>6. ASSUME NEW v \in Streams,
             \/ ReadOpen(v) \/ ReadClose(v) \/ Dialed(v) \/ Reader(v) \/ UpstreamOver(v)
             \/ Store(v) \/ Copier(v) \/ AwaitWindow(v) \/ LocalEof(v) \/ LoopCredit(v)
      PROVE  UNCHANGED fvars
  BY <1>6 DEF ReadOpen, ReadClose, Dialed, Reader, Check, ReadUpstream, WriteData, UpstreamOver,
              Store, Copier, SendOpen, Opened, OpenTimesOut, Copy, CopyEof, AwaitWindow, LocalEof,
              LoopCredit
<1>7. SendPing \/ ReadPong => UNCHANGED fvars
  BY DEF SendPing, ReadPong
<1>8. Goal
  BY <1>1, <1>2, <1>3, <1>4, <1>5, <1>6, <1>7 DEF Next, ServerLoop
<1>9. Fails(u) => u \in failed'
  BY DEF Fails, PumpFails, ShedClose, GiveUp
<1> QED BY <1>8, <1>9

\* No step has an application listen again.
LEMMA ListeningMoves ==
    ASSUME Types, Next, NEW u \in Streams, Listening(u)'
    PROVE  Listening(u)
<1>1. Alive(u)
  BY CopierMoves DEF Listening, Alive
<1> QED BY <1>1, ListMoves, FailedMoves DEF Listening

\* No step loses a chunk of a stream whose application may yet receive it, or puts
\* two of them in another order.
LEMMA FlowStep ==
    ASSUME Types, Next, NEW u \in Streams, Flow(u), Unlisted(u), Opening(u)
    PROVE  Flow(u)'
<1>1. CASE s2c' = s2c /\ ~Deliver /\ ~Copy(u)
  BY <1>1, RestsIdle, FlowRests, ListeningMoves
<1>2. CASE s2c' # s2c /\ ~WriteData(u) /\ ~(LoopData /\ Head(s2c).id = u)
  BY <1>2, RestsFrames, FlowRests, ListeningMoves
<1>3. CASE Deliver
  BY <1>3, FlowDeliver
<1>4. CASE Copy(u)
  BY <1>4, FlowCopy
<1>5. CASE WriteData(u)
  BY <1>5, FlowWrite
<1>6. CASE LoopData /\ Head(s2c).id = u
  BY <1>6, FlowRead
<1> QED BY <1>1, <1>2, <1>3, <1>4, <1>5, <1>6

\* Frames to the client: CLOSE is written at the end of an upstream or when the
\* server gives a stream up, DATA by the reader, and they are read in turn.
LEMMA DownMoves ==
    ASSUME Types, Next
    PROVE  \/ s2c' = s2c
           \/ s2c # <<>> /\ s2c' = Tail(s2c)
           \/ \E f \in Downstream :
                  /\ s2c' = Append(s2c, f)
                  /\ \A v \in Streams : f = Frame("CLOSE", v) => UpstreamOver(v) \/ Fails(v)
                  /\ \A v \in Streams, k \in Nat : f = Data(v, k) => WriteData(v)
<1> DEFINE Goal ==
       \/ s2c' = s2c
       \/ s2c # <<>> /\ s2c' = Tail(s2c)
       \/ \E f \in Downstream :
              /\ s2c' = Append(s2c, f)
              /\ \A v \in Streams : f = Frame("CLOSE", v) => UpstreamOver(v) \/ Fails(v)
              /\ \A v \in Streams, k \in Nat : f = Data(v, k) => WriteData(v)
<1>1. CASE SendPing
  <2> DEFINE f == [type |-> "PING"]
  <2>1. f \in Downstream /\ f.type = "PING" /\ s2c' = Append(s2c, f)
    BY <1>1 DEF Downstream, SendPing, ServerWrites
  <2> HIDE DEF f
  <2>2. /\ \A w \in Streams : f # Frame("CLOSE", w)
        /\ \A w \in Streams, k \in Nat : f # Data(w, k)
    BY <2>1, FrameFields
  <2> QED BY <2>1, <2>2
<1>2. ASSUME NEW v \in Streams, Dialed(v) PROVE Goal
  <2> DEFINE f == Frame("OPEN_OK", v)
  <2>1. f \in Downstream /\ f.type = "OPEN_OK" /\ s2c' = Append(s2c, f)
    BY <1>2, FrameFields DEF Downstream, Dialed, ServerWrites
  <2> HIDE DEF f
  <2>2. /\ \A w \in Streams : f # Frame("CLOSE", w)
        /\ \A w \in Streams, k \in Nat : f # Data(w, k)
    BY <2>1, FrameFields
  <2> QED BY <2>1, <2>2
<1>3. ASSUME NEW v \in Streams, UpstreamOver(v) \/ Fails(v) PROVE Goal
  <2> DEFINE f == Frame("CLOSE", v)
  <2>1. f \in Downstream /\ f.type = "CLOSE" /\ f.id = v /\ s2c' = Append(s2c, f)
    BY <1>3, FrameFields DEF Downstream, UpstreamOver, Fails, PumpFails, ShedClose, GiveUp,
                             ServerWrites
  <2> HIDE DEF f
  <2>2. /\ \A w \in Streams : f = Frame("CLOSE", w) => UpstreamOver(w) \/ Fails(w)
        /\ \A w \in Streams, k \in Nat : f = Data(w, k) => WriteData(w)
    <3>1. \A w \in Streams : f = Frame("CLOSE", w) => w = v
      BY <2>1, FrameFields
    <3>2. \A w \in Streams, k \in Nat : f # Data(w, k)
      BY <2>1, FrameFields
    <3> QED BY <1>3, <3>1, <3>2
  <2> QED BY <2>1, <2>2
<1>4. ASSUME NEW v \in Streams, WriteData(v) PROVE Goal
  <2> DEFINE f == Data(v, taken[v])
  <2>0. taken[v] \in Nat
    BY DEF Types
  <2>1. f \in Downstream /\ f.type = "DATA" /\ f.id = v /\ s2c' = Append(s2c, f)
    BY <1>4, <2>0, FrameFields DEF Downstream, WriteData, ServerWrites
  <2> HIDE DEF f
  <2>2. /\ \A w \in Streams : f = Frame("CLOSE", w) => UpstreamOver(w) \/ Fails(w)
        /\ \A w \in Streams, k \in Nat : f = Data(w, k) => WriteData(w)
    <3>1. \A w \in Streams : f # Frame("CLOSE", w)
      BY <2>1, FrameFields
    <3>2. \A w \in Streams, k \in Nat : f = Data(w, k) => w = v
      BY <2>1, FrameFields
    <3> QED BY <1>4, <3>1, <3>2
  <2> QED BY <2>1, <2>2
<1>5. CASE LoopOpenOK \/ LoopData \/ LoopClose \/ LoopPing
  BY <1>5 DEF LoopOpenOK, LoopData, LoopClose, LoopPing, Reads
<1>6. CASE ReadPong \/ Cut \/ Deliver \/ Pong \/ LoopFails \/ CloseConn
  BY <1>6 DEF ReadPong, Cut, Deliver, Pong, LoopFails, CloseConn
<1>7. ASSUME NEW v \in Streams,
             \/ ReadOpen(v) \/ ReadClose(v) \/ Shed(v) \/ Check(v) \/ ReadUpstream(v) \/ Store(v) \/ Copier(v) \/ AwaitWindow(v)
             \/ LocalEof(v) \/ LoopCredit(v) \/ MarkClosed(v)
      PROVE  s2c' = s2c
  BY <1>7 DEF ReadOpen, ReadClose, Shed, Copier, Check, ReadUpstream, Store, SendOpen, Opened,
              OpenTimesOut, Copy, CopyEof, AwaitWindow, LocalEof, LoopCredit, MarkClosed
<1> QED BY <1>1, <1>2, <1>3, <1>4, <1>5, <1>6, <1>7
     DEF Next, ServerLoop, Loop, Reader, Fails

\* Frames to the server: OPEN from session.open, CLOSE from a bridge that is done.
LEMMA UpMoves ==
    ASSUME Types, Next, wire' = "up"
    PROVE  \/ c2s' = c2s
           \/ c2s # <<>> /\ c2s' = Tail(c2s)
           \/ \E f \in Upstream :
                  /\ c2s' = Append(c2s, f)
                  /\ \A v \in Streams : /\ f = Frame("OPEN", v) => copier[v] = "stored" /\ copier'[v] = "opening"
                                        /\ f = Frame("CLOSE", v) => bridge'[v] = "done"
<1> DEFINE Goal ==
       \/ c2s' = c2s
       \/ c2s # <<>> /\ c2s' = Tail(c2s)
       \/ \E f \in Upstream :
              /\ c2s' = Append(c2s, f)
              /\ \A v \in Streams : /\ f = Frame("OPEN", v) => copier[v] = "stored" /\ copier'[v] = "opening"
                                    /\ f = Frame("CLOSE", v) => bridge'[v] = "done"
<1>1. ASSUME NEW v \in Streams, SendOpen(v) PROVE Goal
  <2> DEFINE f == Frame("OPEN", v)
  <2>1. f \in Upstream /\ f.type = "OPEN" /\ f.id = v
    BY FrameFields DEF Upstream
  <2>2. c2s' = c2s \/ (c2s' = Append(c2s, f) /\ copier[v] = "stored" /\ copier'[v] = "opening")
    BY <1>1 DEF SendOpen, ClientWrites, CGoto, Types
  <2> HIDE DEF f
  <2> QED BY <2>1, <2>2, FrameFields
<1>2. ASSUME NEW v \in Streams, LocalEof(v) PROVE Goal
  <2> DEFINE f == Frame("CLOSE", v)
  <2>1. f \in Upstream /\ f.type = "CLOSE" /\ f.id = v
    BY FrameFields DEF Upstream
  <2>2. c2s' = c2s \/ (c2s' = Append(c2s, f) /\ bridge'[v] = "done")
    BY <1>2 DEF LocalEof, ClientWrites, Types
  <2> HIDE DEF f
  <2> QED BY <2>1, <2>2, FrameFields
<1>3. CASE Pong
  <2> DEFINE f == [type |-> "PONG"]
  <2>1. f \in Upstream /\ f.type = "PONG"
    BY DEF Upstream
  <2>2. c2s' = c2s \/ c2s' = Append(c2s, f)
    BY <1>3 DEF Pong, ClientWrites
  <2> HIDE DEF f
  <2> QED BY <2>1, <2>2, FrameFields
<1>4. CASE ServerLoop
  BY <1>4 DEF ServerLoop, ReadPong, ReadOpen, ReadClose, ShedClose, GiveUp, ServerReads
<1>5. CASE SendPing \/ LoopOpenOK \/ LoopData \/ LoopClose \/ LoopPing \/ Deliver \/ LoopFails \/ CloseConn
  BY <1>5 DEF SendPing, LoopOpenOK, LoopData, LoopClose, LoopPing, Deliver, LoopFails, CloseConn
<1>6. ASSUME NEW v \in Streams,
             \/ Dialed(v) \/ Reader(v) \/ UpstreamOver(v) \/ Store(v) \/ Opened(v) \/ OpenTimesOut(v)
             \/ Copy(v) \/ CopyEof(v) \/ AwaitWindow(v) \/ LoopCredit(v) \/ MarkClosed(v)
             \/ PumpFails(v) \/ Shed(v)
      PROVE  c2s' = c2s
  BY <1>6 DEF PumpFails, GiveUp, Shed, Reader, Dialed, Check, ReadUpstream, WriteData, UpstreamOver, Store, Opened, OpenTimesOut,
              Copy, CopyEof, AwaitWindow, LoopCredit, MarkClosed
<1>7. ~Cut
  BY DEF Cut
<1> QED BY <1>1, <1>2, <1>3, <1>4, <1>5, <1>6, <1>7 DEF Next, Loop, Copier

-----------------------------------------------------------------------------
(* The order of CLOSE and DATA, and the end of a stream *)

\* The server's reader, once over, is over.
LEMMA ExitStays ==
    ASSUME Types, Next, NEW u \in Streams, Opening(u), reader[u] = "exit"
    PROVE  reader'[u] = "exit"
<1>1. ~Dialed(u)
  BY DEF Dialed, ServerWrites, Opening
<1>2. Cut => reader'[u] = "exit"
  BY DEF Cut
<1> QED BY <1>1, <1>2, ReaderMoves

\* Only the reader puts a chunk on its way.
LEMMA SilentStep ==
    ASSUME Types, Next, NEW u \in Streams, Opening(u), Silent(u), reader[u] # "write"
    PROVE  Silent(u)'
<1>1. ~WriteData(u)
  BY DEF WriteData
<1>2. CASE Rests(u)
  BY <1>2 DEF Rests, Silent
<1>3. CASE Deliver
  <2>1. s2c' = s2c /\ loop' = "read"
    BY <1>3 DEF Deliver
  <2> QED BY <2>1 DEF Silent, InHand
<1>4. CASE Copy(u)
  <2>1. s2c' = s2c /\ loop' = loop /\ held' = held
    BY <1>4 DEF Copy
  <2> QED BY <2>1 DEF Silent, InHand
<1>5. ~(LoopData /\ Head(s2c).id = u)
  <2> SUFFICES ASSUME LoopData, Head(s2c).id = u PROVE FALSE
    OBVIOUS
  <2>1. s2c # <<>> /\ Head(s2c).type = "DATA" /\ s2c \in Seq(Downstream)
    BY DEF LoopData, Reads, Types
  <2>2. Head(s2c) \in Downstream /\ Has(s2c, Head(s2c))
    BY <2>1, HasTail
  <2>3. PICK v \in Streams, k \in Nat : Head(s2c) = Data(v, k)
    BY <2>1, <2>2, DownstreamKinds
  <2>4. v = u
    BY <2>3, FrameFields
  <2> QED BY <2>2, <2>3, <2>4 DEF Silent
<1> QED BY <1>1, <1>2, <1>3, <1>4, <1>5, RestsIdle, RestsFrames

\* CLOSE stays behind the chunks.
LEMMA BehindStep ==
    ASSUME Types, Next, NEW u \in Streams, Opening(u), Behind(u)
    PROVE  Behind(u)'
<1> DEFINE Fine(i) == reader'[u] = "exit" /\ \A j \in DOMAIN s2c' : \A k \in Nat : s2c'[j] = Data(u, k) => j < i
<1> SUFFICES ASSUME u \notin failed', NEW i \in DOMAIN s2c', s2c'[i] = Frame("CLOSE", u) PROVE Fine(i)
  BY DEF Behind
<1>0. s2c \in Seq(Downstream) /\ u \notin failed /\ ~Fails(u)
  BY FailedMoves DEF Types
<1>1. CASE s2c' = s2c
  BY <1>0, <1>1, ExitStays DEF Behind
<1>2. CASE s2c # <<>> /\ s2c' = Tail(s2c)
  <2>1. /\ Len(s2c) \in Nat \ {0} /\ DOMAIN s2c = 1 .. Len(s2c) /\ DOMAIN s2c' = 1 .. Len(s2c) - 1
        /\ \A j \in 1 .. Len(s2c) - 1 : s2c'[j] = s2c[j + 1]
    BY <1>0, <1>2, HasTail
  <2> DEFINE N == Len(s2c)
  <2> HIDE DEF N
  <2>2. \A j \in DOMAIN s2c' : j \in Nat /\ j + 1 \in DOMAIN s2c /\ s2c'[j] = s2c[j + 1]
    BY <2>1 DEF N
  <2>3. reader[u] = "exit" /\ \A j \in DOMAIN s2c : \A k \in Nat : s2c[j] = Data(u, k) => j < i + 1
    BY <1>0, <2>2 DEF Behind
  <2>4. ASSUME NEW j \in DOMAIN s2c', NEW k \in Nat, s2c'[j] = Data(u, k) PROVE j < i
    <3>1. j + 1 < i + 1 /\ j \in Nat /\ i \in Nat
      BY <2>2, <2>3, <2>4
    <3> QED BY <3>1
  <2> QED BY <2>3, <2>4, ExitStays
<1>3. ASSUME NEW f \in Downstream, s2c' = Append(s2c, f),
             \A v \in Streams : f = Frame("CLOSE", v) => UpstreamOver(v) \/ Fails(v),
             \A v \in Streams, k \in Nat : f = Data(v, k) => WriteData(v)
      PROVE  Fine(i)
  <2>1. /\ Len(s2c) \in Nat /\ DOMAIN s2c = 1 .. Len(s2c) /\ DOMAIN s2c' = 1 .. Len(s2c) + 1
        /\ \A j \in 1 .. Len(s2c) : s2c'[j] = s2c[j]
        /\ s2c'[Len(s2c) + 1] = f
    BY <1>0, <1>3, HasAppend
  <2>2. CASE i \in DOMAIN s2c
    <3>1. s2c[i] = Frame("CLOSE", u)
      BY <2>1, <2>2
    <3>2. reader[u] = "exit" /\ \A j \in DOMAIN s2c : \A k \in Nat : s2c[j] = Data(u, k) => j < i
      BY <1>0, <2>2, <3>1 DEF Behind
    <3>3. \A k \in Nat : f # Data(u, k)
      BY <1>3, <3>2 DEF WriteData
    <3>4. ASSUME NEW j \in DOMAIN s2c', NEW k \in Nat, s2c'[j] = Data(u, k) PROVE j < i
      <4>1. j \in DOMAIN s2c /\ s2c[j] = Data(u, k)
        BY <2>1, <3>3, <3>4
      <4> QED BY <3>2, <4>1
    <3> QED BY <3>2, <3>4, ExitStays
  <2>3. CASE i = Len(s2c) + 1
    <3>1. f = Frame("CLOSE", u)
      BY <2>1, <2>3
    <3>2. reader'[u] = "exit"
      BY <1>0, <1>3, <3>1 DEF UpstreamOver, RGoto, Types
    <3>3. \A k \in Nat : f # Data(u, k)
      BY <3>1, FrameFields
    <3>4. ASSUME NEW j \in DOMAIN s2c', NEW k \in Nat, s2c'[j] = Data(u, k) PROVE j < i
      BY <2>1, <2>3, <3>3, <3>4
    <3> QED BY <3>2, <3>4
  <2> QED BY <2>1, <2>2, <2>3
<1> QED BY <1>1, <1>2, <1>3, DownMoves

\* When CLOSE is read, all chunks of the stream have been.
LEMMA CloseRead ==
    ASSUME Types, NEW u \in Streams, Behind(u), u \notin failed, LoopClose, Head(s2c).id = u
    PROVE  reader[u] = "exit" /\ Silent(u)
<1>1. s2c # <<>> /\ Head(s2c).type = "CLOSE" /\ s2c \in Seq(Downstream) /\ loop = "read"
  BY DEF LoopClose, Reads, Types
<1>2. /\ Head(s2c) \in Downstream /\ Len(s2c) \in Nat \ {0}
      /\ DOMAIN s2c = 1 .. Len(s2c) /\ Head(s2c) = s2c[1]
  BY <1>1, HasTail
<1>3. PICK v \in Streams : Head(s2c) = Frame("CLOSE", v)
  BY <1>1, <1>2, DownstreamKinds
<1>4. v = u
  BY <1>3, FrameFields
<1>5. 1 \in DOMAIN s2c /\ \A j \in DOMAIN s2c : j \in Nat /\ ~(j < 1)
  BY <1>2
<1>6. reader[u] = "exit" /\ \A j \in DOMAIN s2c : \A k \in Nat : s2c[j] = Data(u, k) => j < 1
  BY <1>2, <1>3, <1>4, <1>5 DEF Behind
<1>7. \A k \in Nat : ~Has(s2c, Data(u, k))
  BY <1>5, <1>6 DEF Has
<1> QED BY <1>1, <1>6, <1>7 DEF Silent, InHand

\* The read loop takes a chunk in hand only for a stream in the map.
LEMMA HandMoves ==
    ASSUME Types, Next, NEW u \in Streams, InHand(u)'
    PROVE  InHand(u) \/ u \in known
<1> USE DEF InHand
<1>1. CASE LoopData
  BY <1>1 DEF LoopData
<1>2. CASE ServerLoop \/ SendPing \/ Cut
  BY <1>2 DEF ServerLoop, ReadPong, ReadOpen, ReadClose, ShedClose, GiveUp, SendPing, Cut
<1>3. CASE \E v \in Streams : Dialed(v) \/ Reader(v) \/ UpstreamOver(v) \/ PumpFails(v) \/ Shed(v)
  BY <1>3 DEF Reader, Dialed, Check, ReadUpstream, WriteData, UpstreamOver, PumpFails, Shed, GiveUp
<1>4. CASE LoopOpenOK \/ LoopClose \/ LoopPing \/ Deliver \/ Pong \/ LoopFails \/ CloseConn
  BY <1>4 DEF LoopOpenOK, LoopClose, LoopPing, Deliver, Pong, LoopFails, CloseConn, Reads
<1>5. CASE \E v \in Streams : \/ Store(v) \/ Copier(v) \/ AwaitWindow(v) \/ LocalEof(v)
                              \/ LoopCredit(v) \/ MarkClosed(v)
  BY <1>5 DEF Copier, Store, SendOpen, Opened, OpenTimesOut, Copy, CopyEof, AwaitWindow, LocalEof,
              LoopCredit, MarkClosed
<1> QED BY <1>1, <1>2, <1>3, <1>4, <1>5 DEF Next, Loop

\* A stream that is marked, or out of the map, has no chunk to come.
LEMMA UnlistedStep ==
    ASSUME Types, Next, NEW u \in Streams, Opening(u), Behind(u), Unlisted(u)
    PROVE  Unlisted(u)'
<1>1. ASSUME Alive(u)', u \notin known' PROVE copier'[u] = "idle" \/ u \in marked'
  <2>1. Alive(u) /\ copier'[u] # "failed"
    BY <1>1, CopierMoves DEF Alive
  <2>2. CASE u \in known
    BY <1>1, <2>1, <2>2, ListMoves
  <2>3. CASE u \in marked
    BY <2>3, ListMoves
  <2>4. CASE copier[u] = "idle"
    BY <1>1, <2>4, CopierMoves, ListMoves
  <2> QED BY <2>1, <2>2, <2>3, <2>4 DEF Unlisted
<1>2. ASSUME u \in marked', loop' \notin {"close", "exit"}, u \notin failed'
      PROVE  reader'[u] = "exit" /\ Silent(u)'
  <2>1. reader[u] = "exit" /\ Silent(u)
    <3>0. u \notin failed
      BY <1>2, FailedMoves
    <3>1. loop \notin {"close", "exit"}
      BY <1>2, WireMoves
    <3>2. CASE u \in marked
      BY <3>0, <3>1, <3>2 DEF Unlisted
    <3>3. CASE LoopClose /\ Head(s2c).id = u
      BY <3>0, <3>3, CloseRead
    <3> QED BY <1>2, <3>2, <3>3, ListMoves
  <2> QED BY <2>1, ExitStays, SilentStep
<1>3. ASSUME u \in marked', loop' \notin {"close", "exit"} PROVE u \notin known' /\ ~InHand(u)'
  <2>1. loop \notin {"close", "exit"} /\ loop' # "close"
    BY <1>2, <1>3, WireMoves
  <2>2. CASE u \in marked
    <3>1. u \notin known /\ ~InHand(u) /\ ~Store(u)
      BY <2>1, <2>2 DEF Unlisted, Opening, Store
    <3> QED BY <3>1, HandMoves, ListMoves
  <2>3. CASE LoopClose /\ Head(s2c).id = u
    <3>1. loop' = "read"
      BY <2>3 DEF LoopClose, Reads
    <3> QED BY <2>3, <3>1, ListMoves DEF InHand
  <2> QED BY <1>3, <2>1, <2>2, <2>3, ListMoves
<1> QED BY <1>1, <1>2, <1>3 DEF Unlisted

\* An id is opened once.
LEMMA OpeningStep ==
    ASSUME Types, Next, NEW u \in Streams, Opening(u)
    PROVE  Opening(u)'
<1> DEFINE O == Frame("OPEN", u)
<1>1. ASSUME copier'[u] \in {"idle", "stored"} PROVE reader'[u] \in {"idle", "exit"} /\ Silent(u)'
  <2>1. copier[u] \in {"idle", "stored"}
    BY <1>1, CopierMoves
  <2>2. reader[u] \in {"idle", "exit"} /\ Silent(u)
    BY <2>1 DEF Opening
  <2>3. ~Dialed(u)
    BY <2>1 DEF Opening, Dialed, ServerWrites
  <2>4. Cut => reader'[u] = "exit"
    BY DEF Cut
  <2>5. reader'[u] \in {"idle", "exit"}
    BY <2>2, <2>3, <2>4, ReaderMoves
  <2> QED BY <2>2, <2>5, SilentStep
<1>2. ASSUME copier'[u] \in {"idle", "stored", "opening", "failed"} PROVE bridge'[u] = "idle"
  <2>1. copier[u] \in {"idle", "stored", "opening", "failed"} /\ ~Opened(u)
    BY <1>2, CopierMoves DEF Opened, CGoto, Types
  <2>2. bridge[u] = "idle"
    BY <2>1 DEF Opening
  <2> QED BY <2>1, <2>2, BridgeMoves
<1>3. ASSUME wire' = "up"
      PROVE  /\ copier'[u] \in {"idle", "stored"} => srv'[u] = "none" /\ ~Has(c2s', O)
             /\ srv'[u] \in {"none", "dialing"} => reader'[u] = "idle"
             /\ Has(c2s', O) => srv'[u] = "none"
             /\ u \in shed' => srv'[u] \in {"open", "closed"}
             /\ \A i, j \in DOMAIN c2s' : c2s'[i] = O /\ c2s'[j] = O => i = j
  <2>0. c2s \in Seq(Upstream) /\ wire = "up" /\ ~Cut
    BY <1>3, WireMoves DEF Types
  <2>1. /\ copier[u] \in {"idle", "stored"} => srv[u] = "none" /\ ~Has(c2s, O)
        /\ srv[u] \in {"none", "dialing"} => reader[u] = "idle"
        /\ Has(c2s, O) => srv[u] = "none"
        /\ u \in shed => srv[u] \in {"open", "closed"}
        /\ \A i, j \in DOMAIN c2s : c2s[i] = O /\ c2s[j] = O => i = j
    BY <2>0 DEF Opening
  <2> HIDE DEF O
  <2>2. ReadOpen(u) => /\ Has(c2s, O) /\ ~Has(c2s', O) /\ srv'[u] = "dialing"
                       /\ UNCHANGED <<copier, reader>>
    <3> SUFFICES ASSUME ReadOpen(u)
                 PROVE  Has(c2s, O) /\ ~Has(c2s', O) /\ srv'[u] = "dialing" /\ UNCHANGED <<copier, reader>>
      OBVIOUS
    <3>1. c2s # <<>> /\ Head(c2s) = O /\ c2s' = Tail(c2s) /\ srv'[u] = "dialing" /\ UNCHANGED <<copier, reader>>
      BY DEF ReadOpen, ServerReads, O, Types
    <3>2. /\ Len(c2s) \in Nat \ {0} /\ DOMAIN c2s = 1 .. Len(c2s) /\ DOMAIN c2s' = 1 .. Len(c2s) - 1
          /\ \A i \in 1 .. Len(c2s) - 1 : c2s'[i] = c2s[i + 1]
          /\ c2s[1] = O /\ Has(c2s, O)
      BY <2>0, <3>1, HasTail
    <3>3. ASSUME NEW i \in DOMAIN c2s' PROVE c2s'[i] # O
      <4>1. i + 1 \in DOMAIN c2s /\ 1 \in DOMAIN c2s /\ i + 1 # 1 /\ c2s'[i] = c2s[i + 1]
        BY <3>2
      <4> QED BY <2>1, <3>2, <4>1
    <3> QED BY <3>1, <3>2, <3>3 DEF Has
  <2>3. \/ c2s' = c2s
        \/ c2s # <<>> /\ c2s' = Tail(c2s)
        \/ \E f \in Upstream : /\ c2s' = Append(c2s, f)
                               /\ f = O => copier[u] = "stored" /\ copier'[u] = "opening"
    BY <1>3, UpMoves DEF O
  <2>4. /\ Has(c2s', O) => Has(c2s, O) \/ (copier[u] = "stored" /\ copier'[u] = "opening")
        /\ \A i, j \in DOMAIN c2s' : c2s'[i] = O /\ c2s'[j] = O => i = j
    <3>1. CASE c2s' = c2s
      BY <2>1, <3>1
    <3>2. CASE c2s # <<>> /\ c2s' = Tail(c2s)
      <4>1. /\ Len(c2s) \in Nat \ {0} /\ DOMAIN c2s = 1 .. Len(c2s) /\ DOMAIN c2s' = 1 .. Len(c2s) - 1
            /\ \A i \in 1 .. Len(c2s) - 1 : c2s'[i] = c2s[i + 1]
            /\ Has(c2s', O) => Has(c2s, O)
        BY <2>0, <3>2, HasTail
      <4>2. ASSUME NEW i \in DOMAIN c2s', NEW j \in DOMAIN c2s', c2s'[i] = O, c2s'[j] = O PROVE i = j
        <5>1. /\ i + 1 \in DOMAIN c2s /\ c2s[i + 1] = O /\ j + 1 \in DOMAIN c2s /\ c2s[j + 1] = O
              /\ i \in Nat /\ j \in Nat
          BY <4>1, <4>2
        <5>2. i + 1 = j + 1
          BY <2>1, <5>1
        <5> QED BY <5>1, <5>2
      <4> QED BY <4>1, <4>2
    <3>3. ASSUME NEW f \in Upstream, c2s' = Append(c2s, f),
                 f = O => copier[u] = "stored" /\ copier'[u] = "opening"
          PROVE  /\ Has(c2s', O) => Has(c2s, O) \/ (copier[u] = "stored" /\ copier'[u] = "opening")
                 /\ \A i, j \in DOMAIN c2s' : c2s'[i] = O /\ c2s'[j] = O => i = j
      <4>1. /\ Len(c2s) \in Nat /\ DOMAIN c2s = 1 .. Len(c2s) /\ DOMAIN c2s' = 1 .. Len(c2s) + 1
            /\ \A i \in 1 .. Len(c2s) : c2s'[i] = c2s[i]
            /\ c2s'[Len(c2s) + 1] = f
            /\ Has(c2s', O) <=> Has(c2s, O) \/ O = f
        BY <2>0, <3>3, HasAppend
      <4>2. f = O => ~Has(c2s, O)
        BY <2>1, <3>3
      <4>3. ASSUME NEW i \in DOMAIN c2s', NEW j \in DOMAIN c2s', c2s'[i] = O, c2s'[j] = O PROVE i = j
        <5>1. CASE f = O
          <6>1. \A m \in DOMAIN c2s : c2s[m] # O
            BY <4>2, <5>1 DEF Has
          <6> QED BY <4>1, <4>3, <6>1
        <5>2. CASE f # O
          <6>1. i \in DOMAIN c2s /\ j \in DOMAIN c2s /\ c2s[i] = O /\ c2s[j] = O
            BY <4>1, <4>3, <5>2
          <6> QED BY <2>1, <6>1
        <5> QED BY <5>1, <5>2
      <4> QED BY <3>3, <4>1, <4>3
    <3> QED BY <2>3, <3>1, <3>2, <3>3
  <2>5. Dialed(u) => srv[u] = "dialing" /\ srv'[u] = "open"
    BY DEF Dialed, Types
  <2>6. srv'[u] \in {"none", "dialing"} => reader'[u] = "idle"
    <3>1. CASE ReadOpen(u)
      BY <2>1, <2>2, <3>1
    <3>2. CASE ~ReadOpen(u)
      BY <2>0, <2>1, <2>5, <3>2, ServerMoves, ReaderMoves
    <3> QED BY <3>1, <3>2
  <2>7. srv[u] = "none" => srv'[u] = "none" \/ ReadOpen(u)
    <3>1. ASSUME srv[u] = "none", ReadClose(u) PROVE srv'[u] = "none"
      BY <3>1 DEF ReadClose
    <3>2. srv[u] = "none" => ~UpstreamOver(u)
      BY <2>1 DEF UpstreamOver
    <3>3. srv[u] = "none" => ~Fails(u)
      BY <2>1 DEF Fails, PumpFails, ShedClose
    <3> QED BY <2>0, <2>5, <3>1, <3>2, <3>3, ServerMoves
  <2>8. copier'[u] \in {"idle", "stored"} => srv'[u] = "none" /\ ~Has(c2s', O)
    <3> SUFFICES ASSUME copier'[u] \in {"idle", "stored"} PROVE srv'[u] = "none" /\ ~Has(c2s', O)
      OBVIOUS
    <3>1. copier[u] \in {"idle", "stored"}
      BY CopierMoves
    <3> QED BY <2>1, <2>2, <2>4, <2>7, <3>1
  <2>9. Has(c2s', O) => srv'[u] = "none"
    <3> SUFFICES ASSUME Has(c2s', O) PROVE srv'[u] = "none"
      OBVIOUS
    <3>1. srv[u] = "none"
      BY <2>1, <2>4
    <3> QED BY <2>2, <2>7, <3>1
  <2>10. u \in shed' => srv'[u] \in {"open", "closed"}
    <3> SUFFICES ASSUME u \in shed', u \in shed PROVE srv'[u] \in {"open", "closed"}
      BY FailedMoves
    <3>1. srv[u] \in {"open", "closed"} /\ ~Has(c2s, O)
      BY <2>1
    <3> QED BY <2>0, <2>2, <2>5, <3>1, ServerMoves
  <2> QED BY <2>4, <2>6, <2>8, <2>9, <2>10
<1>4. copier'[u] = "idle" => u \notin known' /\ u \notin marked'
  <2> SUFFICES ASSUME copier'[u] = "idle" PROVE u \notin known' /\ u \notin marked'
    OBVIOUS
  <2>1. copier[u] = "idle" /\ ~Store(u)
    BY CopierMoves DEF Store, CGoto, Types
  <2> QED BY <2>1, ListMoves DEF Opening
<1> QED BY <1>1, <1>2, <1>3, <1>4 DEF Opening

\* A bridge that is done stays so.
LEMMA DoneStays ==
    ASSUME Types, Next, NEW u \in Streams, Opening(u), bridge[u] = "done"
    PROVE  bridge'[u] = "done"
<1>1. ~Opened(u)
  BY DEF Opened, Opening
<1> QED BY <1>1, BridgeMoves

\* Read returns EOF: the channel is empty, CLOSE was read behind the last chunk,
\* and the server has sent CLOSE because the upstream has ended.
LEMMA EofWhole ==
    ASSUME Types, NEW u \in Streams, Flow(u), Unlisted(u), Ended(u), CopyEof(u),
           wire = "up", loop \notin {"close", "exit"}, bridge[u] # "done", u \notin failed
    PROVE  Len(seen[u]) = Down[u]
<1>1. copier[u] = "copy" /\ incoming[u] = <<>> /\ u \in marked
  BY DEF CopyEof
<1>2. reader[u] = "exit" /\ Silent(u) /\ Listening(u)
  BY <1>1 DEF Unlisted, Alive, Listening
<1>3. taken[u] = Down[u]
  BY <1>2 DEF Ended
<1>4. Len(incoming[u]) = 0 /\ Len(seen[u]) \in Nat
  BY <1>1, EmptySeq DEF Types
<1> DEFINE a == Len(seen[u])
<1>5. Arrived(u) = a
  BY <1>2, <1>4 DEF Arrived, Got, Silent
<1>6. PICK w \in Nat : a <= w /\ w = Written(u) /\ Between(s2c, u, a, w)
  BY <1>2, <1>5 DEF Flow
<1>7. w = taken[u]
  BY <1>2, <1>6 DEF Written
<1> HIDE DEF a
<1>8. a \in Nat
  BY <1>4 DEF a
<1>9. ~Has(s2c, Data(u, a + 1)) /\ a + 1 \in Nat
  BY <1>2, <1>8 DEF Silent
<1>10. ~(a < a + 1 /\ a + 1 <= w)
  BY <1>6, <1>9 DEF Between
<1>11. w = a
  BY <1>6, <1>8, <1>10
<1> QED BY <1>3, <1>7, <1>11 DEF a

\* Only CLOSE from the client, the end of the upstream, and the server giving it up
\* end a stream at the server while the connection is up.
LEMMA EndedStep ==
    ASSUME Types, Next, NEW u \in Streams, Flow(u), Unlisted(u), Opening(u), Ended(u),
           loop \in {"close", "exit"} => wire # "up"
    PROVE  Ended(u)'
<1> DEFINE C == Frame("CLOSE", u)
<1>1. ASSUME wire' = "up", Has(c2s', C) PROVE bridge'[u] = "done"
  <2>0. wire = "up" /\ c2s \in Seq(Upstream)
    BY <1>1, WireMoves DEF Types
  <2>1. Has(c2s, C) => bridge'[u] = "done"
    BY <2>0, DoneStays DEF Ended
  <2>2. CASE c2s' = c2s
    BY <1>1, <2>1, <2>2
  <2>3. CASE c2s # <<>> /\ c2s' = Tail(c2s)
    BY <1>1, <2>0, <2>1, <2>3, HasTail
  <2>4. ASSUME NEW f \in Upstream, c2s' = Append(c2s, f), f = C => bridge'[u] = "done"
        PROVE  bridge'[u] = "done"
    <3>1. Has(c2s, C) \/ C = f
      BY <1>1, <2>0, <2>4, HasAppend
    <3> QED BY <2>1, <2>4, <3>1
  <2> QED BY <1>1, <2>2, <2>3, <2>4, UpMoves
<1>2. ASSUME wire' = "up", srv'[u] = "closed" \/ reader'[u] = "exit"
      PROVE  bridge'[u] = "done" \/ taken'[u] = Down[u] \/ u \in failed'
  <2>0. wire = "up" /\ ~Cut /\ c2s \in Seq(Upstream)
    BY <1>2, WireMoves DEF Types
  <2>1. /\ Has(c2s, C) => bridge[u] = "done"
        /\ srv[u] = "closed" \/ reader[u] = "exit" =>
               bridge[u] = "done" \/ taken[u] = Down[u] \/ u \in failed
    BY <2>0 DEF Ended
  <2>2. ReadClose(u) => bridge[u] = "done"
    <3>1. ReadClose(u) => c2s # <<>> /\ Head(c2s) = C
      BY DEF ReadClose, ServerReads
    <3>2. c2s # <<>> => Has(c2s, Head(c2s))
      BY <2>0, HasTail
    <3> QED BY <2>1, <3>1, <3>2
  <2>3. UpstreamOver(u) => srv[u] = "closed" \/ taken[u] = Down[u]
    BY DEF UpstreamOver
  <2>4. ~ReadUpstream(u)
    <3>1. ReadUpstream(u) => srv'[u] = "open" /\ reader'[u] = "write"
      BY DEF ReadUpstream, RGoto, Types
    <3> QED BY <1>2, <3>1
  <2>5. taken'[u] = taken[u]
    BY <2>4, TakenMoves
  <2>6. ReadOpen(u) => srv'[u] = "dialing"
    BY DEF ReadOpen, Types
  <2>7. Dialed(u) => srv'[u] = "open" /\ reader'[u] = "check"
    BY DEF Dialed, RGoto, Types
  <2>8. bridge[u] = "done" \/ taken[u] = Down[u] \/ u \in failed \/ u \in failed'
    <3>1. CASE srv'[u] = "closed"
      BY <2>0, <2>1, <2>2, <2>3, <2>6, <2>7, <3>1, ServerMoves, FailedMoves
    <3>2. CASE reader'[u] = "exit"
      BY <2>0, <2>1, <2>3, <2>7, <3>2, ReaderMoves
    <3> QED BY <1>2, <3>1, <3>2
  <2> QED BY <2>5, <2>8, DoneStays, FailedMoves
<1>3. ASSUME copier'[u] = "eof", wire' = "up", bridge'[u] # "done", u \notin failed'
      PROVE  Len(seen'[u]) = Down[u]
  <2>0. wire = "up" /\ loop \notin {"close", "exit"} /\ bridge[u] # "done" /\ u \notin failed
    BY <1>3, WireMoves, DoneStays, FailedMoves
  <2>1. CASE CopyEof(u)
    <3>1. Len(seen[u]) = Down[u] /\ seen' = seen
      BY <2>0, <2>1, EofWhole DEF CopyEof
    <3> QED BY <3>1
  <2>2. CASE copier[u] = "eof"
    <3>1. seen'[u] = seen[u]
      <4>1. ~Copy(u)
        BY <2>2 DEF Copy
      <4>2. ASSUME NEW v \in Streams, Copy(v), v # u PROVE seen'[u] = seen[u]
        BY <4>2 DEF Copy, Types
      <4>3. ASSUME NEW v \in Streams,
                   \/ Store(v) \/ SendOpen(v) \/ Opened(v) \/ OpenTimesOut(v) \/ CopyEof(v)
                   \/ AwaitWindow(v) \/ LocalEof(v) \/ LoopCredit(v) \/ MarkClosed(v)
            PROVE  seen' = seen
        BY <4>3 DEF Store, SendOpen, Opened, OpenTimesOut, CopyEof, AwaitWindow, LocalEof,
                    LoopCredit, MarkClosed
      <4>4. LoopClose => seen' = seen
        BY DEF LoopClose
      <4> QED BY <4>1, <4>2, <4>3, <4>4, ClientRests
    <3> QED BY <2>0, <2>2, <3>1 DEF Ended
  <2> QED BY <1>3, <2>1, <2>2, CopierMoves
<1> QED BY <1>1, <1>2, <1>3 DEF Ended

\* The invariant holds at the beginning, whichever streams are open already.
LEMMA SessionInit == Init => SessionInv
<1> SUFFICES ASSUME Init PROVE SessionInv
  OBVIOUS
<1>1. Types /\ loop = "read" /\ wire = "up"
  BY TypesInit DEF Init
<1>2. s2c = <<>> /\ c2s = <<>> /\ DOMAIN s2c = {} /\ DOMAIN c2s = {}
  BY DEF Init
<1>3. \A f : ~Has(s2c, f) /\ ~Has(c2s, f)
  BY <1>2 DEF Has
<1>4. ASSUME NEW u \in Streams
      PROVE  Flow(u) /\ Behind(u) /\ Unlisted(u) /\ Opening(u) /\ Ended(u)
  <2>1. /\ Len(seen[u]) = 0 /\ Len(incoming[u]) = 0 /\ taken[u] = 0 /\ marked = {}
        /\ srv[u] = (IF u \in Fresh THEN "none" ELSE "open")
        /\ reader[u] = (IF u \in Fresh THEN "idle" ELSE "check")
        /\ copier[u] = (IF u \in Fresh THEN "idle" ELSE "copy")
        /\ bridge[u] = (IF u \in Fresh THEN "idle" ELSE "read")
        /\ known = Streams \ Fresh /\ shed = {} /\ failed = {}
    BY DEF Init, Initially
  <2>2. ~InHand(u) /\ Got(u) = 0 /\ Arrived(u) = 0 /\ Written(u) = 0
    BY <1>1, <2>1 DEF InHand, Got, Arrived, Written
  <2>3. Silent(u)
    BY <1>3, <2>2 DEF Silent
  <2>4. Flow(u)
    <3>1. Between(s2c, u, 0, 0) /\ Rising(s2c, u)
      BY <1>2, <1>3 DEF Between, Rising
    <3> QED BY <2>1, <2>2, <3>1 DEF Flow
  <2>5. Behind(u) /\ Unlisted(u)
    BY <1>2, <2>1 DEF Behind, Unlisted
  <2>6. Opening(u) /\ Ended(u)
    BY <1>2, <1>3, <2>1, <2>3 DEF Opening, Ended
  <2> QED BY <2>4, <2>5, <2>6
<1> QED BY <1>1, <1>4 DEF SessionInv

\* The invariant is inductive.
LEMMA SessionStep == SessionInv /\ [Next]_vars => SessionInv'
<1> SUFFICES ASSUME SessionInv, [Next]_vars PROVE SessionInv'
  OBVIOUS
<1>1. CASE Next
  <2>1. Types'
    BY <1>1, TypesStep DEF SessionInv
  <2>2. loop' \in {"close", "exit"} => wire' # "up"
    BY <1>1, WireMoves DEF SessionInv
  <2>3. ASSUME NEW u \in Streams
        PROVE  (Flow(u) /\ Behind(u) /\ Unlisted(u) /\ Opening(u) /\ Ended(u))'
    BY <1>1, <2>3, FlowStep, BehindStep, UnlistedStep, OpeningStep, EndedStep DEF SessionInv
  <2> QED BY <2>1, <2>2, <2>3 DEF SessionInv
<1>2. CASE UNCHANGED vars
  BY <1>2 DEF SessionInv, vars, Types, Flow, Behind, Unlisted, Opening, Ended, Silent, Alive, Listening,
              InHand, Got, Arrived, Written
<1> QED BY <1>1, <1>2

\* Chunks, channel, connection and map agree in every reachable state.
LEMMA SessionInvariant == Spec => []SessionInv
BY SessionInit, SessionStep, PTL DEF Spec

\* What the application behind the test client reads is the upstream's stream, in
\* order and without a gap, whatever the server does to the stream; and if neither
\* it ended the stream nor the connection was lost nor the server gave the stream
\* up, an EOF from stream.Read is the upstream's own, behind the last chunk:
\* markClosed, deliver, the skipped frames and the two ends of the server's reader
\* lose nothing.
THEOREM WholeAtEofHolds == Spec => []WholeAtEof
<1>1. SessionInv => WholeAtEof
  <2> SUFFICES ASSUME SessionInv, NEW u \in Streams
               PROVE  /\ seen[u] = [i \in 1 .. Len(seen[u]) |-> i]
                      /\ copier[u] = "eof" /\ wire = "up" /\ bridge[u] # "done" /\ u \notin failed =>
                             Len(seen[u]) = Down[u]
    BY DEF WholeAtEof
  <2>1. seen[u] \in Seq(Nat) /\ \A i \in 1 .. Len(seen[u]) : seen[u][i] = i
    BY DEF SessionInv, Types, Flow
  <2>2. seen[u] = [i \in 1 .. Len(seen[u]) |-> i]
    BY <2>1
  <2> QED BY <2>2 DEF SessionInv, Ended
<1> QED BY <1>1, SessionInvariant, PTL

\* The two places where the client throws a chunk away: readLoop skips DATA for a
\* stream that is not in the map, deliver drops the chunk of a closed stream.
ThrownAway ==
    \/ LoopData /\ Head(s2c).id \notin known /\ Alive(Head(s2c).id) /\ Head(s2c).id \notin failed
    \/ Deliver /\ held.id \in marked

\* Neither ever hits a stream whose application may yet read: what readLoop skips
\* belongs to an OPEN that timed out, to an application that has left or to a stream
\* the server gave up (DATA of its reader behind the CLOSE of the pump or of the read
\* loop); and a chunk in hand is never one of a stream that CLOSE or session.close
\* has marked.
THEOREM NothingThrownAway == Spec => [][~ThrownAway]_vars
<1>1. ASSUME SessionInv, LoopData, Head(s2c).id \notin known, Head(s2c).id \notin failed
      PROVE  ~Alive(Head(s2c).id)
  <2>1. s2c # <<>> /\ Head(s2c).type = "DATA" /\ s2c \in Seq(Downstream) /\ loop = "read"
    BY <1>1 DEF LoopData, Reads, SessionInv, Types
  <2>2. Head(s2c) \in Downstream /\ Has(s2c, Head(s2c))
    BY <2>1, HasTail
  <2>3. PICK u \in Streams, k \in Nat : Head(s2c) = Data(u, k)
    BY <2>1, <2>2, DownstreamKinds
  <2>4. Head(s2c).id = u
    BY <2>3, FrameFields
  <2>5. ~Silent(u)
    BY <2>2, <2>3 DEF Silent
  <2>6. Unlisted(u) /\ Opening(u)
    BY <1>1 DEF SessionInv
  <2> QED BY <1>1, <2>1, <2>4, <2>5, <2>6 DEF Unlisted, Opening
<1>2. ASSUME SessionInv, Deliver PROVE held.id \notin marked
  <2>1. loop = "deliver"
    BY <1>2 DEF Deliver
  <2>2. PICK u \in Streams, k \in Nat : held = Data(u, k)
    BY <1>2, <2>1 DEF SessionInv, Types
  <2>3. held.id = u
    BY <2>2, FrameFields
  <2>4. Unlisted(u) /\ InHand(u)
    BY <1>2, <2>1, <2>3 DEF SessionInv, InHand
  <2> QED BY <2>1, <2>3, <2>4 DEF Unlisted
<1>3. SessionInv => ~ThrownAway
  BY <1>1, <1>2 DEF ThrownAway
<1> QED BY <1>3, SessionInvariant, PTL
=============================================================================
