------------------------- MODULE FrameChannelProofs -------------------------
(***************************************************************************)
(* Proofs about FrameChannel, for any number of writers, any lengths of    *)
(* payload and any number of frames: no nonce is used twice (NonceFresh),  *)
(* and the reader gets the frames whole and in order (Intact).             *)
(*                                                                         *)
(* The inductive invariant ChanInv says that every sealed frame fits its   *)
(* length fields (Fitting), that writeMu excludes (Exclusive), that while  *)
(* the connection works the next sequence number is the number of frames   *)
(* begun and one more (Counting), that frame i of the order carries i      *)
(* (Numbered), how much of the order is still in the wire (Measured) and   *)
(* that it is a length, a body, a length... of it (Alternating), and that  *)
(* the reader has had what comes before (Reading).                         *)
(***************************************************************************)
EXTENDS FrameChannel, SequenceTheorems, TLAPS

-----------------------------------------------------------------------------
(* The inductive invariant *)

\* A sealed frame that readFrame opens: the ciphertext's length survives its two
\* bytes and readFrame's check, and the plaintext is shorter than the padding.
Frames ==
    {f \in [part : {"body"}, from : Writers, seq : Nat, size : Nat, realLen : Nat] :
        /\ f.size > 0 /\ f.size <= maxCiphertextLen
        /\ f.realLen <= f.size - tagSize - 2}

Fitting ==
    /\ order \in Seq(Frames)
    /\ frame \in [Writers -> Frames \cup {<<>>}]
    /\ \A w \in Writers : pc[w] # "idle" => frame[w] \in Frames

Types ==
    /\ countFirst \in BOOLEAN
    /\ pc \in [Writers -> {"idle", "locked", "half"}]
    /\ seqWrite \in Nat /\ broken \in BOOLEAN
    /\ wire \in Seq(Frames \cup {Prefix(f) : f \in Frames})
    /\ delivered \in Seq(Frames)

Exclusive == \A w \in Writers : pc[w] # "idle" => writeMu = w

\* What has been counted of the frame in hand.
Ahead == IF countFirst THEN 1 ELSE 0

Counting ==
    ~broken =>
        /\ \A w \in Writers : pc[w] = "locked" =>
               frame[w].seq = Len(order) + 1 /\ seqWrite = Len(order) + 1 + Ahead
        /\ \A w \in Writers : pc[w] = "half" =>
               /\ Len(order) > 0 /\ frame[w] = order[Len(order)]
               /\ seqWrite = Len(order) + Ahead
        /\ (\A w \in Writers : pc[w] = "idle") => seqWrite = Len(order) + 1

Numbered == \A i \in 1 .. Len(order) : order[i].seq = i

\* Writes that the reader has taken.
Taken == 2 * Len(delivered) + (IF reader = "body" THEN 1 ELSE 0)

Measured ==
    /\ Taken + Len(wire) \in {2 * Len(order), 2 * Len(order) - 1}
    /\ ~broken => (Taken + Len(wire) = 2 * Len(order) - 1 <=> \E w \in Writers : pc[w] = "half")

\* The k-th pair of what is in the wire: a body and the length of the next frame
\* if the reader has had the length of the first, otherwise a length and its body.
PairAt(k) ==
    LET d == Len(delivered) IN
    IF reader = "body"
    THEN /\ 2 * k - 1 <= Len(wire) => wire[2 * k - 1] = order[d + k]
         /\ 2 * k <= Len(wire) => wire[2 * k] = Prefix(order[d + k + 1])
    ELSE /\ 2 * k - 1 <= Len(wire) => wire[2 * k - 1] = Prefix(order[d + k])
         /\ 2 * k <= Len(wire) => wire[2 * k] = order[d + k]

Alternating == \A k \in Nat \ {0} : PairAt(k)

Reading ==
    /\ reader \in {"length", "body"}
    /\ reader = "body" => Len(delivered) < Len(order) /\ clen = order[Len(delivered) + 1].size
    /\ seqRead = Len(delivered) + 1
    /\ Len(delivered) <= Len(order)
    /\ \A i \in 1 .. Len(delivered) : delivered[i] = order[i]

ChanInv ==
    Fitting /\ Types /\ Exclusive /\ Counting /\ Numbered /\ Measured /\ Alternating /\ Reading

-----------------------------------------------------------------------------
(* Sizes *)

\* A plaintext that fits into the largest rung goes to a rung with room for it.
LEMMA RungFits ==
    ASSUME NEW n \in Nat, n <= maxPaddedSize, NEW r \in pickPadRung(n)
    PROVE  r \in Nat /\ n <= r /\ r <= maxPaddedSize
<1> DEFINE fits == {j \in DOMAIN padSizes : padSizes[j] >= n}
<1>1. DOMAIN padSizes = 1 .. 13 /\ Len(padSizes) = 13
  BY DEF padSizes
<1>2. /\ \A j \in 1 .. 13 : padSizes[j] \in Nat /\ padSizes[j] <= 16384
      /\ \A j \in 1 .. 12 : padSizes[j] <= padSizes[j + 1]
      /\ padSizes[13] = 16384
  BY DEF padSizes
<1> HIDE DEF fits
<1>3. 13 \in fits /\ \A j \in fits : j \in 1 .. 13 /\ padSizes[j] >= n
  BY <1>1, <1>2 DEF fits, maxPaddedSize
<1>4. \E i \in fits : \A j \in fits : i <= j
  BY <1>3
<1>5. nextPadRung(n) \in fits
  BY <1>3, <1>4 DEF nextPadRung, fits
<1> DEFINE i == nextPadRung(n)
<1>6. r \in {padSizes[i]} \cup {padSizes[j] : j \in {i + 1} \cap DOMAIN padSizes}
  BY DEF pickPadRung
<1> HIDE DEF i
<1>7. i \in 1 .. 13 /\ padSizes[i] >= n
  BY <1>3, <1>5 DEF i
<1>8. CASE r = padSizes[i]
  BY <1>2, <1>7, <1>8 DEF maxPaddedSize
<1>9. CASE i + 1 \in 1 .. 13 /\ r = padSizes[i + 1]
  <2>1. padSizes[i] <= padSizes[i + 1] /\ padSizes[i] \in Nat /\ padSizes[i + 1] \in Nat
    BY <1>2, <1>7, <1>9
  <2> QED BY <2>1, <1>2, <1>7, <1>9 DEF maxPaddedSize
<1> QED BY <1>1, <1>6, <1>8, <1>9

\* What writeStreamFrame seals after its check is a frame that readFrame opens.
LEMMA SealedFits ==
    ASSUME NEW w \in Writers, NEW n \in Lengths, ~TooLarge(n), NEW s \in Nat,
           NEW r \in pickPadRung(v2FrameHeader + n + 2)
    PROVE  Sealed(w, n, s, r) \in Frames /\ Sealed(w, n, s, r).seq = s
<1>1. n \in Nat /\ n <= 16375
  BY ChannelAssumption DEF TooLarge, maxPlaintextSize, maxPaddedSize, v2FrameHeader
<1>2. r \in Nat /\ n + 9 <= r /\ r <= 16384
  <2>1. v2FrameHeader + n + 2 \in Nat /\ v2FrameHeader + n + 2 <= maxPaddedSize
    BY <1>1 DEF v2FrameHeader, maxPaddedSize
  <2> QED BY <2>1, <1>1, RungFits DEF v2FrameHeader, maxPaddedSize
<1>3. Uint16(v2FrameHeader + n) = n + 7
  BY <1>1 DEF Uint16, v2FrameHeader
<1> DEFINE f == [part |-> "body", from |-> w, seq |-> s, size |-> r + 16, realLen |-> n + 7]
<1>4. Sealed(w, n, s, r) = f
  BY <1>3 DEF Sealed, tagSize
<1>5. r + 16 \in Nat /\ r + 16 > 0 /\ r + 16 <= 16384 + 16 /\ n + 7 \in Nat /\ n + 7 <= r + 16 - 16 - 2
  BY <1>1, <1>2
<1>6. f \in [part : {"body"}, from : Writers, seq : Nat, size : Nat, realLen : Nat]
  BY <1>5
<1>7. f.seq = s /\ f.size = r + 16 /\ f.realLen = n + 7
  OBVIOUS
<1> HIDE DEF f
<1>8. f.size > 0 /\ f.size <= maxCiphertextLen /\ f.realLen <= f.size - tagSize - 2
  BY <1>1, <1>2, <1>5, <1>7 DEF maxCiphertextLen, maxPaddedSize, tagSize
<1> QED BY <1>4, <1>6, <1>7, <1>8 DEF Frames

\* The two bytes of the length hold the size of every frame.
LEMMA PrefixExact ==
    ASSUME NEW f \in Frames
    PROVE  /\ Prefix(f) = [part |-> "length", size |-> f.size]
           /\ f.size \in Nat /\ f.size > 0 /\ f.size <= maxCiphertextLen
           /\ f.part = "body" /\ f.seq \in Nat
           /\ f.realLen <= f.size - tagSize - 2
<1>1. f.size \in Nat /\ f.size <= 16400
  BY DEF Frames, maxCiphertextLen, maxPaddedSize, tagSize
<1>2. \A m \in Nat : m <= 16400 => m % 65536 = m
  OBVIOUS
<1>3. Uint16(f.size) = f.size
  BY <1>1, <1>2 DEF Uint16
<1> QED BY <1>3 DEF Prefix, Frames

-----------------------------------------------------------------------------
(* The steps *)

\* The invariant holds when the connection is new.
LEMMA ChanInit == Init => ChanInv
<1> SUFFICES ASSUME Init PROVE ChanInv
  OBVIOUS
<1>1. Fitting /\ Exclusive
  BY DEF Init, Fitting, Exclusive
<1> DEFINE items == Frames \cup {Prefix(f) : f \in Frames}
<1> HIDE DEF items
<1>2. wire \in Seq(items) /\ delivered \in Seq(Frames)
  BY DEF Init
<1>3. Types
  BY <1>2 DEF Init, Types, items
<1>4. Len(order) = 0 /\ Len(wire) = 0 /\ Len(delivered) = 0
  BY DEF Init
<1>5. Counting /\ Numbered /\ Measured /\ Alternating /\ Reading
  BY <1>4 DEF Init, Counting, Numbered, Measured, Alternating, PairAt, Reading, Taken
<1> QED BY <1>1, <1>3, <1>5 DEF ChanInv

\* While a writer holds writeMu, every other one is outside.
LEMMA OthersIdle ==
    ASSUME ChanInv, NEW w \in Writers, pc[w] # "idle", NEW v \in Writers, v # w
    PROVE  pc[v] = "idle"
BY DEF ChanInv, Exclusive

\* What the reader sees does not change: neither wire, order nor reader.
LEMMA ReaderKept ==
    ASSUME ChanInv, UNCHANGED <<wire, order, delivered, reader, clen, seqRead>>
    PROVE  Numbered' /\ Alternating' /\ Reading' /\ Taken' = Taken
BY DEF ChanInv, Numbered, Alternating, PairAt, Reading, Taken

\* writeStreamFrame takes the mutex and seals: all others are outside it.
LEMMA LockStep ==
    ASSUME ChanInv, NEW w \in Writers, NEW n \in Lengths, Lock(w, n)
    PROVE  ChanInv'
<1>1. /\ UNCHANGED <<wire, broken, order, countFirst, seqRead, reader, clen, delivered>>
      /\ pc[w] = "idle" /\ ~TooLarge(n) /\ writeMu = "free" /\ writeMu' = w
      /\ pc' = [pc EXCEPT ![w] = "locked"]
      /\ seqWrite' = IF countFirst THEN seqWrite + 1 ELSE seqWrite
  BY DEF Lock, LockIsFree, TakeSeq, rvars
<1>2. PICK rung \in pickPadRung(v2FrameHeader + n + 2) :
          frame' = [frame EXCEPT ![w] = Sealed(w, n, seqWrite, rung)]
  BY DEF Lock
<1> DEFINE f == Sealed(w, n, seqWrite, rung)
<1>3. seqWrite \in Nat /\ order \in Seq(Frames) /\ pc \in [Writers -> {"idle", "locked", "half"}]
      /\ frame \in [Writers -> Frames \cup {<<>>}] /\ countFirst \in BOOLEAN
  BY DEF ChanInv, Types, Fitting
<1>4. f \in Frames /\ f.seq = seqWrite
  BY <1>1, <1>3, SealedFits
<1> HIDE DEF f
<1>5. frame' = [frame EXCEPT ![w] = f]
  BY <1>2 DEF f
<1>6. \A v \in Writers : pc[v] = "idle"
  BY <1>1, ChannelAssumption DEF ChanInv, Exclusive
<1>7. Fitting' /\ Exclusive'
  BY <1>1, <1>3, <1>4, <1>5, <1>6 DEF ChanInv, Fitting, Exclusive
<1>8. Types'
  BY <1>1, <1>3 DEF ChanInv, Types, Frames
<1>9. Counting'
  <2> SUFFICES ASSUME ~broken PROVE Counting'
    BY <1>1 DEF Counting
  <2>1. seqWrite = Len(order) + 1
    BY <1>6 DEF ChanInv, Counting
  <2>2. frame'[w].seq = Len(order) + 1 /\ pc'[w] = "locked"
    BY <1>1, <1>3, <1>4, <1>5, <2>1
  <2>3. seqWrite' = Len(order) + 1 + Ahead'
    BY <1>1, <1>3, <2>1 DEF Ahead
  <2>4. \A v \in Writers : v # w => pc'[v] = "idle"
    BY <1>1, <1>3, <1>6
  <2> QED BY <1>1, <2>2, <2>3, <2>4 DEF Counting
<1>10. Numbered' /\ Alternating' /\ Reading' /\ Taken' = Taken
  BY <1>1, ReaderKept
<1>11. Measured'
  <2>1. \A v \in Writers : pc[v] # "half" /\ pc'[v] # "half"
    BY <1>1, <1>3, <1>6
  <2> QED BY <1>1, <1>10, <2>1 DEF ChanInv, Measured
<1> QED BY <1>7, <1>8, <1>9, <1>10, <1>11 DEF ChanInv

\* Lengths and types, for the steps that move something.
LEMMA Facts ==
    ASSUME ChanInv
    PROVE  /\ order \in Seq(Frames) /\ delivered \in Seq(Frames)
           /\ wire \in Seq(Frames \cup {Prefix(f) : f \in Frames})
           /\ Len(order) \in Nat /\ Len(delivered) \in Nat /\ Len(wire) \in Nat
           /\ Taken \in Nat /\ seqWrite \in Nat
           /\ pc \in [Writers -> {"idle", "locked", "half"}]
           /\ frame \in [Writers -> Frames \cup {<<>>}]
           /\ reader \in {"length", "body"}
           /\ Len(delivered) <= Len(order)
           /\ Taken + Len(wire) <= 2 * Len(order)
<1>1. /\ order \in Seq(Frames) /\ delivered \in Seq(Frames)
      /\ wire \in Seq(Frames \cup {Prefix(f) : f \in Frames})
      /\ seqWrite \in Nat /\ pc \in [Writers -> {"idle", "locked", "half"}]
      /\ frame \in [Writers -> Frames \cup {<<>>}]
      /\ reader \in {"length", "body"} /\ Len(delivered) <= Len(order)
  BY DEF ChanInv, Fitting, Types, Reading
<1>2. Len(order) \in Nat /\ Len(delivered) \in Nat /\ Len(wire) \in Nat
  BY <1>1, LenProperties
<1>3. Taken \in Nat
  BY <1>2 DEF Taken
<1>4. Taken + Len(wire) <= 2 * Len(order)
  BY <1>2, <1>3 DEF ChanInv, Measured
<1> QED BY <1>1, <1>2, <1>3, <1>4

\* A pair in the wire stays where it is when something is appended, to the wire
\* or to the order; the pair that is new or was half there is for the caller.
LEMMA PairsKept ==
    ASSUME ChanInv, UNCHANGED <<reader, delivered>>,
           NEW x, wire' = Append(wire, x),
           NEW k \in Nat \ {0}, 2 * k <= Len(wire),
           \A i \in 1 .. Len(order) : order'[i] = order[i]
    PROVE  PairAt(k)'
<1> DEFINE d == Len(delivered)
           N == Len(order)
           M == Len(wire)
<1>1. d \in Nat /\ N \in Nat /\ M \in Nat /\ Taken + M <= 2 * N
      /\ wire \in Seq(Frames \cup {Prefix(f) : f \in Frames})
  BY Facts
<1>2. PairAt(k)
  BY DEF ChanInv, Alternating
<1>3. /\ 2 * k - 1 \in 1 .. M /\ 2 * k \in 1 .. M /\ d + k \in 1 .. N
      /\ reader = "body" => d + k + 1 \in 1 .. N
  <2>1. CASE reader = "body"
    <3>1. 2 * d + 1 + M <= 2 * N
      BY <1>1, <2>1 DEF Taken
    <3> HIDE DEF d, N, M
    <3> QED BY <1>1, <3>1 DEF M
  <2>2. CASE reader # "body"
    <3>1. 2 * d + M <= 2 * N
      BY <1>1, <2>2 DEF Taken
    <3> HIDE DEF d, N, M
    <3> QED BY <1>1, <2>2, <3>1 DEF M
  <2> QED BY <2>1, <2>2
<1>4. wire'[2 * k - 1] = wire[2 * k - 1] /\ wire'[2 * k] = wire[2 * k]
  BY <1>1, <1>3, AppendProperties
<1>5. /\ order'[d + k] = order[d + k]
      /\ reader = "body" => order'[d + k + 1] = order[d + k + 1]
  BY <1>3
<1> QED BY <1>2, <1>3, <1>4, <1>5 DEF PairAt

\* What is appended to the wire is the write that comes next: the length of a new
\* frame after a whole one, otherwise the body of the last frame begun.
NextWrite(x) ==
    \/ Taken + Len(wire) = 2 * Len(order) /\ x = Prefix(order'[Len(order) + 1])
    \/ Taken + Len(wire) = 2 * Len(order) - 1 /\ x = order'[Len(order)]

\* The wire still alternates once the write that comes next was appended.
LEMMA PairsAppended ==
    ASSUME ChanInv, UNCHANGED <<reader, delivered>>,
           NEW x, wire' = Append(wire, x), NextWrite(x),
           \A i \in 1 .. Len(order) : order'[i] = order[i]
    PROVE  Alternating'
<1> SUFFICES ASSUME NEW k \in Nat \ {0} PROVE PairAt(k)'
  BY DEF Alternating
<1> DEFINE d == Len(delivered)
           N == Len(order)
           M == Len(wire)
<1>1. d \in Nat /\ N \in Nat /\ M \in Nat /\ Taken + M <= 2 * N
      /\ wire \in Seq(Frames \cup {Prefix(f) : f \in Frames}) /\ reader \in {"length", "body"}
  BY Facts
<1>2. /\ reader = "body" => Taken = 2 * d + 1
      /\ reader = "length" => Taken = 2 * d
  BY DEF Taken
<1>3. /\ Len(wire') = M + 1 /\ wire'[M + 1] = x
      /\ \A i \in 1 .. M : wire'[i] = wire[i]
  BY <1>1, AppendProperties
<1>4. PairAt(k)
  BY DEF ChanInv, Alternating
<1>5. CASE 2 * k <= M
  BY <1>5, PairsKept
<1>6. CASE 2 * k - 1 = M
  <2>1. wire'[2 * k - 1] = wire[2 * k - 1] /\ wire'[2 * k] = x /\ 2 * k = Len(wire')
    <3>1. 2 * k - 1 \in 1 .. M /\ 2 * k = M + 1
      BY <1>1, <1>6
    <3> QED BY <1>3, <3>1
  <2>2. N = d + k
    <3> HIDE DEF d, N, M
    <3>1. Taken + M = 2 * N \/ Taken + M = 2 * N - 1
      BY DEF NextWrite, N, M
    <3> QED BY <1>1, <1>2, <1>6, <3>1
  <2>3. order'[d + k] = order[d + k]
    BY <1>1, <2>2
  <2>4. CASE reader = "body"
    <3>1. Taken + M = 2 * N
      <4> HIDE DEF d, N, M
      <4> QED BY <1>1, <1>2, <1>6, <2>2, <2>4
    <3>2. x = Prefix(order'[d + k + 1])
      <4>1. Taken + M # 2 * N - 1
        <5> HIDE DEF d, N, M
        <5> QED BY <1>1, <3>1
      <4> QED BY <2>2, <4>1 DEF NextWrite
    <3> QED BY <1>1, <1>4, <1>6, <2>1, <2>3, <2>4, <3>2 DEF PairAt
  <2>5. CASE reader = "length"
    <3>1. Taken + M = 2 * N - 1
      <4> HIDE DEF d, N, M
      <4> QED BY <1>1, <1>2, <1>6, <2>2, <2>5
    <3>2. x = order'[d + k]
      <4>1. Taken + M # 2 * N
        <5> HIDE DEF d, N, M
        <5> QED BY <1>1, <3>1
      <4> QED BY <2>2, <4>1 DEF NextWrite
    <3> QED BY <1>1, <1>4, <1>6, <2>1, <2>3, <2>5, <3>2 DEF PairAt
  <2> QED BY <1>1, <2>4, <2>5
<1>7. CASE 2 * k - 1 = M + 1
  <2>1. wire'[2 * k - 1] = x /\ ~(2 * k <= Len(wire'))
    BY <1>1, <1>3, <1>7
  <2>2. CASE reader = "body"
    <3>1. Taken + M = 2 * N - 1 /\ N = d + k
      <4> HIDE DEF d, N, M
      <4>1. Taken + M = 2 * N \/ Taken + M = 2 * N - 1
        BY DEF NextWrite, N, M
      <4> QED BY <1>1, <1>2, <1>7, <2>2, <4>1
    <3>2. x = order'[d + k]
      <4>1. Taken + M # 2 * N
        <5> HIDE DEF d, N, M
        <5> QED BY <1>1, <3>1
      <4> QED BY <3>1, <4>1 DEF NextWrite
    <3> QED BY <2>1, <2>2, <3>2 DEF PairAt
  <2>3. CASE reader = "length"
    <3>1. Taken + M = 2 * N /\ N + 1 = d + k
      <4> HIDE DEF d, N, M
      <4>1. Taken + M = 2 * N \/ Taken + M = 2 * N - 1
        BY DEF NextWrite, N, M
      <4> QED BY <1>1, <1>2, <1>7, <2>3, <4>1
    <3>2. x = Prefix(order'[d + k])
      <4>1. Taken + M # 2 * N - 1
        <5> HIDE DEF d, N, M
        <5> QED BY <1>1, <3>1
      <4> QED BY <3>1, <4>1 DEF NextWrite
    <3> QED BY <2>1, <2>3, <3>2 DEF PairAt
  <2> QED BY <1>1, <2>2, <2>3
<1>8. CASE 2 * k - 1 > M + 1
  BY <1>1, <1>3, <1>8 DEF PairAt
<1>9. 2 * k <= M \/ 2 * k - 1 = M \/ 2 * k - 1 = M + 1 \/ 2 * k - 1 > M + 1
  <2> HIDE DEF d, N, M
  <2> QED BY <1>1
<1> QED BY <1>5, <1>6, <1>7, <1>8, <1>9

\* The first of a frame's two writes begins the frame.
LEMMA WriteLengthStep ==
    ASSUME ChanInv, NEW w \in Writers, WriteLength(w)
    PROVE  ChanInv'
<1> DEFINE f == frame[w]
           N == Len(order)
<1>1. /\ pc[w] = "locked" /\ ~broken
      /\ wire' = Append(wire, Prefix(f)) /\ order' = Append(order, f)
      /\ pc' = [pc EXCEPT ![w] = "half"]
      /\ UNCHANGED <<writeMu, seqWrite, frame, broken, countFirst, seqRead, reader, clen, delivered>>
  BY DEF WriteLength, rvars
<1>2. f \in Frames /\ f.seq = N + 1 /\ seqWrite = N + 1 + Ahead
  BY <1>1 DEF ChanInv, Fitting, Counting
<1>3. N \in Nat /\ order \in Seq(Frames) /\ pc \in [Writers -> {"idle", "locked", "half"}]
      /\ Len(wire) \in Nat /\ Taken \in Nat /\ Len(delivered) \in Nat
      /\ wire \in Seq(Frames \cup {Prefix(g) : g \in Frames})
  BY Facts
<1>4. /\ order' \in Seq(Frames) /\ Len(order') = N + 1 /\ order'[N + 1] = f
      /\ \A i \in 1 .. N : order'[i] = order[i]
  BY <1>1, <1>2, <1>3, AppendProperties
<1>5. \A v \in Writers : v # w => pc[v] = "idle" /\ pc'[v] = "idle"
  BY <1>1, <1>3, OthersIdle
<1>6. pc'[w] = "half" /\ pc' \in [Writers -> {"idle", "locked", "half"}]
  BY <1>1, <1>3
<1> HIDE DEF f
<1>7. Fitting' /\ Exclusive'
  BY <1>1, <1>2, <1>4, <1>5, <1>6 DEF ChanInv, Fitting, Exclusive, f
<1>8. Types'
  <2> DEFINE items == Frames \cup {Prefix(g) : g \in Frames}
  <2>1. Prefix(f) \in items
    BY <1>2
  <2> HIDE DEF items
  <2>2. wire' \in Seq(items)
    BY <1>1, <1>3, <2>1, AppendProperties DEF items
  <2> QED BY <1>1, <1>6, <2>2 DEF ChanInv, Types, items, Frames
<1>9. Counting'
  <2>1. Ahead' = Ahead
    BY <1>1 DEF Ahead
  <2>2. Len(order') > 0 /\ frame'[w] = order'[Len(order')] /\ seqWrite' = Len(order') + Ahead'
    BY <1>1, <1>2, <1>3, <1>4, <2>1 DEF f
  <2> QED BY <1>5, <1>6, <2>2 DEF Counting
<1>10. Numbered'
  BY <1>2, <1>3, <1>4 DEF ChanInv, Numbered
<1>11. Taken + Len(wire) = 2 * N
  BY <1>1, <1>3, <1>5 DEF ChanInv, Measured
<1>12. Measured'
  <2>1. Taken' = Taken /\ Len(wire') = Len(wire) + 1
    BY <1>1, <1>3, AppendProperties DEF Taken
  <2>2. Taken' + Len(wire') = 2 * Len(order') - 1
    <3> DEFINE M == Len(wire)
    <3>1. Len(wire') = M + 1 /\ M \in Nat /\ Taken + M = 2 * N
      BY <1>3, <1>11, <2>1
    <3> HIDE DEF M, N
    <3>2. Taken + (M + 1) = 2 * (N + 1) - 1
      BY <1>3, <3>1
    <3> QED BY <1>4, <2>1, <3>1, <3>2
  <2> QED BY <1>6, <2>2 DEF Measured
<1>13. Alternating'
  <2>1. NextWrite(Prefix(f))
    BY <1>4, <1>11 DEF NextWrite
  <2> QED BY <1>1, <1>4, <2>1, PairsAppended
<1>14. Reading'
  BY <1>1, <1>3, <1>4 DEF ChanInv, Reading
<1> QED BY <1>7, <1>8, <1>9, <1>10, <1>12, <1>13, <1>14 DEF ChanInv

\* The second write completes the frame, and the mutex is given back.
LEMMA WriteBodyStep ==
    ASSUME ChanInv, NEW w \in Writers, WriteBody(w)
    PROVE  ChanInv'
<1> DEFINE f == frame[w]
           N == Len(order)
<1>1. /\ pc[w] = "half" /\ ~broken
      /\ wire' = Append(wire, f)
      /\ seqWrite' = IF countFirst THEN seqWrite ELSE seqWrite + 1
      /\ pc' = [pc EXCEPT ![w] = "idle"] /\ frame' = [frame EXCEPT ![w] = <<>>]
      /\ UNCHANGED <<order, broken, countFirst, seqRead, reader, clen, delivered>>
  BY DEF WriteBody, CountAfter, rvars
<1>2. f \in Frames /\ N > 0 /\ f = order[N] /\ seqWrite = N + Ahead
  BY <1>1 DEF ChanInv, Fitting, Counting
<1>3. N \in Nat /\ order \in Seq(Frames) /\ pc \in [Writers -> {"idle", "locked", "half"}]
      /\ Len(wire) \in Nat /\ Taken \in Nat /\ frame \in [Writers -> Frames \cup {<<>>}]
      /\ wire \in Seq(Frames \cup {Prefix(g) : g \in Frames}) /\ seqWrite \in Nat
  BY Facts
<1>4. \A v \in Writers : pc'[v] = "idle"
  BY <1>1, <1>3, OthersIdle
<1> HIDE DEF f
<1>5. Fitting' /\ Exclusive'
  BY <1>1, <1>3, <1>4 DEF ChanInv, Fitting, Exclusive
<1>6. Types'
  <2> DEFINE items == Frames \cup {Prefix(g) : g \in Frames}
  <2>1. f \in items
    BY <1>2
  <2> HIDE DEF items
  <2>2. wire' \in Seq(items)
    BY <1>1, <1>3, <2>1, AppendProperties DEF items
  <2>3. pc' \in [Writers -> {"idle", "locked", "half"}] /\ seqWrite' \in Nat
    BY <1>1, <1>3
  <2> QED BY <1>1, <2>2, <2>3 DEF ChanInv, Types, items, Frames
<1>7. Counting'
  <2>1. seqWrite' = N + 1
    <3> HIDE DEF N
    <3>1. CASE countFirst
      BY <1>1, <1>2, <1>3, <3>1 DEF Ahead
    <3>2. CASE ~countFirst
      BY <1>1, <1>2, <1>3, <3>2 DEF Ahead
    <3> QED BY <3>1, <3>2
  <2> QED BY <1>1, <1>4, <2>1 DEF Counting
<1>8. Numbered' /\ Reading'
  BY <1>1 DEF ChanInv, Numbered, Reading
<1>9. Taken + Len(wire) = 2 * N - 1
  BY <1>1 DEF ChanInv, Measured
<1>10. Measured'
  <2>1. Taken' = Taken /\ Len(wire') = Len(wire) + 1
    BY <1>1, <1>3, AppendProperties DEF Taken
  <2>2. Taken' + Len(wire') = 2 * Len(order') /\ Len(order') \in Nat
    BY <1>1, <1>3, <1>9, <2>1
  <2> QED BY <1>4, <2>2 DEF Measured
<1>11. Alternating'
  <2>1. NextWrite(f)
    BY <1>1, <1>2, <1>9 DEF NextWrite
  <2>2. \A i \in 1 .. N : order'[i] = order[i]
    BY <1>1
  <2> QED BY <1>1, <2>1, <2>2, PairsAppended
<1> QED BY <1>5, <1>6, <1>7, <1>8, <1>10, <1>11 DEF ChanInv

\* A write that fails leaves a half-written frame behind, on a broken connection.
LEMMA WriteFailsStep ==
    ASSUME ChanInv, NEW w \in Writers, WriteFails(w)
    PROVE  ChanInv'
<1>1. /\ pc[w] # "idle" /\ broken
      /\ pc' = [pc EXCEPT ![w] = "idle"] /\ frame' = [frame EXCEPT ![w] = <<>>]
      /\ UNCHANGED <<seqWrite, wire, order, broken, countFirst, seqRead, reader, clen, delivered>>
  BY DEF WriteFails, rvars
<1>2. pc \in [Writers -> {"idle", "locked", "half"}] /\ frame \in [Writers -> Frames \cup {<<>>}]
  BY Facts
<1>3. \A v \in Writers : pc'[v] = "idle"
  BY <1>1, <1>2, OthersIdle
<1>4. Fitting' /\ Exclusive' /\ Counting'
  BY <1>1, <1>2, <1>3 DEF ChanInv, Fitting, Exclusive, Counting
<1>5. Types'
  BY <1>1, <1>2 DEF ChanInv, Types, Frames
<1>6. Numbered' /\ Alternating' /\ Reading' /\ Taken' = Taken
  BY <1>1, ReaderKept
<1>7. Measured'
  BY <1>1, <1>6 DEF ChanInv, Measured
<1> QED BY <1>4, <1>5, <1>6, <1>7 DEF ChanInv

\* The connection breaks, wherever its writers are.
LEMMA BreakStep ==
    ASSUME ChanInv, Break
    PROVE  ChanInv'
<1>1. /\ broken' = TRUE
      /\ UNCHANGED <<pc, writeMu, seqWrite, frame, wire, order, countFirst, seqRead, reader, clen,
                     delivered>>
  BY DEF Break, rvars
<1>2. Fitting' /\ Exclusive' /\ Counting'
  BY <1>1 DEF ChanInv, Fitting, Exclusive, Counting, Frames
<1>3. Types'
  BY <1>1 DEF ChanInv, Types, Frames
<1>4. Numbered' /\ Alternating' /\ Reading' /\ Taken' = Taken
  BY <1>1, ReaderKept
<1>5. Measured'
  BY <1>1, <1>4 DEF ChanInv, Measured
<1> QED BY <1>2, <1>3, <1>4, <1>5 DEF ChanInv

\* When the reader takes a write, what is left moves up by one.
LEMMA TailFacts ==
    ASSUME ChanInv, wire # <<>>, wire' = Tail(wire)
    PROVE  /\ Len(wire) > 0 /\ Head(wire) = wire[1]
           /\ Len(wire') = Len(wire) - 1
           /\ wire' \in Seq(Frames \cup {Prefix(g) : g \in Frames})
           /\ \A k \in Nat \ {0} :
                  /\ 2 * k - 1 <= Len(wire') => wire'[2 * k - 1] = wire[2 * k]
                  /\ 2 * k <= Len(wire') => wire'[2 * k] = wire[2 * (k + 1) - 1]
<1> DEFINE items == Frames \cup {Prefix(g) : g \in Frames}
           M == Len(wire)
<1>1. wire \in Seq(items) /\ M \in Nat
  BY Facts
<1> HIDE DEF items
<1>2. /\ Len(wire) > 0 /\ Head(wire) = wire[1]
      /\ Len(wire') = M - 1 /\ wire' \in Seq(items)
      /\ \A i \in 1 .. M - 1 : wire'[i] = wire[i + 1]
  BY <1>1
<1> HIDE DEF M
<1>3. ASSUME NEW k \in Nat \ {0}, 2 * k - 1 <= M - 1
      PROVE  wire'[2 * k - 1] = wire[2 * k]
  <2>1. 2 * k - 1 \in 1 .. M - 1 /\ (2 * k - 1) + 1 = 2 * k
    BY <1>1, <1>3
  <2> QED BY <1>2, <2>1
<1>4. ASSUME NEW k \in Nat \ {0}, 2 * k <= M - 1
      PROVE  wire'[2 * k] = wire[2 * (k + 1) - 1]
  <2>1. 2 * k \in 1 .. M - 1 /\ 2 * k + 1 = 2 * (k + 1) - 1
    BY <1>1, <1>4
  <2> QED BY <1>2, <2>1
<1> QED BY <1>2, <1>3, <1>4 DEF items, M

\* The reader takes a length: it is the length of the next frame of the order.
LEMMA ReadLengthStep ==
    ASSUME ChanInv, ReadLength
    PROVE  ChanInv'
<1> DEFINE d == Len(delivered)
           N == Len(order)
           M == Len(wire)
<1>1. /\ reader = "length" /\ wire # <<>> /\ wire' = Tail(wire)
      /\ UNCHANGED <<pc, writeMu, seqWrite, frame, broken, countFirst, seqRead, order, delivered>>
  BY DEF ReadLength
<1>2. d \in Nat /\ N \in Nat /\ M \in Nat /\ order \in Seq(Frames) /\ Taken + M <= 2 * N
  BY Facts
<1>3. M > 0 /\ Head(wire) = wire[1] /\ Len(wire') = M - 1
  BY <1>1, TailFacts
<1>4. Taken = 2 * d
  BY <1>1 DEF Taken
<1>5. d + 1 \in 1 .. N
  <2> HIDE DEF d, N, M
  <2> QED BY <1>2, <1>3, <1>4
<1>6. PairAt(1)
  BY DEF ChanInv, Alternating
<1>7. Head(wire) = Prefix(order[d + 1])
  <2>1. wire[2 * 1 - 1] = Prefix(order[d + 1])
    BY <1>1, <1>2, <1>3, <1>6 DEF PairAt
  <2> QED BY <1>3, <2>1
<1>8. order[d + 1] \in Frames
  BY <1>2, <1>5
<1>9. reader' = "body" /\ clen' = order[d + 1].size
  <2> DEFINE g == order[d + 1]
  <2>1. Prefix(g) = [part |-> "length", size |-> g.size] /\ g.size > 0 /\ g.size <= maxCiphertextLen
    BY <1>8, PrefixExact
  <2> HIDE DEF g
  <2>2. Head(wire).part = "length" /\ Head(wire).size = g.size
    BY <1>7, <2>1 DEF g
  <2> QED BY <2>1, <2>2 DEF ReadLength, g
<1>10. Fitting' /\ Exclusive' /\ Counting' /\ Numbered'
  <2>1. Ahead' = Ahead
    BY <1>1 DEF Ahead
  <2> QED BY <1>1, <2>1 DEF ChanInv, Fitting, Exclusive, Counting, Numbered, Frames
<1>11. Types'
  <2>1. wire' \in Seq(Frames \cup {Prefix(g) : g \in Frames})
    BY <1>1, TailFacts
  <2> QED BY <1>1, <2>1 DEF ChanInv, Types, Frames
<1>12. Taken' + Len(wire') = Taken + M
  <2>1. Taken' = 2 * d + 1
    BY <1>1, <1>9 DEF Taken
  <2> HIDE DEF d, M
  <2> QED BY <1>2, <1>3, <1>4, <2>1
<1>13. Measured'
  BY <1>1, <1>12 DEF ChanInv, Measured
<1>14. Alternating'
  <2> SUFFICES ASSUME NEW k \in Nat \ {0} PROVE PairAt(k)'
    BY DEF Alternating
  <2>1. PairAt(k) /\ PairAt(k + 1)
    BY DEF ChanInv, Alternating
  <2>2. /\ 2 * k <= M => wire[2 * k] = order[d + k]
        /\ 2 * (k + 1) - 1 <= M => wire[2 * (k + 1) - 1] = Prefix(order[d + (k + 1)])
    BY <1>1, <2>1 DEF PairAt
  <2>3. /\ 2 * k - 1 <= Len(wire') => wire'[2 * k - 1] = wire[2 * k]
        /\ 2 * k <= Len(wire') => wire'[2 * k] = wire[2 * (k + 1) - 1]
    BY <1>1, TailFacts
  <2>4. /\ 2 * k - 1 <= Len(wire') => 2 * k <= M
        /\ 2 * k <= Len(wire') => 2 * (k + 1) - 1 <= M
        /\ d + (k + 1) = d + k + 1
    <3> HIDE DEF d, M
    <3> QED BY <1>2, <1>3
  <2> QED BY <1>1, <1>9, <2>2, <2>3, <2>4 DEF PairAt
<1>15. Reading'
  BY <1>1, <1>2, <1>5, <1>9 DEF ChanInv, Reading
<1> QED BY <1>10, <1>11, <1>13, <1>14, <1>15 DEF ChanInv

\* The reader takes a body: it is the frame whose length it has, it opens under
\* the nonce the reader expects, and it is the next of the order.
LEMMA ReadBodyStep ==
    ASSUME ChanInv, ReadBody
    PROVE  ChanInv'
<1> DEFINE d == Len(delivered)
           N == Len(order)
           M == Len(wire)
           g == order[d + 1]
<1>1. /\ reader = "body" /\ wire # <<>> /\ wire' = Tail(wire)
      /\ UNCHANGED <<pc, writeMu, seqWrite, frame, broken, countFirst, clen, order>>
  BY DEF ReadBody
<1>2. d \in Nat /\ N \in Nat /\ M \in Nat /\ order \in Seq(Frames) /\ delivered \in Seq(Frames)
  BY Facts
<1>3. M > 0 /\ Head(wire) = wire[1] /\ Len(wire') = M - 1
  BY <1>1, TailFacts
<1>4. Taken = 2 * d + 1
  BY <1>1 DEF Taken
<1>5. d + 1 \in 1 .. N /\ clen = g.size /\ seqRead = d + 1
  BY <1>1, <1>2 DEF ChanInv, Reading
<1>6. PairAt(1)
  BY DEF ChanInv, Alternating
<1>7. Head(wire) = g
  <2>1. wire[2 * 1 - 1] = g
    BY <1>1, <1>2, <1>3, <1>6 DEF PairAt
  <2> QED BY <1>3, <2>1
<1>8. g \in Frames /\ g.seq = d + 1
  BY <1>2, <1>5 DEF ChanInv, Numbered
<1>9. delivered' = Append(delivered, g) /\ seqRead' = seqRead + 1 /\ reader' = "length"
  <2>1. g.part = "body" /\ g.realLen <= g.size - tagSize - 2
    BY <1>8, PrefixExact
  <2> HIDE DEF g, d
  <2> QED BY <1>5, <1>7, <1>8, <2>1 DEF ReadBody
<1>10. Fitting' /\ Exclusive' /\ Counting' /\ Numbered'
  <2>1. Ahead' = Ahead
    BY <1>1 DEF Ahead
  <2> QED BY <1>1, <2>1 DEF ChanInv, Fitting, Exclusive, Counting, Numbered, Frames
<1>11. /\ delivered' \in Seq(Frames) /\ Len(delivered') = d + 1 /\ delivered'[d + 1] = g
       /\ \A i \in 1 .. d : delivered'[i] = delivered[i]
  <2> HIDE DEF g
  <2> QED BY <1>2, <1>8, <1>9, AppendProperties
<1>12. Types'
  <2>1. wire' \in Seq(Frames \cup {Prefix(h) : h \in Frames})
    BY <1>1, TailFacts
  <2> QED BY <1>1, <1>11, <2>1 DEF ChanInv, Types, Frames
<1>13. Taken' + Len(wire') = Taken + M
  <2>1. Taken' = 2 * (d + 1)
    BY <1>9, <1>11 DEF Taken
  <2> HIDE DEF d, M
  <2> QED BY <1>2, <1>3, <1>4, <2>1
<1>14. Measured'
  BY <1>1, <1>13 DEF ChanInv, Measured
<1>15. Alternating'
  <2> SUFFICES ASSUME NEW k \in Nat \ {0} PROVE PairAt(k)'
    BY DEF Alternating
  <2>1. PairAt(k) /\ PairAt(k + 1)
    BY DEF ChanInv, Alternating
  <2>2. /\ 2 * k <= M => wire[2 * k] = Prefix(order[d + k + 1])
        /\ 2 * (k + 1) - 1 <= M => wire[2 * (k + 1) - 1] = order[d + (k + 1)]
    BY <1>1, <2>1 DEF PairAt
  <2>3. /\ 2 * k - 1 <= Len(wire') => wire'[2 * k - 1] = wire[2 * k]
        /\ 2 * k <= Len(wire') => wire'[2 * k] = wire[2 * (k + 1) - 1]
    BY <1>1, TailFacts
  <2>4. /\ 2 * k - 1 <= Len(wire') => 2 * k <= M
        /\ 2 * k <= Len(wire') => 2 * (k + 1) - 1 <= M
        /\ d + (k + 1) = (d + 1) + k /\ d + k + 1 = (d + 1) + k
    <3> HIDE DEF d, M
    <3> QED BY <1>2, <1>3
  <2> QED BY <1>1, <1>9, <1>11, <2>2, <2>3, <2>4 DEF PairAt
<1>16. Reading'
  <2>1. \A i \in 1 .. Len(delivered') : delivered'[i] = order'[i]
    <3> SUFFICES ASSUME NEW i \in 1 .. d + 1 PROVE delivered'[i] = order[i]
      BY <1>1, <1>11
    <3>1. CASE i = d + 1
      BY <1>11, <3>1
    <3>2. CASE i # d + 1
      <4>1. i \in 1 .. d
        BY <1>2, <3>2
      <4> QED BY <1>11, <4>1 DEF ChanInv, Reading
    <3> QED BY <3>1, <3>2
  <2> QED BY <1>1, <1>2, <1>5, <1>9, <1>11, <2>1 DEF ChanInv, Reading
<1> QED BY <1>10, <1>12, <1>14, <1>15, <1>16 DEF ChanInv

-----------------------------------------------------------------------------
(* The theorems *)

\* In every reachable state of a connection, writeMu excludes, sequence numbers
\* count the frames begun, and the wire is what is left of their order.
THEOREM ChanInvHolds == Spec => []ChanInv
<1>1. ChanInv /\ [Next]_vars => ChanInv'
  <2> SUFFICES ASSUME ChanInv, [Next]_vars PROVE ChanInv'
    OBVIOUS
  <2>1. CASE Next
    BY <2>1, LockStep, WriteLengthStep, WriteBodyStep, WriteFailsStep, BreakStep,
       ReadLengthStep, ReadBodyStep DEF Next
  <2>2. CASE UNCHANGED vars
    <3>1. Fitting' /\ Types' /\ Exclusive' /\ Counting'
      BY <2>2 DEF vars, ChanInv, Fitting, Types, Exclusive, Counting, Frames, Ahead
    <3>2. Numbered' /\ Alternating' /\ Reading' /\ Taken' = Taken
      BY <2>2, ReaderKept DEF vars
    <3>3. Measured'
      BY <2>2, <3>2 DEF vars, ChanInv, Measured
    <3> QED BY <3>1, <3>2, <3>3 DEF ChanInv
  <2> QED BY <2>1, <2>2
<1> QED BY <1>1, ChanInit, PTL DEF Spec

\* However many goroutines write and wherever a write fails, no two frames of
\* which anything was written were sealed under the same nonce.
THEOREM NonceFreshHolds == Spec => []NonceFresh
<1>1. ChanInv => NonceFresh
  <2> SUFFICES ASSUME ChanInv, NEW i \in DOMAIN order, NEW j \in DOMAIN order, i # j
               PROVE  order[i].seq # order[j].seq
    BY DEF NonceFresh
  <2>1. DOMAIN order = 1 .. Len(order)
    BY Facts
  <2> QED BY <2>1 DEF ChanInv, Numbered
<1> QED BY <1>1, ChanInvHolds, PTL

\* The read loop never meets a frame it cannot open and gets the frames whole and
\* in the order in which their writers held writeMu, for payloads of every length.
THEOREM IntactHolds == Spec => []Intact
<1>1. ChanInv => Intact
  <2> SUFFICES ASSUME ChanInv PROVE Intact
    OBVIOUS
  <2> DEFINE d == Len(delivered)
  <2>1. d \in Nat /\ d <= Len(order) /\ order \in Seq(Frames) /\ delivered \in Seq(Frames)
    BY Facts
  <2>2. \A i \in 1 .. d : delivered[i] = order[i]
    BY DEF ChanInv, Reading
  <2>3. SubSeq(delivered, 1, d) = SubSeq(order, 1, d)
    BY <2>1, <2>2
  <2> QED BY <2>1, <2>3 DEF ChanInv, Reading, Intact, IsPrefix
<1> QED BY <1>1, ChanInvHolds, PTL
=============================================================================
