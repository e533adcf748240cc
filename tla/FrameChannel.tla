---------------------------- MODULE FrameChannel ----------------------------
(***************************************************************************)
(* One direction of a session's connection: many goroutines write frames   *)
(* through writeStreamFrame and writeFrame, one read loop reads them with  *)
(* readFrame.  A frame goes out in two writes, a length and a ciphertext,  *)
(* and is sealed under a nonce that the reader expects next; all that keeps*)
(* frames apart is writeMu.  Lengths are those of the code.  What the AEAD *)
(* gives is that a ciphertext opens only under the nonce it was sealed     *)
(* with; the contents of a frame are its writer and length.                *)
(*                                                                         *)
(* The server takes its sequence number before the write and the test      *)
(* client (cmd/mxtr-testclient-v2) counts after it: countFirst.            *)
(***************************************************************************)
EXTENDS Integers, Sequences, SequencesExt

CONSTANTS
    Writers,        \* goroutines that write to the connection
    Lengths,        \* the lengths of payload they try
    MaxFrames       \* bound: sequence numbers

ASSUME ChannelAssumption ==
    /\ "free" \notin Writers
    /\ Lengths \subseteq Nat
    /\ MaxFrames \in Nat

VARIABLES
    countFirst,     \* is seqWrite increased before writeFrame (the server) or after?
    pc,             \* of each writer: "idle", "locked", "half" (length written)
    writeMu,        \* its holder, or "free"
    seqWrite,
    frame,          \* of each writer: the frame it is writing
    wire,           \* what was written and not yet read
    broken,         \* the connection fails writes from now on
    seqRead,
    reader,         \* "length", "body", "failed"
    clen,           \* the length it read
    order,          \* history: frames in the order their writers held writeMu
    delivered       \* history: what readFrame returned

vars == <<countFirst, pc, writeMu, seqWrite, frame, wire, broken, seqRead, reader, clen, order, delivered>>
rvars == <<countFirst, seqRead, reader, clen, delivered>>

-----------------------------------------------------------------------------
(* Sizes *)

v2FrameHeader == 7
maxPaddedSize == 16384
maxPlaintextSize == maxPaddedSize - 2
tagSize == 16
maxCiphertextLen == maxPaddedSize + tagSize

padSizes == <<256, 384, 512, 768, 1024, 1536, 2048, 3072, 4096, 6144, 8192, 12288, 16384>>

\* The first rung with room for n, or the last one.
nextPadRung(n) ==
    LET fits == {i \in DOMAIN padSizes : padSizes[i] >= n}
    IN  IF fits = {} THEN Len(padSizes) ELSE CHOOSE i \in fits : \A j \in fits : i <= j

\* That rung or, by chance, the one above it; bumpProbability is never 0 or 100.
pickPadRung(n) ==
    LET i == nextPadRung(n)
    IN  {padSizes[i]} \cup {padSizes[j] : j \in {i + 1} \cap DOMAIN padSizes}

\* The 2-byte fields.
Uint16(n) == n % 65536

\* Mutant: the 2 bytes of the inner length are forgotten.
TooLargeLoosely(n) == n > maxPaddedSize - v2FrameHeader

\* The check of writeStreamFrame, before it takes the lock.  With it writeFrame's own,
\* of header and payload together against maxPlaintextSize, never refuses anything.
TooLarge(n) == n > maxPlaintextSize - v2FrameHeader

\* The sealed inner frame: the length field, and as much of the plaintext as the
\* buffer of the chosen rung takes.
Sealed(w, n, seq, rung) ==
    [part |-> "body", from |-> w, seq |-> seq, size |-> rung + tagSize,
     realLen |-> Uint16(v2FrameHeader + n)]

Prefix(body) == [part |-> "length", size |-> Uint16(body.size)]

-----------------------------------------------------------------------------
Init ==
    /\ countFirst \in BOOLEAN
    /\ pc = [w \in Writers |-> "idle"]
    /\ writeMu = "free"
    /\ seqWrite = 1
    /\ frame = [w \in Writers |-> <<>>]
    /\ wire = <<>>
    /\ broken = FALSE
    /\ seqRead = 1
    /\ reader = "length" /\ clen = 0
    /\ order = <<>> /\ delivered = <<>>

\* Mutant: no mutual exclusion.
LockIsFreeAlways == TRUE

LockIsFree == writeMu = "free"

\* Mutant: the sequence number is taken and never counted.
TakeSameSeq == seqWrite' = seqWrite

TakeSeq == seqWrite' = IF countFirst THEN seqWrite + 1 ELSE seqWrite

\* writeStreamFrame up to the first write: lock, sequence number, padding, seal.
Lock(w, n) ==
    /\ pc[w] = "idle"
    /\ ~TooLarge(n)
    /\ seqWrite <= MaxFrames
    /\ LockIsFree
    /\ writeMu' = w
    /\ TakeSeq
    /\ \E rung \in pickPadRung(v2FrameHeader + n + 2) :
           frame' = [frame EXCEPT ![w] = Sealed(w, n, seqWrite, rung)]
    /\ pc' = [pc EXCEPT ![w] = "locked"]
    /\ UNCHANGED <<wire, broken, rvars, order>>

\* w.Write(lenBuf)
WriteLength(w) ==
    /\ pc[w] = "locked" /\ ~broken
    /\ wire' = Append(wire, Prefix(frame[w]))
    /\ order' = Append(order, frame[w])
    /\ pc' = [pc EXCEPT ![w] = "half"]
    /\ UNCHANGED <<writeMu, seqWrite, frame, broken, rvars>>

\* The client's s.seqWrite++, after a write that succeeded.
CountAfter == seqWrite' = IF countFirst THEN seqWrite ELSE seqWrite + 1

\* w.Write(ct), and unlock.
WriteBody(w) ==
    /\ pc[w] = "half" /\ ~broken
    /\ wire' = Append(wire, frame[w])
    /\ CountAfter
    /\ writeMu' = "free"
    /\ pc' = [pc EXCEPT ![w] = "idle"]
    /\ frame' = [frame EXCEPT ![w] = <<>>]
    /\ UNCHANGED <<broken, rvars, order>>

\* Either write fails: the error is returned, and the deferred unlock runs.
WriteFails(w) ==
    /\ pc[w] \in {"locked", "half"} /\ broken
    /\ writeMu' = "free"
    /\ pc' = [pc EXCEPT ![w] = "idle"]
    /\ frame' = [frame EXCEPT ![w] = <<>>]
    /\ UNCHANGED <<seqWrite, wire, broken, rvars, order>>

\* The connection breaks; what is in the wire may still arrive.
Break ==
    /\ ~broken
    /\ broken' = TRUE
    /\ UNCHANGED <<pc, writeMu, seqWrite, frame, wire, rvars, order>>

-----------------------------------------------------------------------------
(* readFrame.  Bytes that are not what the reader takes them for do not    *)
(* decrypt.                                                                *)

ReadLength ==
    /\ reader = "length" /\ wire # <<>>
    /\ LET item == Head(wire)
           valid == item.part = "length" /\ item.size > 0 /\ item.size <= maxCiphertextLen
       IN  /\ reader' = IF valid THEN "body" ELSE "failed"
           /\ clen' = item.size
    /\ wire' = Tail(wire)
    /\ UNCHANGED <<pc, writeMu, seqWrite, frame, broken, countFirst, seqRead, order, delivered>>

ReadBody ==
    /\ reader = "body" /\ wire # <<>>
    /\ LET item == Head(wire)
           opens == /\ item.part = "body" /\ item.size = clen /\ item.seq = seqRead
                    /\ item.realLen <= item.size - tagSize - 2
       IN  IF opens
           THEN /\ delivered' = Append(delivered, item)
                /\ seqRead' = seqRead + 1
                /\ reader' = "length"
           ELSE reader' = "failed" /\ UNCHANGED <<delivered, seqRead>>
    /\ wire' = Tail(wire)
    /\ UNCHANGED <<pc, writeMu, seqWrite, frame, broken, countFirst, clen, order>>

Next ==
    \/ \E w \in Writers : \/ \E n \in Lengths : Lock(w, n)
                          \/ WriteLength(w) \/ WriteBody(w) \/ WriteFails(w)
    \/ Break
    \/ ReadLength \/ ReadBody

Spec == Init /\ [][Next]_vars

(* A goroutine inside writeFrame goes on unless the connection stalls; the  *)
(* read loop reads what there is.                                           *)
FairSpec ==
    /\ Spec
    /\ WF_vars(ReadLength \/ ReadBody)
    /\ \A w \in Writers : WF_vars(WriteLength(w) \/ WriteBody(w) \/ WriteFails(w))

-----------------------------------------------------------------------------
(* Properties *)

\* Whatever the writers' interleaving and wherever a write fails, the reader
\* gets the frames whole, once, in the order the writers held writeMu, and never
\* meets one it cannot open, also at the limits of the sizes.
Intact == reader # "failed" /\ IsPrefix(delivered, order)

\* No nonce is on the wire twice ("do not introduce a parallel writer"): two
\* frames of which anything was written have different sequence numbers.
NonceFresh ==
    \A i, j \in DOMAIN order : i # j => order[i].seq # order[j].seq

\* A frame that was begun is delivered unless the connection breaks: writers
\* neither stop one another nor the reader for good.
Delivered ==
    \A k \in 1 .. MaxFrames : Len(order) >= k ~> Len(delivered) >= k \/ broken
=============================================================================
