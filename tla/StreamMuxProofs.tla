-------------------------- MODULE StreamMuxProofs ---------------------------
(***************************************************************************)
(* Proofs about StreamMux, for every number of sessions, streams and       *)
(* frames, every assignment of ids and every size of the budgets.          *)
(*                                                                         *)
(* Shape is the inductive invariant the others rest on: besides the types  *)
(* it says which stream a goroutine holds while it is in the middle of     *)
(* closeStream, closeAll or an enqueue, and that closeAll has begun        *)
(* exactly when v2Session.closed is set.  From it follow that the byte     *)
(* budgets of mxtr-server count exactly the bytes that are queued and that *)
(* the caps bound them, however the pump, closeStream and closeAll of      *)
(* every stream of every session interleave; that v2Session.openSem counts *)
(* the handleOpen goroutines in flight, whichever of its five ways out     *)
(* each of them takes; and that the multiplexer is type correct.           *)
(*                                                                         *)
(* The second part is about how streams and sessions end, in every         *)
(* interleaving of closeStream, closeAll, handleOpen and the two           *)
(* goroutines of a stream: what a closed stream has given back             *)
(* (ClosedIsReclaimed), what is left when a session is over (NoOrphan,     *)
(* GlobalReclaimed) and what the peer was told (FailsLoudly).  The first   *)
(* two hold for any assignment of ids to OPENs; the others need            *)
(* DistinctIds, and GlobalReclaimed a peer that waits for OPEN_OK.         *)
(***************************************************************************)
EXTENDS StreamMux, TotalsProofs

Labels == LoopLabels \cup OpenLabels \cup ReaderLabels \cup PumpLabels

SessionTypes ==
    /\ conn \in [Sessions -> {"up", "broken", "closed"}]
    /\ sclosed \in [Sessions -> BOOLEAN]
    /\ streams \in [Sessions -> [Ids -> Opens \cup {None}]]
    /\ openSem \in [Sessions -> Int]
    /\ buffered \in [Sessions -> Int]
    /\ globalBuffered \in Int

StreamTypes ==
    /\ closed \in [Opens -> BOOLEAN]
    /\ upstream \in [Opens -> {"none", "open", "closed"}]
    /\ queue \in [Opens -> Seq(Nat)]
    /\ qbytes \in [Opens -> Int]

LocalTypes ==
    /\ pc \in [Procs -> Labels]
    /\ target \in [Procs -> Opens \cup {None}]
    /\ frameId \in [Sessions -> Ids \cup {None}]
    /\ frameLen \in [Sessions -> ChunkSizes \cup {0}]
    /\ due \in [Sessions -> SUBSET Opens]
    /\ visited \in [Sessions -> SUBSET Ids]
    /\ dataIn \in [Sessions -> 0 .. MaxData]

HistoryTypes ==
    /\ told \in [Opens -> SUBSET {"OPEN_OK", "OPEN_ERR", "CLOSE"}]
    /\ peerClosed \in [Opens -> BOOLEAN]

Types == SessionTypes /\ StreamTypes /\ LocalTypes /\ HistoryTypes

\* Every goroutine is at one of its own control points.
OwnLabels ==
    /\ \A s \in Sessions : pc[Loop(s)] \in LoopLabels
    /\ \A o \in Opens : /\ pc[Opener(o)] \in OpenLabels
                        /\ pc[Reader(o)] \in ReaderLabels
                        /\ pc[Pump(o)] \in PumpLabels

\* The control points at which a goroutine holds a stream of its session.
Holding == {"enqueue", "cs_cas", "cs_reclaim", "ca_cas", "ca_reclaim"}

Targets ==
    \A p \in Procs : pc[p] \in Holding => target[p] \in OpensOf(SessionOf(p))

\* A session's map holds streams of that session.
MapOwner == \A s \in Sessions : \A i \in Ids : streams[s][i] \in OpensOf(s) \cup {None}

\* The read loop has a frame's id at hand when it looks one up.
FrameIds ==
    \A s \in Sessions :
        pc[Loop(s)] \in Holding \cup {"cs_load"} => frameId[s] \in Ids

\* v2Session.closed is set exactly from closeAll on.
LoopPhase ==
    \A s \in Sessions :
        pc[Loop(s)] \in {"ca_range", "ca_cas", "ca_reclaim", "exit"} <=> sclosed[s]

Shape == Types /\ OwnLabels /\ Targets /\ MapOwner /\ FrameIds /\ LoopPhase

-----------------------------------------------------------------------------
\* What StreamMux reads off the name of a goroutine, and that the names of
\* different goroutines differ.
LEMMA ProcKinds ==
    /\ \A s \in Sessions : /\ Loop(s) \in Procs /\ SessionOf(Loop(s)) = s
                           /\ Loop(s)[1] = "loop" /\ Loop(s)[2] = s
    /\ \A o \in Opens :
           /\ Opener(o) \in Procs /\ SessionOf(Opener(o)) = SessOf[o]
           /\ Reader(o) \in Procs /\ SessionOf(Reader(o)) = SessOf[o]
           /\ Pump(o) \in Procs /\ SessionOf(Pump(o)) = SessOf[o]
           /\ Opener(o)[1] = "open" /\ Opener(o)[2] = o
           /\ Reader(o)[1] = "reader" /\ Reader(o)[2] = o
           /\ Pump(o)[1] = "pump" /\ Pump(o)[2] = o
    /\ \A p \in Procs : SessionOf(p) \in Sessions
    /\ \A p \in Procs : \/ p[1] = "loop" /\ p[2] \in Sessions /\ p = Loop(p[2])
                        \/ /\ p[2] \in Opens
                           /\ \/ p[1] = "open" /\ p = Opener(p[2])
                              \/ p[1] = "reader" /\ p = Reader(p[2])
                              \/ p[1] = "pump" /\ p = Pump(p[2])
BY MuxAssumption DEF Procs, OpenProcs, Loop, Opener, Reader, Pump, SessionOf

\* Different goroutines have different names.
LEMMA ProcNames ==
    /\ \A s \in Sessions : Loop(s) \in Procs /\ SessionOf(Loop(s)) = s
    /\ \A o \in Opens : /\ Opener(o) \in Procs /\ SessionOf(Opener(o)) = SessOf[o]
                        /\ Reader(o) \in Procs /\ SessionOf(Reader(o)) = SessOf[o]
                        /\ Pump(o) \in Procs /\ SessionOf(Pump(o)) = SessOf[o]
    /\ \A s, t \in Sessions : Loop(s) = Loop(t) => s = t
    /\ \A o, u \in Opens :
           Opener(o) = Opener(u) \/ Reader(o) = Reader(u) \/ Pump(o) = Pump(u) => o = u
    /\ \A s \in Sessions, o \in Opens :
           Loop(s) # Opener(o) /\ Loop(s) # Reader(o) /\ Loop(s) # Pump(o)
    /\ \A o, u \in Opens :
           Opener(o) # Reader(u) /\ Opener(o) # Pump(u) /\ Reader(o) # Pump(u)
BY DEF Procs, OpenProcs, Loop, Opener, Reader, Pump, SessionOf

\* What the proofs use of the assumptions on the constants.
LEMMA ConstTypes ==
    SessOf \in [Opens -> Sessions] /\ IdOf \in [Opens -> Ids] /\ None \notin Opens
BY MuxAssumption

\* Chunk lengths are numbers up to MaxChunk.
LEMMA ChunkTypes == \A n \in ChunkSizes \cup {0} : n \in Nat /\ n <= MaxChunk
<1>1. MaxChunk \in Nat /\ ChunkSizes \subseteq 0 .. MaxChunk
  BY MuxAssumption
<1> QED BY <1>1

\* Facts that hold wherever Shape does and that the steps below share: the
\* frame length is a number, and the loop that holds a stream holds one of its
\* own session.
LEMMA LoopHolds ==
    ASSUME Shape, NEW s \in Sessions
    PROVE  /\ frameLen[s] \in Nat
           /\ pc[Loop(s)] \in Holding =>
                  /\ target[Loop(s)] \in Opens /\ SessOf[target[Loop(s)]] = s
                  /\ frameId[s] \in Ids
<1>1. frameLen[s] \in ChunkSizes \cup {0}
  BY DEF Shape, Types, LocalTypes
<1>2. frameLen[s] \in Nat
  BY <1>1, ChunkTypes
<1>3. pc[Loop(s)] \in Holding => target[Loop(s)] \in OpensOf(s) /\ frameId[s] \in Ids
  BY ProcNames DEF Shape, Targets, FrameIds
<1> QED BY <1>2, <1>3 DEF OpensOf

\* The same for any goroutine inside closeStream.
LEMMA CloserHolds ==
    ASSUME Shape, NEW p \in Procs
    PROVE  /\ SessionOf(p) \in Sessions
           /\ pc[p] \in Holding =>
                  target[p] \in Opens /\ SessOf[target[p]] = SessionOf(p)
           /\ pc[p] = "cs_load" => StreamId(p) \in Ids
<1>1. SessionOf(p) \in Sessions
  BY ProcKinds
<1>2. pc[p] \in Holding => target[p] \in Opens /\ SessOf[target[p]] = SessionOf(p)
  BY DEF Shape, Targets, OpensOf
<1>3. ASSUME pc[p] = "cs_load" PROVE StreamId(p) \in Ids
  <2>1. CASE p[1] = "loop"
    BY <1>3, <2>1, ProcKinds DEF Shape, FrameIds, StreamId, Holding
  <2>2. CASE p[1] # "loop"
    BY <1>3, <2>2, ProcKinds, ConstTypes DEF StreamId
  <2> QED BY <2>1, <2>2
<1> QED BY <1>1, <1>2, <1>3

\* Init has the shape.
LEMMA ShapeInit == Init => Shape
<1> SUFFICES ASSUME Init PROVE Shape
  OBVIOUS
<1> USE MuxAssumption DEF Init
<1>1. Types
  BY DEF Types, SessionTypes, StreamTypes, LocalTypes, HistoryTypes, Labels,
         LoopLabels, OpenLabels
<1>2. OwnLabels /\ Targets /\ FrameIds /\ LoopPhase
  BY DEF OwnLabels, Targets, FrameIds, LoopPhase, Holding, LoopLabels, OpenLabels,
         ReaderLabels, PumpLabels, Procs, OpenProcs, Loop, Opener, Reader, Pump
<1>3. MapOwner
  BY DEF MapOwner
<1> QED
  BY <1>1, <1>2, <1>3 DEF Shape

\* The count of DATA frames stays within its bound.
LEMMA DataCounted ==
    ASSUME Shape, NEW s \in Sessions, NEW i \in Ids, PeerSendsData(s, i)
    PROVE  dataIn' \in [Sessions -> 0 .. MaxData]
<1>1. MaxData \in Nat
  BY MuxAssumption
<1>2. dataIn \in [Sessions -> 0 .. MaxData] /\ dataIn[s] < MaxData
  BY DEF Shape, Types, LocalTypes, PeerSendsData
<1> QED BY <1>1, <1>2 DEF PeerSendsData

\* Steps that move no goroutine.
LEMMA QuietShape ==
    ASSUME Shape, NEW s \in Sessions,
           ConnBreaks(s) \/ ReapConn(s) \/ (\E i \in Ids : SkipData(s, i))
    PROVE  Shape'
<1>1. /\ UNCHANGED <<sclosed, streams, openSem, buffered, globalBuffered>>
      /\ UNCHANGED <<closed, upstream, queue, qbytes, pc, told, peerClosed>>
      /\ UNCHANGED <<target, frameId, frameLen, due, visited>>
  BY DEF ConnBreaks, ReapConn, SkipData, svars, ovars, lvars, hvars
<1>2. /\ conn' \in [Sessions -> {"up", "broken", "closed"}]
      /\ dataIn' \in [Sessions -> 0 .. MaxData]
  <2>1. CASE ConnBreaks(s) \/ ReapConn(s)
    BY <2>1 DEF Shape, Types, SessionTypes, LocalTypes, ConnBreaks, ReapConn, lvars
  <2>2. CASE \E i \in Ids : SkipData(s, i)
    BY <2>2, DataCounted DEF Shape, Types, SessionTypes, SkipData, svars
  <2> QED BY <2>1, <2>2
<1>3. Types' /\ OwnLabels' /\ MapOwner'
  BY <1>1, <1>2 DEF Shape, Types, SessionTypes, StreamTypes, LocalTypes, HistoryTypes,
                   OwnLabels, MapOwner
<1>4. Targets' /\ FrameIds' /\ LoopPhase'
  BY <1>1 DEF Shape, Targets, FrameIds, LoopPhase
<1> QED BY <1>3, <1>4 DEF Shape

\* ReadOpen: the read loop takes a token and starts handleOpen.
LEMMA ReadOpenShape ==
    ASSUME Shape, NEW o \in Opens, ReadOpen(o)
    PROVE  Shape'
<1> USE ConstTypes, ProcNames DEF Shape, Types
<1>1. pc[Opener(o)] = "idle" /\ SessOf[o] \in Sessions
  BY DEF ReadOpen, At
<1>2. Types'
  <2>1. SessionTypes'
    BY <1>1 DEF SessionTypes, ReadOpen
  <2>2. StreamTypes'
    BY <1>1 DEF StreamTypes, ReadOpen, ovars
  <2>3. pc' \in [Procs -> Labels]
    BY <1>1 DEF LocalTypes, ReadOpen, Goto, At, Labels, LoopLabels, OpenLabels, ReaderLabels, PumpLabels, CloseLabels
  <2>4. LocalTypes'
    BY <1>1, <2>3 DEF LocalTypes, ReadOpen, lvars
  <2>5. HistoryTypes'
    BY <1>1 DEF HistoryTypes, ReadOpen, hvars
  <2> QED BY <2>1, <2>2, <2>4, <2>5
<1>3. OwnLabels'
  BY <1>1 DEF LocalTypes, OwnLabels, ReadOpen, Goto, At, LoopLabels, OpenLabels, ReaderLabels, PumpLabels, CloseLabels
<1>4. Targets'
  BY <1>1 DEF LocalTypes, Targets, Holding, ReadOpen, Goto, At, lvars
<1>5. MapOwner'
  BY <1>1 DEF MapOwner, ReadOpen
<1>6. FrameIds'
  BY <1>1 DEF LocalTypes, FrameIds, Holding, ReadOpen, Goto, At, lvars
<1>7. LoopPhase'
  BY <1>1 DEF LocalTypes, SessionTypes, LoopPhase, ReadOpen, Goto, At
<1> QED
  BY <1>2, <1>3, <1>4, <1>5, <1>6, <1>7

\* RefuseOpen: the OPEN is answered "server busy" and its handleOpen never runs.
LEMMA RefuseOpenShape ==
    ASSUME Shape, NEW o \in Opens, RefuseOpen(o)
    PROVE  Shape'
<1> USE ConstTypes, ProcNames DEF Shape, Types
<1>1. pc[Opener(o)] = "idle" /\ SessOf[o] \in Sessions
  BY DEF RefuseOpen, At
<1>2. Types'
  <2>1. SessionTypes'
    BY <1>1 DEF SessionTypes, RefuseOpen, svars
  <2>2. StreamTypes'
    BY <1>1 DEF StreamTypes, RefuseOpen, ovars
  <2>3. pc' \in [Procs -> Labels]
    BY <1>1 DEF LocalTypes, RefuseOpen, Goto, At, Labels, LoopLabels, OpenLabels, ReaderLabels, PumpLabels, CloseLabels
  <2>4. LocalTypes'
    BY <1>1, <2>3 DEF LocalTypes, RefuseOpen, lvars
  <2>5. HistoryTypes'
    BY <1>1 DEF HistoryTypes, RefuseOpen, Notify, Written, Kept, WriteFails
  <2> QED BY <2>1, <2>2, <2>4, <2>5
<1>3. OwnLabels'
  BY <1>1 DEF LocalTypes, OwnLabels, RefuseOpen, Goto, At, LoopLabels, OpenLabels, ReaderLabels, PumpLabels, CloseLabels
<1>4. Targets'
  BY <1>1 DEF LocalTypes, Targets, Holding, RefuseOpen, Goto, At, lvars, svars
<1>5. MapOwner'
  BY <1>1 DEF MapOwner, RefuseOpen, svars
<1>6. FrameIds'
  BY <1>1 DEF LocalTypes, FrameIds, Holding, RefuseOpen, Goto, At, lvars, svars
<1>7. LoopPhase'
  BY <1>1 DEF LocalTypes, SessionTypes, LoopPhase, RefuseOpen, Goto, At, svars
<1> QED
  BY <1>2, <1>3, <1>4, <1>5, <1>6, <1>7

\* ReadData: the loop now holds a stream of its own session.
LEMMA ReadDataShape ==
    ASSUME Shape, NEW s \in Sessions, NEW i \in Ids, NEW n \in ChunkSizes, ReadData(s, i, n)
    PROVE  Shape'
<1> USE ConstTypes, ProcNames DEF Shape, Types
<1>1. /\ pc[Loop(s)] = "read" /\ streams[s][i] \in OpensOf(s)
      /\ streams[s][i] \in Opens
  BY DEF MapOwner, OpensOf, ReadData, PeerSendsData, Reading, At
<1>2. Types'
  <2>1. SessionTypes'
    BY <1>1 DEF SessionTypes, ReadData, svars
  <2>2. StreamTypes'
    BY <1>1 DEF StreamTypes, ReadData, ovars
  <2>3. pc' \in [Procs -> Labels]
    BY <1>1 DEF LocalTypes, ReadData, Goto, At, Labels, LoopLabels, OpenLabels, ReaderLabels, PumpLabels, CloseLabels
  <2>4. LocalTypes'
    <3>1. dataIn' \in [Sessions -> 0 .. MaxData]
      BY DataCounted DEF ReadData
    <3> QED BY <1>1, <2>3, <3>1 DEF LocalTypes, ReadData
  <2>5. HistoryTypes'
    BY <1>1 DEF HistoryTypes, ReadData, hvars
  <2> QED BY <2>1, <2>2, <2>4, <2>5
<1>3. OwnLabels'
  BY <1>1 DEF LocalTypes, OwnLabels, ReadData, Goto, At, LoopLabels, OpenLabels, ReaderLabels, PumpLabels, CloseLabels
<1>4. Targets'
  BY <1>1 DEF LocalTypes, Targets, Holding, ReadData, Goto, At
<1>5. MapOwner'
  BY <1>1 DEF MapOwner, ReadData, svars
<1>6. FrameIds'
  BY <1>1 DEF LocalTypes, FrameIds, Holding, ReadData, Goto, At
<1>7. LoopPhase'
  BY <1>1 DEF LocalTypes, SessionTypes, LoopPhase, ReadData, Goto, At, svars
<1> QED
  BY <1>2, <1>3, <1>4, <1>5, <1>6, <1>7

\* ShedStream: the loop goes into closeStream with the frame's id at hand.
LEMMA ShedStreamShape ==
    ASSUME Shape, NEW s \in Sessions, NEW i \in Ids, NEW n \in ChunkSizes, ShedStream(s, i, n)
    PROVE  Shape'
<1> USE ConstTypes, ProcNames DEF Shape, Types
<1>1. pc[Loop(s)] = "read" /\ streams[s][i] \in Opens
  BY DEF MapOwner, OpensOf, ShedStream, PeerSendsData, Reading, At
<1>2. Types'
  <2>1. SessionTypes'
    BY <1>1 DEF SessionTypes, ShedStream, svars
  <2>2. StreamTypes'
    BY <1>1 DEF StreamTypes, ShedStream, ovars
  <2>3. pc' \in [Procs -> Labels]
    BY <1>1 DEF LocalTypes, ShedStream, Goto, At, Labels, LoopLabels, OpenLabels, ReaderLabels, PumpLabels, CloseLabels
  <2>4. LocalTypes'
    <3>1. dataIn' \in [Sessions -> 0 .. MaxData]
      BY DataCounted DEF ShedStream
    <3> QED BY <1>1, <2>3, <3>1 DEF LocalTypes, ShedStream
  <2>5. HistoryTypes'
    BY <1>1 DEF HistoryTypes, ShedStream, Notify, Written, Kept, WriteFails
  <2> QED BY <2>1, <2>2, <2>4, <2>5
<1>3. OwnLabels'
  BY <1>1 DEF LocalTypes, OwnLabels, ShedStream, Goto, At, LoopLabels, OpenLabels, ReaderLabels, PumpLabels, CloseLabels
<1>4. Targets'
  BY <1>1 DEF LocalTypes, Targets, Holding, ShedStream, Goto, At
<1>5. MapOwner'
  BY <1>1 DEF MapOwner, ShedStream, svars
<1>6. FrameIds'
  BY <1>1 DEF LocalTypes, FrameIds, Holding, ShedStream, Goto, At
<1>7. LoopPhase'
  BY <1>1 DEF LocalTypes, SessionTypes, LoopPhase, ShedStream, Goto, At, svars
<1> QED
  BY <1>2, <1>3, <1>4, <1>5, <1>6, <1>7

\* Enqueue: the loop lets go of the stream and wakes its pump.
LEMMA EnqueueShape ==
    ASSUME Shape, NEW s \in Sessions, Enqueue(s)
    PROVE  Shape'
<1> USE ConstTypes, ProcNames DEF Shape, Types
<1>1. /\ pc[Loop(s)] = "enqueue" /\ target[Loop(s)] \in Opens
      /\ frameLen[s] \in Nat
  BY LoopHolds DEF Enqueue, At, Holding
<1>2. Types'
  <2>1. SessionTypes'
    BY <1>1 DEF SessionTypes, Enqueue
  <2>2. StreamTypes'
    BY <1>1 DEF StreamTypes, Enqueue
  <2>3. pc' \in [Procs -> Labels]
    BY <1>1 DEF LocalTypes, Enqueue, GotoAndWake, Labels, LoopLabels, OpenLabels, ReaderLabels, PumpLabels, CloseLabels
  <2>4. LocalTypes'
    BY <1>1, <2>3 DEF LocalTypes, Enqueue, LoopForgets
  <2>5. HistoryTypes'
    BY <1>1 DEF HistoryTypes, Enqueue, hvars
  <2> QED BY <2>1, <2>2, <2>4, <2>5
<1>3. OwnLabels'
  BY <1>1 DEF LocalTypes, OwnLabels, Enqueue, GotoAndWake, LoopLabels, OpenLabels, ReaderLabels, PumpLabels, CloseLabels
<1>4. Targets'
  BY <1>1 DEF LocalTypes, Targets, Holding, Enqueue, GotoAndWake, LoopForgets
<1>5. MapOwner'
  BY <1>1 DEF MapOwner, Enqueue
<1>6. FrameIds'
  BY <1>1 DEF LocalTypes, FrameIds, Holding, Enqueue, GotoAndWake, LoopForgets
<1>7. LoopPhase'
  BY <1>1 DEF LocalTypes, SessionTypes, LoopPhase, Enqueue, GotoAndWake
<1> QED
  BY <1>2, <1>3, <1>4, <1>5, <1>6, <1>7

\* DropChunk: the loop lets go of a stream that was closed meanwhile.
LEMMA DropChunkShape ==
    ASSUME Shape, NEW s \in Sessions, DropChunk(s)
    PROVE  Shape'
<1> USE ConstTypes, ProcNames DEF Shape, Types
<1>1. pc[Loop(s)] = "enqueue"
  BY DEF DropChunk, At
<1>2. Types'
  <2>1. SessionTypes'
    BY <1>1 DEF SessionTypes, DropChunk, svars
  <2>2. StreamTypes'
    BY <1>1 DEF StreamTypes, DropChunk, ovars
  <2>3. pc' \in [Procs -> Labels]
    BY <1>1 DEF LocalTypes, DropChunk, Goto, Labels, LoopLabels, OpenLabels, ReaderLabels, PumpLabels, CloseLabels
  <2>4. LocalTypes'
    BY <1>1, <2>3 DEF LocalTypes, DropChunk, LoopForgets
  <2>5. HistoryTypes'
    BY <1>1 DEF HistoryTypes, DropChunk, hvars
  <2> QED BY <2>1, <2>2, <2>4, <2>5
<1>3. OwnLabels'
  BY <1>1 DEF LocalTypes, OwnLabels, DropChunk, Goto, LoopLabels, OpenLabels, ReaderLabels, PumpLabels, CloseLabels
<1>4. Targets'
  BY <1>1 DEF LocalTypes, Targets, Holding, DropChunk, Goto, LoopForgets
<1>5. MapOwner'
  BY <1>1 DEF MapOwner, DropChunk, svars
<1>6. FrameIds'
  BY <1>1 DEF LocalTypes, FrameIds, Holding, DropChunk, Goto, LoopForgets
<1>7. LoopPhase'
  BY <1>1 DEF LocalTypes, SessionTypes, LoopPhase, DropChunk, Goto, svars
<1> QED
  BY <1>2, <1>3, <1>4, <1>5, <1>6, <1>7

\* ReadClose: the loop goes into closeStream with the frame's id at hand.
LEMMA ReadCloseShape ==
    ASSUME Shape, NEW s \in Sessions, NEW i \in Ids, ReadClose(s, i)
    PROVE  Shape'
<1> USE ConstTypes, ProcNames DEF Shape, Types
<1>1. pc[Loop(s)] = "read"
  BY DEF ReadClose, Reading, At
<1>2. Types'
  <2>1. SessionTypes'
    BY <1>1 DEF SessionTypes, ReadClose, svars
  <2>2. StreamTypes'
    BY <1>1 DEF StreamTypes, ReadClose, ovars
  <2>3. pc' \in [Procs -> Labels]
    BY <1>1 DEF LocalTypes, ReadClose, Goto, At, Labels, LoopLabels, OpenLabels, ReaderLabels, PumpLabels, CloseLabels
  <2>4. LocalTypes'
    BY <1>1, <2>3 DEF LocalTypes, ReadClose
  <2>5. HistoryTypes'
    BY <1>1 DEF HistoryTypes, ReadClose
  <2> QED BY <2>1, <2>2, <2>4, <2>5
<1>3. OwnLabels'
  BY <1>1 DEF LocalTypes, OwnLabels, ReadClose, Goto, At, LoopLabels, OpenLabels, ReaderLabels, PumpLabels, CloseLabels
<1>4. Targets'
  BY <1>1 DEF LocalTypes, Targets, Holding, ReadClose, Goto, At
<1>5. MapOwner'
  BY <1>1 DEF MapOwner, ReadClose, svars
<1>6. FrameIds'
  BY <1>1 DEF LocalTypes, FrameIds, Holding, ReadClose, Goto, At
<1>7. LoopPhase'
  BY <1>1 DEF LocalTypes, SessionTypes, LoopPhase, ReadClose, Goto, At, svars
<1> QED
  BY <1>2, <1>3, <1>4, <1>5, <1>6, <1>7

\* CloseLoad: LoadAndDelete hands the caller a stream of its own session.
LEMMA CloseLoadShape ==
    ASSUME Shape, NEW p \in Procs, CloseLoad(p)
    PROVE  Shape'
<1> USE ConstTypes, ProcNames DEF Shape, Types
<1>1. /\ pc[p] = "cs_load" /\ SessionOf(p) \in Sessions
      /\ StreamId(p) \in Ids
      /\ streams[SessionOf(p)][StreamId(p)] \in Opens \cup {None}
  BY CloserHolds DEF CloseLoad, At, Holding, SessionTypes
<1>2. Types'
  <2>1. SessionTypes'
    BY <1>1 DEF SessionTypes, CloseLoad
  <2>2. StreamTypes'
    BY <1>1 DEF StreamTypes, CloseLoad, ovars
  <2>3. pc' \in [Procs -> Labels]
    BY <1>1 DEF LocalTypes, CloseLoad, Goto, Labels, LoopLabels, OpenLabels, ReaderLabels, PumpLabels, CloseLabels
  <2>4. LocalTypes'
    BY <1>1, <2>3 DEF LocalTypes, CloseLoad
  <2>5. HistoryTypes'
    BY <1>1 DEF HistoryTypes, CloseLoad, hvars
  <2> QED BY <2>1, <2>2, <2>4, <2>5
<1>3. OwnLabels'
  BY <1>1, ProcKinds DEF LocalTypes, OwnLabels, CloseLoad, Goto, LoopLabels, OpenLabels, ReaderLabels, PumpLabels, CloseLabels
<1>4. Targets'
  BY <1>1 DEF LocalTypes, Targets, Holding, CloseLoad, Goto, MapOwner
<1>5. MapOwner'
  BY <1>1 DEF SessionTypes, MapOwner, CloseLoad
<1>6. FrameIds'
  BY <1>1, ProcKinds DEF LocalTypes, FrameIds, Holding, CloseLoad, Goto, MapOwner
<1>7. LoopPhase'
  BY <1>1, ProcKinds DEF LocalTypes, SessionTypes, LoopPhase, CloseLoad, Goto
<1> QED
  BY <1>2, <1>3, <1>4, <1>5, <1>6, <1>7

\* CloseMisses: closeStream returns having found nothing.
LEMMA CloseMissesShape ==
    ASSUME Shape, NEW p \in Procs, CloseMisses(p)
    PROVE  Shape'
<1> USE ConstTypes, ProcNames DEF Shape, Types
<1>1. pc[p] = "cs_load" /\ SessionOf(p) \in Sessions
  BY CloserHolds DEF CloseMisses, At, Holding
<1>2. Types'
  <2>1. SessionTypes'
    BY <1>1 DEF SessionTypes, CloseMisses, CloseReturns
  <2>2. StreamTypes'
    BY <1>1 DEF StreamTypes, CloseMisses, CloseUpstreams
  <2>3. pc' \in [Procs -> Labels]
    BY <1>1 DEF LocalTypes, CloseMisses, Goto, AfterClose, Labels, LoopLabels, OpenLabels, ReaderLabels, PumpLabels, CloseLabels
  <2>4. LocalTypes'
    BY <1>1, <2>3 DEF LocalTypes, CloseMisses, CloseReturns
  <2>5. HistoryTypes'
    BY <1>1 DEF HistoryTypes, CloseMisses, hvars
  <2> QED BY <2>1, <2>2, <2>4, <2>5
<1>3. OwnLabels'
  BY <1>1, ProcKinds DEF LocalTypes, OwnLabels, CloseMisses, Goto, AfterClose, LoopLabels, OpenLabels, ReaderLabels, PumpLabels, CloseLabels
<1>4. Targets'
  BY <1>1 DEF LocalTypes, Targets, Holding, CloseMisses, Goto, AfterClose, CloseReturns
<1>5. MapOwner'
  BY <1>1 DEF MapOwner, CloseMisses
<1>6. FrameIds'
  BY <1>1, ProcKinds DEF LocalTypes, FrameIds, Holding, CloseMisses, Goto, AfterClose, CloseReturns
<1>7. LoopPhase'
  BY <1>1, ProcKinds DEF LocalTypes, SessionTypes, LoopPhase, CloseMisses, Goto, AfterClose
<1> QED
  BY <1>2, <1>3, <1>4, <1>5, <1>6, <1>7

\* CloseCas: the stream is marked closed; its closer still holds it.
LEMMA CloseCasShape ==
    ASSUME Shape, NEW p \in Procs, CloseCas(p)
    PROVE  Shape'
<1> USE ConstTypes, ProcNames DEF Shape, Types
<1>1. pc[p] = "cs_cas" /\ target[p] \in Opens
  BY CloserHolds DEF CloseCas, At, Holding
<1>2. Types'
  <2>1. SessionTypes'
    BY <1>1 DEF SessionTypes, CloseCas, svars
  <2>2. StreamTypes'
    BY <1>1 DEF StreamTypes, CloseCas
  <2>3. pc' \in [Procs -> Labels]
    BY <1>1 DEF LocalTypes, CloseCas, Goto, Labels, LoopLabels, OpenLabels, ReaderLabels, PumpLabels, CloseLabels
  <2>4. LocalTypes'
    BY <1>1, <2>3 DEF LocalTypes, CloseCas, lvars
  <2>5. HistoryTypes'
    BY <1>1 DEF HistoryTypes, CloseCas, hvars
  <2> QED BY <2>1, <2>2, <2>4, <2>5
<1>3. OwnLabels'
  BY <1>1, ProcKinds DEF LocalTypes, OwnLabels, CloseCas, Goto, LoopLabels, OpenLabels, ReaderLabels, PumpLabels, CloseLabels
<1>4. Targets'
  BY <1>1 DEF LocalTypes, Targets, Holding, CloseCas, Goto, lvars, svars
<1>5. MapOwner'
  BY <1>1 DEF MapOwner, CloseCas, svars
<1>6. FrameIds'
  BY <1>1, ProcKinds DEF LocalTypes, FrameIds, Holding, CloseCas, Goto, lvars, svars
<1>7. LoopPhase'
  BY <1>1, ProcKinds DEF LocalTypes, SessionTypes, LoopPhase, CloseCas, Goto, svars
<1> QED
  BY <1>2, <1>3, <1>4, <1>5, <1>6, <1>7

\* CloseLoses: closeStream returns having lost the CompareAndSwap.
LEMMA CloseLosesShape ==
    ASSUME Shape, NEW p \in Procs, CloseLoses(p)
    PROVE  Shape'
<1> USE ConstTypes, ProcNames DEF Shape, Types
<1>1. pc[p] = "cs_cas" /\ SessionOf(p) \in Sessions
  BY CloserHolds DEF CloseLoses, At, Holding
<1>2. Types'
  <2>1. SessionTypes'
    BY <1>1 DEF SessionTypes, CloseLoses, CloseReturns
  <2>2. StreamTypes'
    BY <1>1 DEF StreamTypes, CloseLoses, CloseUpstreams
  <2>3. pc' \in [Procs -> Labels]
    BY <1>1 DEF LocalTypes, CloseLoses, Goto, AfterClose, Labels, LoopLabels, OpenLabels, ReaderLabels, PumpLabels, CloseLabels
  <2>4. LocalTypes'
    BY <1>1, <2>3 DEF LocalTypes, CloseLoses, CloseReturns
  <2>5. HistoryTypes'
    BY <1>1 DEF HistoryTypes, CloseLoses, hvars
  <2> QED BY <2>1, <2>2, <2>4, <2>5
<1>3. OwnLabels'
  BY <1>1, ProcKinds DEF LocalTypes, OwnLabels, CloseLoses, Goto, AfterClose, LoopLabels, OpenLabels, ReaderLabels, PumpLabels, CloseLabels
<1>4. Targets'
  BY <1>1 DEF LocalTypes, Targets, Holding, CloseLoses, Goto, AfterClose, CloseReturns
<1>5. MapOwner'
  BY <1>1 DEF MapOwner, CloseLoses
<1>6. FrameIds'
  BY <1>1, ProcKinds DEF LocalTypes, FrameIds, Holding, CloseLoses, Goto, AfterClose, CloseReturns
<1>7. LoopPhase'
  BY <1>1, ProcKinds DEF LocalTypes, SessionTypes, LoopPhase, CloseLoses, Goto, AfterClose
<1> QED
  BY <1>2, <1>3, <1>4, <1>5, <1>6, <1>7

\* CloseReclaim: closeStream returns, its stream's queue emptied.
LEMMA CloseReclaimShape ==
    ASSUME Shape, NEW p \in Procs, CloseReclaim(p)
    PROVE  Shape'
<1> USE ConstTypes, ProcNames DEF Shape, Types
<1>1. /\ pc[p] = "cs_reclaim" /\ SessionOf(p) \in Sessions
      /\ target[p] \in Opens /\ qbytes[target[p]] \in Int
  BY CloserHolds DEF CloseReclaim, At, Holding, StreamTypes
<1>2. Types'
  <2>1. SessionTypes'
    BY <1>1 DEF SessionTypes, CloseReclaim, CloseReturns
  <2>2. StreamTypes'
    BY <1>1 DEF StreamTypes, CloseReclaim, CloseUpstreams
  <2>3. pc' \in [Procs -> Labels]
    BY <1>1 DEF LocalTypes, CloseReclaim, GotoAndWake, AfterClose, Labels, LoopLabels, OpenLabels, ReaderLabels, PumpLabels, CloseLabels
  <2>4. LocalTypes'
    BY <1>1, <2>3 DEF LocalTypes, CloseReclaim, CloseReturns
  <2>5. HistoryTypes'
    BY <1>1 DEF HistoryTypes, CloseReclaim, hvars
  <2> QED BY <2>1, <2>2, <2>4, <2>5
<1>3. OwnLabels'
  BY <1>1, ProcKinds DEF LocalTypes, OwnLabels, CloseReclaim, GotoAndWake, AfterClose, LoopLabels, OpenLabels, ReaderLabels, PumpLabels, CloseLabels
<1>4. Targets'
  BY <1>1 DEF LocalTypes, Targets, Holding, CloseReclaim, GotoAndWake, AfterClose, CloseReturns
<1>5. MapOwner'
  BY <1>1 DEF MapOwner, CloseReclaim
<1>6. FrameIds'
  BY <1>1, ProcKinds DEF LocalTypes, FrameIds, Holding, CloseReclaim, GotoAndWake, AfterClose, CloseReturns
<1>7. LoopPhase'
  BY <1>1, ProcKinds DEF LocalTypes, SessionTypes, LoopPhase, CloseReclaim, GotoAndWake, AfterClose
<1> QED
  BY <1>2, <1>3, <1>4, <1>5, <1>6, <1>7

\* LoopFails: closeAll begins, and v2Session.closed is set with it.
LEMMA LoopFailsShape ==
    ASSUME Shape, NEW s \in Sessions, LoopFails(s)
    PROVE  Shape'
<1> USE ConstTypes, ProcNames DEF Shape, Types
<1>1. pc[Loop(s)] = "read"
  BY DEF LoopFails, At
<1>2. Types'
  <2>1. SessionTypes'
    BY <1>1 DEF SessionTypes, LoopFails
  <2>2. StreamTypes'
    BY <1>1 DEF StreamTypes, LoopFails, ovars
  <2>3. pc' \in [Procs -> Labels]
    BY <1>1 DEF LocalTypes, LoopFails, Goto, Labels, LoopLabels, OpenLabels, ReaderLabels, PumpLabels, CloseLabels
  <2>4. LocalTypes'
    BY <1>1, <2>3 DEF LocalTypes, LoopFails, InMap
  <2>5. HistoryTypes'
    BY <1>1 DEF HistoryTypes, LoopFails, hvars
  <2> QED BY <2>1, <2>2, <2>4, <2>5
<1>3. OwnLabels'
  BY <1>1 DEF LocalTypes, OwnLabels, LoopFails, Goto, LoopLabels, OpenLabels, ReaderLabels, PumpLabels, CloseLabels
<1>4. Targets'
  BY <1>1 DEF LocalTypes, Targets, Holding, LoopFails, Goto
<1>5. MapOwner'
  BY <1>1 DEF MapOwner, LoopFails
<1>6. FrameIds'
  BY <1>1 DEF LocalTypes, FrameIds, Holding, LoopFails, Goto
<1>7. LoopPhase'
  BY <1>1 DEF LocalTypes, SessionTypes, LoopPhase, LoopFails, Goto
<1> QED
  BY <1>2, <1>3, <1>4, <1>5, <1>6, <1>7

\* AllVisit: Range hands closeAll a stream of its own session.
LEMMA AllVisitShape ==
    ASSUME Shape, NEW s \in Sessions, NEW i \in Ids, AllVisit(s, i)
    PROVE  Shape'
<1> USE ConstTypes, ProcNames DEF Shape, Types
<1>1. /\ pc[Loop(s)] = "ca_range" /\ streams[s][i] \in OpensOf(s)
      /\ streams[s][i] \in Opens
  BY DEF MapOwner, OpensOf, AllVisit, At
<1>2. Types'
  <2>1. SessionTypes'
    BY <1>1 DEF SessionTypes, AllVisit, svars
  <2>2. StreamTypes'
    BY <1>1 DEF StreamTypes, AllVisit, ovars
  <2>3. pc' \in [Procs -> Labels]
    BY <1>1 DEF LocalTypes, AllVisit, Goto, Labels, LoopLabels, OpenLabels, ReaderLabels, PumpLabels, CloseLabels
  <2>4. LocalTypes'
    BY <1>1, <2>3 DEF LocalTypes, AllVisit
  <2>5. HistoryTypes'
    BY <1>1 DEF HistoryTypes, AllVisit, hvars
  <2> QED BY <2>1, <2>2, <2>4, <2>5
<1>3. OwnLabels'
  BY <1>1 DEF LocalTypes, OwnLabels, AllVisit, Goto, LoopLabels, OpenLabels, ReaderLabels, PumpLabels, CloseLabels
<1>4. Targets'
  BY <1>1 DEF LocalTypes, Targets, Holding, AllVisit, Goto, svars
<1>5. MapOwner'
  BY <1>1 DEF MapOwner, AllVisit, svars
<1>6. FrameIds'
  BY <1>1 DEF LocalTypes, FrameIds, Holding, AllVisit, Goto, svars
<1>7. LoopPhase'
  BY <1>1 DEF LocalTypes, SessionTypes, LoopPhase, AllVisit, Goto, svars
<1> QED
  BY <1>2, <1>3, <1>4, <1>5, <1>6, <1>7

\* AllCas: closeAll marks the stream closed and still holds it.
LEMMA AllCasShape ==
    ASSUME Shape, NEW s \in Sessions, AllCas(s)
    PROVE  Shape'
<1> USE ConstTypes, ProcNames DEF Shape, Types
<1>1. /\ pc[Loop(s)] = "ca_cas" /\ target[Loop(s)] \in Opens
      /\ frameId[s] \in Ids
  BY LoopHolds DEF AllCas, At, Holding
<1>2. Types'
  <2>1. SessionTypes'
    BY <1>1 DEF SessionTypes, AllCas, svars
  <2>2. StreamTypes'
    BY <1>1 DEF StreamTypes, AllCas
  <2>3. pc' \in [Procs -> Labels]
    BY <1>1 DEF LocalTypes, AllCas, Goto, Labels, LoopLabels, OpenLabels, ReaderLabels, PumpLabels, CloseLabels
  <2>4. LocalTypes'
    BY <1>1, <2>3 DEF LocalTypes, AllCas, lvars
  <2>5. HistoryTypes'
    BY <1>1 DEF HistoryTypes, AllCas, hvars
  <2> QED BY <2>1, <2>2, <2>4, <2>5
<1>3. OwnLabels'
  BY <1>1 DEF LocalTypes, OwnLabels, AllCas, Goto, LoopLabels, OpenLabels, ReaderLabels, PumpLabels, CloseLabels
<1>4. Targets'
  BY <1>1 DEF LocalTypes, Targets, Holding, AllCas, Goto, lvars, svars
<1>5. MapOwner'
  BY <1>1 DEF MapOwner, AllCas, svars
<1>6. FrameIds'
  BY <1>1 DEF LocalTypes, FrameIds, Holding, AllCas, Goto, lvars, svars
<1>7. LoopPhase'
  BY <1>1 DEF LocalTypes, SessionTypes, LoopPhase, AllCas, Goto, svars
<1> QED
  BY <1>2, <1>3, <1>4, <1>5, <1>6, <1>7

\* AllLoses: closeAll lets go of a stream that closeStream is closing.
LEMMA AllLosesShape ==
    ASSUME Shape, NEW s \in Sessions, AllLoses(s)
    PROVE  Shape'
<1> USE ConstTypes, ProcNames DEF Shape, Types
<1>1. /\ pc[Loop(s)] = "ca_cas" /\ target[Loop(s)] \in Opens
      /\ frameId[s] \in Ids
  BY LoopHolds DEF AllLoses, At, Holding
<1>2. Types'
  <2>1. SessionTypes'
    BY <1>1 DEF SessionTypes, AllLoses, AllVisited
  <2>2. StreamTypes'
    BY <1>1 DEF StreamTypes, AllLoses, ovars
  <2>3. pc' \in [Procs -> Labels]
    BY <1>1 DEF LocalTypes, AllLoses, Goto, Labels, LoopLabels, OpenLabels, ReaderLabels, PumpLabels, CloseLabels
  <2>4. LocalTypes'
    BY <1>1, <2>3 DEF LocalTypes, AllLoses, AllVisited, LoopForgets
  <2>5. HistoryTypes'
    BY <1>1 DEF HistoryTypes, AllLoses, hvars
  <2> QED BY <2>1, <2>2, <2>4, <2>5
<1>3. OwnLabels'
  BY <1>1 DEF LocalTypes, OwnLabels, AllLoses, Goto, LoopLabels, OpenLabels, ReaderLabels, PumpLabels, CloseLabels
<1>4. Targets'
  BY <1>1 DEF LocalTypes, Targets, Holding, AllLoses, Goto, AllVisited, LoopForgets
<1>5. MapOwner'
  BY <1>1 DEF SessionTypes, MapOwner, AllLoses, AllVisited
<1>6. FrameIds'
  BY <1>1 DEF LocalTypes, FrameIds, Holding, AllLoses, Goto, AllVisited, LoopForgets
<1>7. LoopPhase'
  BY <1>1 DEF LocalTypes, SessionTypes, LoopPhase, AllLoses, Goto
<1> QED
  BY <1>2, <1>3, <1>4, <1>5, <1>6, <1>7

\* AllReclaim: closeAll lets go of a stream whose queue it emptied.
LEMMA AllReclaimShape ==
    ASSUME Shape, NEW s \in Sessions, AllReclaim(s)
    PROVE  Shape'
<1> USE ConstTypes, ProcNames DEF Shape, Types
<1>1. /\ pc[Loop(s)] = "ca_reclaim" /\ target[Loop(s)] \in Opens
      /\ frameId[s] \in Ids /\ qbytes[target[Loop(s)]] \in Int
  BY LoopHolds DEF AllReclaim, At, Holding, StreamTypes
<1>2. Types'
  <2>1. SessionTypes'
    BY <1>1 DEF SessionTypes, AllReclaim, AllVisited
  <2>2. StreamTypes'
    BY <1>1 DEF StreamTypes, AllReclaim
  <2>3. pc' \in [Procs -> Labels]
    BY <1>1 DEF LocalTypes, AllReclaim, GotoAndWake, Labels, LoopLabels, OpenLabels, ReaderLabels, PumpLabels, CloseLabels
  <2>4. LocalTypes'
    BY <1>1, <2>3 DEF LocalTypes, AllReclaim, AllVisited, LoopForgets
  <2>5. HistoryTypes'
    BY <1>1 DEF HistoryTypes, AllReclaim, hvars
  <2> QED BY <2>1, <2>2, <2>4, <2>5
<1>3. OwnLabels'
  BY <1>1 DEF LocalTypes, OwnLabels, AllReclaim, GotoAndWake, LoopLabels, OpenLabels, ReaderLabels, PumpLabels, CloseLabels
<1>4. Targets'
  BY <1>1 DEF LocalTypes, Targets, Holding, AllReclaim, GotoAndWake, AllVisited, LoopForgets
<1>5. MapOwner'
  BY <1>1 DEF SessionTypes, MapOwner, AllReclaim, AllVisited
<1>6. FrameIds'
  BY <1>1 DEF LocalTypes, FrameIds, Holding, AllReclaim, GotoAndWake, AllVisited, LoopForgets
<1>7. LoopPhase'
  BY <1>1 DEF LocalTypes, SessionTypes, LoopPhase, AllReclaim, GotoAndWake
<1> QED
  BY <1>2, <1>3, <1>4, <1>5, <1>6, <1>7

\* AllDone: closeAll is over, and the session stays closed.
LEMMA AllDoneShape ==
    ASSUME Shape, NEW s \in Sessions, AllDone(s)
    PROVE  Shape'
<1> USE ConstTypes, ProcNames DEF Shape, Types
<1>1. pc[Loop(s)] = "ca_range"
  BY DEF AllDone, At
<1>2. Types'
  <2>1. SessionTypes'
    BY <1>1 DEF SessionTypes, AllDone
  <2>2. StreamTypes'
    BY <1>1 DEF StreamTypes, AllDone, ovars
  <2>3. pc' \in [Procs -> Labels]
    BY <1>1 DEF LocalTypes, AllDone, Goto, Labels, LoopLabels, OpenLabels, ReaderLabels, PumpLabels, CloseLabels
  <2>4. LocalTypes'
    BY <1>1, <2>3 DEF LocalTypes, AllDone
  <2>5. HistoryTypes'
    BY <1>1 DEF HistoryTypes, AllDone, hvars
  <2> QED BY <2>1, <2>2, <2>4, <2>5
<1>3. OwnLabels'
  BY <1>1 DEF LocalTypes, OwnLabels, AllDone, Goto, LoopLabels, OpenLabels, ReaderLabels, PumpLabels, CloseLabels
<1>4. Targets'
  BY <1>1 DEF LocalTypes, Targets, Holding, AllDone, Goto
<1>5. MapOwner'
  BY <1>1 DEF MapOwner, AllDone
<1>6. FrameIds'
  BY <1>1 DEF LocalTypes, FrameIds, Holding, AllDone, Goto
<1>7. LoopPhase'
  BY <1>1 DEF LocalTypes, SessionTypes, LoopPhase, AllDone, Goto
<1> QED
  BY <1>2, <1>3, <1>4, <1>5, <1>6, <1>7

\* DialFails: handleOpen returns without a stream.
LEMMA DialFailsShape ==
    ASSUME Shape, NEW o \in Opens, DialFails(o)
    PROVE  Shape'
<1> USE ConstTypes, ProcNames DEF Shape, Types
<1>1. pc[Opener(o)] = "dial" /\ SessOf[o] \in Sessions
  BY DEF DialFails, At
<1>2. Types'
  <2>1. SessionTypes'
    BY <1>1 DEF SessionTypes, DialFails, OpenReturns
  <2>2. StreamTypes'
    BY <1>1 DEF StreamTypes, DialFails, ovars
  <2>3. pc' \in [Procs -> Labels]
    BY <1>1 DEF LocalTypes, DialFails, OpenReturns, Goto, Labels, LoopLabels, OpenLabels, ReaderLabels, PumpLabels, CloseLabels
  <2>4. LocalTypes'
    BY <1>1, <2>3 DEF LocalTypes, DialFails, lvars
  <2>5. HistoryTypes'
    BY <1>1 DEF HistoryTypes, DialFails, Notify, Written, Kept, WriteFails
  <2> QED BY <2>1, <2>2, <2>4, <2>5
<1>3. OwnLabels'
  BY <1>1 DEF LocalTypes, OwnLabels, DialFails, OpenReturns, Goto, LoopLabels, OpenLabels, ReaderLabels, PumpLabels, CloseLabels
<1>4. Targets'
  BY <1>1 DEF LocalTypes, Targets, Holding, DialFails, OpenReturns, Goto, lvars
<1>5. MapOwner'
  BY <1>1 DEF MapOwner, DialFails
<1>6. FrameIds'
  BY <1>1 DEF LocalTypes, FrameIds, Holding, DialFails, OpenReturns, Goto, lvars
<1>7. LoopPhase'
  BY <1>1 DEF LocalTypes, SessionTypes, LoopPhase, DialFails, OpenReturns, Goto
<1> QED
  BY <1>2, <1>3, <1>4, <1>5, <1>6, <1>7

\* StoreStream: the map entry is a stream of the map's session.
LEMMA StoreStreamShape ==
    ASSUME Shape, NEW o \in Opens, StoreStream(o)
    PROVE  Shape'
<1> USE ConstTypes, ProcNames DEF Shape, Types
<1>1. pc[Opener(o)] = "dial" /\ SessOf[o] \in Sessions /\ IdOf[o] \in Ids
  BY DEF StoreStream, At
<1>2. Types'
  <2>1. SessionTypes'
    BY <1>1 DEF SessionTypes, StoreStream
  <2>2. StreamTypes'
    BY <1>1 DEF StreamTypes, StoreStream
  <2>3. pc' \in [Procs -> Labels]
    BY <1>1 DEF LocalTypes, StoreStream, Goto, Labels, LoopLabels, OpenLabels, ReaderLabels, PumpLabels, CloseLabels
  <2>4. LocalTypes'
    BY <1>1, <2>3 DEF LocalTypes, StoreStream, lvars
  <2>5. HistoryTypes'
    BY <1>1 DEF HistoryTypes, StoreStream, hvars
  <2> QED BY <2>1, <2>2, <2>4, <2>5
<1>3. OwnLabels'
  BY <1>1 DEF LocalTypes, OwnLabels, StoreStream, Goto, LoopLabels, OpenLabels, ReaderLabels, PumpLabels, CloseLabels
<1>4. Targets'
  BY <1>1 DEF LocalTypes, Targets, Holding, StoreStream, Goto, lvars
<1>5. MapOwner'
  BY <1>1 DEF SessionTypes, MapOwner, StoreStream, OpensOf
<1>6. FrameIds'
  BY <1>1 DEF LocalTypes, FrameIds, Holding, StoreStream, Goto, lvars
<1>7. LoopPhase'
  BY <1>1 DEF LocalTypes, SessionTypes, LoopPhase, StoreStream, Goto
<1> QED
  BY <1>2, <1>3, <1>4, <1>5, <1>6, <1>7

\* RefuseDuplicate: handleOpen returns without touching the map.
LEMMA RefuseDuplicateShape ==
    ASSUME Shape, NEW o \in Opens, RefuseDuplicate(o)
    PROVE  Shape'
<1> USE ConstTypes, ProcNames DEF Shape, Types
<1>1. pc[Opener(o)] = "dial" /\ SessOf[o] \in Sessions
  BY DEF RefuseDuplicate, At
<1>2. Types'
  <2>1. SessionTypes'
    BY <1>1 DEF SessionTypes, RefuseDuplicate, OpenReturns
  <2>2. StreamTypes'
    BY <1>1 DEF StreamTypes, RefuseDuplicate
  <2>3. pc' \in [Procs -> Labels]
    BY <1>1 DEF LocalTypes, RefuseDuplicate, OpenReturns, Goto, Labels, LoopLabels, OpenLabels, ReaderLabels, PumpLabels, CloseLabels
  <2>4. LocalTypes'
    BY <1>1, <2>3 DEF LocalTypes, RefuseDuplicate, lvars
  <2>5. HistoryTypes'
    BY <1>1 DEF HistoryTypes, RefuseDuplicate, hvars
  <2> QED BY <2>1, <2>2, <2>4, <2>5
<1>3. OwnLabels'
  BY <1>1 DEF LocalTypes, OwnLabels, RefuseDuplicate, OpenReturns, Goto, LoopLabels, OpenLabels, ReaderLabels, PumpLabels, CloseLabels
<1>4. Targets'
  BY <1>1 DEF LocalTypes, Targets, Holding, RefuseDuplicate, OpenReturns, Goto, lvars
<1>5. MapOwner'
  BY <1>1 DEF MapOwner, RefuseDuplicate
<1>6. FrameIds'
  BY <1>1 DEF LocalTypes, FrameIds, Holding, RefuseDuplicate, OpenReturns, Goto, lvars
<1>7. LoopPhase'
  BY <1>1 DEF LocalTypes, SessionTypes, LoopPhase, RefuseDuplicate, OpenReturns, Goto
<1> QED
  BY <1>2, <1>3, <1>4, <1>5, <1>6, <1>7

\* CheckClosed: handleOpen goes on.
LEMMA CheckClosedShape ==
    ASSUME Shape, NEW o \in Opens, CheckClosed(o)
    PROVE  Shape'
<1> USE ConstTypes, ProcNames DEF Shape, Types
<1>1. pc[Opener(o)] = "check" /\ SessOf[o] \in Sessions
  BY DEF CheckClosed, At
<1>2. Types'
  <2>1. SessionTypes'
    BY <1>1 DEF SessionTypes, CheckClosed, svars
  <2>2. StreamTypes'
    BY <1>1 DEF StreamTypes, CheckClosed, ovars
  <2>3. pc' \in [Procs -> Labels]
    BY <1>1 DEF LocalTypes, CheckClosed, Goto, Labels, LoopLabels, OpenLabels, ReaderLabels, PumpLabels, CloseLabels
  <2>4. LocalTypes'
    BY <1>1, <2>3 DEF LocalTypes, CheckClosed, lvars
  <2>5. HistoryTypes'
    BY <1>1 DEF HistoryTypes, CheckClosed, hvars
  <2> QED BY <2>1, <2>2, <2>4, <2>5
<1>3. OwnLabels'
  BY <1>1 DEF LocalTypes, OwnLabels, CheckClosed, Goto, LoopLabels, OpenLabels, ReaderLabels, PumpLabels, CloseLabels
<1>4. Targets'
  BY <1>1 DEF LocalTypes, Targets, Holding, CheckClosed, Goto, lvars, svars
<1>5. MapOwner'
  BY <1>1 DEF MapOwner, CheckClosed, svars
<1>6. FrameIds'
  BY <1>1 DEF LocalTypes, FrameIds, Holding, CheckClosed, Goto, lvars, svars
<1>7. LoopPhase'
  BY <1>1 DEF LocalTypes, SessionTypes, LoopPhase, CheckClosed, Goto, svars
<1> QED
  BY <1>2, <1>3, <1>4, <1>5, <1>6, <1>7

\* UndoStore: the map entry is removed again.
LEMMA UndoStoreShape ==
    ASSUME Shape, NEW o \in Opens, UndoStore(o)
    PROVE  Shape'
<1> USE ConstTypes, ProcNames DEF Shape, Types
<1>1. pc[Opener(o)] = "check" /\ SessOf[o] \in Sessions /\ IdOf[o] \in Ids
  BY DEF UndoStore, At
<1>2. Types'
  <2>1. SessionTypes'
    BY <1>1 DEF SessionTypes, UndoStore, OpenReturns
  <2>2. StreamTypes'
    BY <1>1 DEF StreamTypes, UndoStore
  <2>3. pc' \in [Procs -> Labels]
    BY <1>1 DEF LocalTypes, UndoStore, OpenReturns, Goto, Labels, LoopLabels, OpenLabels, ReaderLabels, PumpLabels, CloseLabels
  <2>4. LocalTypes'
    BY <1>1, <2>3 DEF LocalTypes, UndoStore, lvars
  <2>5. HistoryTypes'
    BY <1>1 DEF HistoryTypes, UndoStore, hvars
  <2> QED BY <2>1, <2>2, <2>4, <2>5
<1>3. OwnLabels'
  BY <1>1 DEF LocalTypes, OwnLabels, UndoStore, OpenReturns, Goto, LoopLabels, OpenLabels, ReaderLabels, PumpLabels, CloseLabels
<1>4. Targets'
  BY <1>1 DEF LocalTypes, Targets, Holding, UndoStore, OpenReturns, Goto, lvars
<1>5. MapOwner'
  BY <1>1 DEF SessionTypes, MapOwner, UndoStore
<1>6. FrameIds'
  BY <1>1 DEF LocalTypes, FrameIds, Holding, UndoStore, OpenReturns, Goto, lvars
<1>7. LoopPhase'
  BY <1>1 DEF LocalTypes, SessionTypes, LoopPhase, UndoStore, OpenReturns, Goto
<1> QED
  BY <1>2, <1>3, <1>4, <1>5, <1>6, <1>7

\* SendOpenOk: reader and pump start at their own first control points.
LEMMA SendOpenOkShape ==
    ASSUME Shape, NEW o \in Opens, SendOpenOk(o)
    PROVE  Shape'
<1> USE ConstTypes, ProcNames DEF Shape, Types
<1>1. pc[Opener(o)] = "openok" /\ SessOf[o] \in Sessions
  BY DEF SendOpenOk, At
<1>2. Types'
  <2>1. SessionTypes'
    BY <1>1 DEF SessionTypes, SendOpenOk
  <2>2. StreamTypes'
    BY <1>1 DEF StreamTypes, SendOpenOk, ovars
  <2>3. pc' \in [Procs -> Labels]
    BY <1>1 DEF LocalTypes, SendOpenOk, At, Labels, LoopLabels, OpenLabels, ReaderLabels, PumpLabels, CloseLabels
  <2>4. LocalTypes'
    BY <1>1, <2>3 DEF LocalTypes, SendOpenOk, lvars
  <2>5. HistoryTypes'
    BY <1>1 DEF HistoryTypes, SendOpenOk, Written, Kept
  <2> QED BY <2>1, <2>2, <2>4, <2>5
<1>3. OwnLabels'
  BY <1>1 DEF LocalTypes, OwnLabels, SendOpenOk, At, LoopLabels, OpenLabels, ReaderLabels, PumpLabels, CloseLabels
<1>4. Targets'
  BY <1>1 DEF LocalTypes, Targets, Holding, SendOpenOk, At, lvars
<1>5. MapOwner'
  BY <1>1 DEF MapOwner, SendOpenOk
<1>6. FrameIds'
  BY <1>1 DEF LocalTypes, FrameIds, Holding, SendOpenOk, At, lvars
<1>7. LoopPhase'
  BY <1>1 DEF LocalTypes, SessionTypes, LoopPhase, SendOpenOk, At
<1> QED
  BY <1>2, <1>3, <1>4, <1>5, <1>6, <1>7

\* OpenOkFails: handleOpen goes into closeStream with its own id.
LEMMA OpenOkFailsShape ==
    ASSUME Shape, NEW o \in Opens, OpenOkFails(o)
    PROVE  Shape'
<1> USE ConstTypes, ProcNames DEF Shape, Types
<1>1. pc[Opener(o)] = "openok" /\ SessOf[o] \in Sessions
  BY DEF OpenOkFails, At
<1>2. Types'
  <2>1. SessionTypes'
    BY <1>1 DEF SessionTypes, OpenOkFails, svars
  <2>2. StreamTypes'
    BY <1>1 DEF StreamTypes, OpenOkFails, ovars
  <2>3. pc' \in [Procs -> Labels]
    BY <1>1 DEF LocalTypes, OpenOkFails, Goto, Labels, LoopLabels, OpenLabels, ReaderLabels, PumpLabels, CloseLabels
  <2>4. LocalTypes'
    BY <1>1, <2>3 DEF LocalTypes, OpenOkFails, lvars
  <2>5. HistoryTypes'
    BY <1>1 DEF HistoryTypes, OpenOkFails, WriteFails
  <2> QED BY <2>1, <2>2, <2>4, <2>5
<1>3. OwnLabels'
  BY <1>1 DEF LocalTypes, OwnLabels, OpenOkFails, Goto, LoopLabels, OpenLabels, ReaderLabels, PumpLabels, CloseLabels
<1>4. Targets'
  BY <1>1 DEF LocalTypes, Targets, Holding, OpenOkFails, Goto, lvars, svars
<1>5. MapOwner'
  BY <1>1 DEF MapOwner, OpenOkFails, svars
<1>6. FrameIds'
  BY <1>1 DEF LocalTypes, FrameIds, Holding, OpenOkFails, Goto, lvars, svars
<1>7. LoopPhase'
  BY <1>1 DEF LocalTypes, SessionTypes, LoopPhase, OpenOkFails, Goto, svars
<1> QED
  BY <1>2, <1>3, <1>4, <1>5, <1>6, <1>7

\* ReaderReads: the reader goes on to upstream.Read.
LEMMA ReaderReadsShape ==
    ASSUME Shape, NEW o \in Opens, ReaderReads(o)
    PROVE  Shape'
<1> USE ConstTypes, ProcNames DEF Shape, Types
<1>1. pc[Reader(o)] = "top"
  BY DEF ReaderReads, At
<1>2. Types'
  <2>1. SessionTypes'
    BY <1>1 DEF SessionTypes, ReaderReads, svars
  <2>2. StreamTypes'
    BY <1>1 DEF StreamTypes, ReaderReads, ovars
  <2>3. pc' \in [Procs -> Labels]
    BY <1>1 DEF LocalTypes, ReaderReads, Goto, Labels, LoopLabels, OpenLabels, ReaderLabels, PumpLabels, CloseLabels
  <2>4. LocalTypes'
    BY <1>1, <2>3 DEF LocalTypes, ReaderReads, lvars
  <2>5. HistoryTypes'
    BY <1>1 DEF HistoryTypes, ReaderReads, hvars
  <2> QED BY <2>1, <2>2, <2>4, <2>5
<1>3. OwnLabels'
  BY <1>1 DEF LocalTypes, OwnLabels, ReaderReads, Goto, LoopLabels, OpenLabels, ReaderLabels, PumpLabels, CloseLabels
<1>4. Targets'
  BY <1>1 DEF LocalTypes, Targets, Holding, ReaderReads, Goto, lvars, svars
<1>5. MapOwner'
  BY <1>1 DEF MapOwner, ReaderReads, svars
<1>6. FrameIds'
  BY <1>1 DEF LocalTypes, FrameIds, Holding, ReaderReads, Goto, lvars, svars
<1>7. LoopPhase'
  BY <1>1 DEF LocalTypes, SessionTypes, LoopPhase, ReaderReads, Goto, svars
<1> QED
  BY <1>2, <1>3, <1>4, <1>5, <1>6, <1>7

\* ReaderEnds: the reader returns.
LEMMA ReaderEndsShape ==
    ASSUME Shape, NEW o \in Opens, ReaderEnds(o)
    PROVE  Shape'
<1> USE ConstTypes, ProcNames DEF Shape, Types
<1>1. pc[Reader(o)] = "top"
  BY DEF ReaderEnds, At
<1>2. Types'
  <2>1. SessionTypes'
    BY <1>1 DEF SessionTypes, ReaderEnds, svars
  <2>2. StreamTypes'
    BY <1>1 DEF StreamTypes, ReaderEnds
  <2>3. pc' \in [Procs -> Labels]
    BY <1>1 DEF LocalTypes, ReaderEnds, Goto, Labels, LoopLabels, OpenLabels, ReaderLabels, PumpLabels, CloseLabels
  <2>4. LocalTypes'
    BY <1>1, <2>3 DEF LocalTypes, ReaderEnds, lvars
  <2>5. HistoryTypes'
    BY <1>1 DEF HistoryTypes, ReaderEnds, hvars
  <2> QED BY <2>1, <2>2, <2>4, <2>5
<1>3. OwnLabels'
  BY <1>1 DEF LocalTypes, OwnLabels, ReaderEnds, Goto, LoopLabels, OpenLabels, ReaderLabels, PumpLabels, CloseLabels
<1>4. Targets'
  BY <1>1 DEF LocalTypes, Targets, Holding, ReaderEnds, Goto, lvars, svars
<1>5. MapOwner'
  BY <1>1 DEF MapOwner, ReaderEnds, svars
<1>6. FrameIds'
  BY <1>1 DEF LocalTypes, FrameIds, Holding, ReaderEnds, Goto, lvars, svars
<1>7. LoopPhase'
  BY <1>1 DEF LocalTypes, SessionTypes, LoopPhase, ReaderEnds, Goto, svars
<1> QED
  BY <1>2, <1>3, <1>4, <1>5, <1>6, <1>7

\* ReaderForwards: the reader is back at the top of its loop.
LEMMA ReaderForwardsShape ==
    ASSUME Shape, NEW o \in Opens, ReaderForwards(o)
    PROVE  Shape'
<1> USE ConstTypes, ProcNames DEF Shape, Types
<1>1. pc[Reader(o)] = "read"
  BY DEF ReaderForwards, At
<1>2. Types'
  <2>1. SessionTypes'
    BY <1>1 DEF SessionTypes, ReaderForwards, svars
  <2>2. StreamTypes'
    BY <1>1 DEF StreamTypes, ReaderForwards, ovars
  <2>3. pc' \in [Procs -> Labels]
    BY <1>1 DEF LocalTypes, ReaderForwards, Goto, Labels, LoopLabels, OpenLabels, ReaderLabels, PumpLabels, CloseLabels
  <2>4. LocalTypes'
    BY <1>1, <2>3 DEF LocalTypes, ReaderForwards, lvars
  <2>5. HistoryTypes'
    BY <1>1 DEF HistoryTypes, ReaderForwards, hvars
  <2> QED BY <2>1, <2>2, <2>4, <2>5
<1>3. OwnLabels'
  BY <1>1 DEF LocalTypes, OwnLabels, ReaderForwards, Goto, LoopLabels, OpenLabels, ReaderLabels, PumpLabels, CloseLabels
<1>4. Targets'
  BY <1>1 DEF LocalTypes, Targets, Holding, ReaderForwards, Goto, lvars, svars
<1>5. MapOwner'
  BY <1>1 DEF MapOwner, ReaderForwards, svars
<1>6. FrameIds'
  BY <1>1 DEF LocalTypes, FrameIds, Holding, ReaderForwards, Goto, lvars, svars
<1>7. LoopPhase'
  BY <1>1 DEF LocalTypes, SessionTypes, LoopPhase, ReaderForwards, Goto, svars
<1> QED
  BY <1>2, <1>3, <1>4, <1>5, <1>6, <1>7

\* ReaderCannotForward: the reader goes into closeStream.
LEMMA ReaderCannotForwardShape ==
    ASSUME Shape, NEW o \in Opens, ReaderCannotForward(o)
    PROVE  Shape'
<1> USE ConstTypes, ProcNames DEF Shape, Types
<1>1. pc[Reader(o)] = "read"
  BY DEF ReaderCannotForward, At
<1>2. Types'
  <2>1. SessionTypes'
    BY <1>1 DEF SessionTypes, ReaderCannotForward, svars
  <2>2. StreamTypes'
    BY <1>1 DEF StreamTypes, ReaderCannotForward, ovars
  <2>3. pc' \in [Procs -> Labels]
    BY <1>1 DEF LocalTypes, ReaderCannotForward, Goto, Labels, LoopLabels, OpenLabels, ReaderLabels, PumpLabels, CloseLabels
  <2>4. LocalTypes'
    BY <1>1, <2>3 DEF LocalTypes, ReaderCannotForward, lvars
  <2>5. HistoryTypes'
    BY <1>1 DEF HistoryTypes, ReaderCannotForward, hvars
  <2> QED BY <2>1, <2>2, <2>4, <2>5
<1>3. OwnLabels'
  BY <1>1 DEF LocalTypes, OwnLabels, ReaderCannotForward, Goto, LoopLabels, OpenLabels, ReaderLabels, PumpLabels, CloseLabels
<1>4. Targets'
  BY <1>1 DEF LocalTypes, Targets, Holding, ReaderCannotForward, Goto, lvars, svars
<1>5. MapOwner'
  BY <1>1 DEF MapOwner, ReaderCannotForward, svars
<1>6. FrameIds'
  BY <1>1 DEF LocalTypes, FrameIds, Holding, ReaderCannotForward, Goto, lvars, svars
<1>7. LoopPhase'
  BY <1>1 DEF LocalTypes, SessionTypes, LoopPhase, ReaderCannotForward, Goto, svars
<1> QED
  BY <1>2, <1>3, <1>4, <1>5, <1>6, <1>7

\* ReaderGetsError: the reader tells the peer and goes into closeStream.
LEMMA ReaderGetsErrorShape ==
    ASSUME Shape, NEW o \in Opens, ReaderGetsError(o)
    PROVE  Shape'
<1> USE ConstTypes, ProcNames DEF Shape, Types
<1>1. pc[Reader(o)] = "read"
  BY DEF ReaderGetsError, At
<1>2. Types'
  <2>1. SessionTypes'
    BY <1>1 DEF SessionTypes, ReaderGetsError, svars
  <2>2. StreamTypes'
    BY <1>1 DEF StreamTypes, ReaderGetsError, ovars
  <2>3. pc' \in [Procs -> Labels]
    BY <1>1 DEF LocalTypes, ReaderGetsError, Goto, Labels, LoopLabels, OpenLabels, ReaderLabels, PumpLabels, CloseLabels
  <2>4. LocalTypes'
    BY <1>1, <2>3 DEF LocalTypes, ReaderGetsError, lvars
  <2>5. HistoryTypes'
    BY <1>1 DEF HistoryTypes, ReaderGetsError, Notify, Written, Kept, WriteFails
  <2> QED BY <2>1, <2>2, <2>4, <2>5
<1>3. OwnLabels'
  BY <1>1 DEF LocalTypes, OwnLabels, ReaderGetsError, Goto, LoopLabels, OpenLabels, ReaderLabels, PumpLabels, CloseLabels
<1>4. Targets'
  BY <1>1 DEF LocalTypes, Targets, Holding, ReaderGetsError, Goto, lvars, svars
<1>5. MapOwner'
  BY <1>1 DEF MapOwner, ReaderGetsError, svars
<1>6. FrameIds'
  BY <1>1 DEF LocalTypes, FrameIds, Holding, ReaderGetsError, Goto, lvars, svars
<1>7. LoopPhase'
  BY <1>1 DEF LocalTypes, SessionTypes, LoopPhase, ReaderGetsError, Goto, svars
<1> QED
  BY <1>2, <1>3, <1>4, <1>5, <1>6, <1>7

\* PumpWaits: the pump parks.
LEMMA PumpWaitsShape ==
    ASSUME Shape, NEW o \in Opens, PumpWaits(o)
    PROVE  Shape'
<1> USE ConstTypes, ProcNames DEF Shape, Types
<1>1. pc[Pump(o)] = "take"
  BY DEF PumpWaits, At
<1>2. Types'
  <2>1. SessionTypes'
    BY <1>1 DEF SessionTypes, PumpWaits, svars
  <2>2. StreamTypes'
    BY <1>1 DEF StreamTypes, PumpWaits, ovars
  <2>3. pc' \in [Procs -> Labels]
    BY <1>1 DEF LocalTypes, PumpWaits, Goto, Labels, LoopLabels, OpenLabels, ReaderLabels, PumpLabels, CloseLabels
  <2>4. LocalTypes'
    BY <1>1, <2>3 DEF LocalTypes, PumpWaits, lvars
  <2>5. HistoryTypes'
    BY <1>1 DEF HistoryTypes, PumpWaits, hvars
  <2> QED BY <2>1, <2>2, <2>4, <2>5
<1>3. OwnLabels'
  BY <1>1 DEF LocalTypes, OwnLabels, PumpWaits, Goto, LoopLabels, OpenLabels, ReaderLabels, PumpLabels, CloseLabels
<1>4. Targets'
  BY <1>1 DEF LocalTypes, Targets, Holding, PumpWaits, Goto, lvars, svars
<1>5. MapOwner'
  BY <1>1 DEF MapOwner, PumpWaits, svars
<1>6. FrameIds'
  BY <1>1 DEF LocalTypes, FrameIds, Holding, PumpWaits, Goto, lvars, svars
<1>7. LoopPhase'
  BY <1>1 DEF LocalTypes, SessionTypes, LoopPhase, PumpWaits, Goto, svars
<1> QED
  BY <1>2, <1>3, <1>4, <1>5, <1>6, <1>7

\* PumpEnds: the pump returns.
LEMMA PumpEndsShape ==
    ASSUME Shape, NEW o \in Opens, PumpEnds(o)
    PROVE  Shape'
<1> USE ConstTypes, ProcNames DEF Shape, Types
<1>1. pc[Pump(o)] = "take"
  BY DEF PumpEnds, At
<1>2. Types'
  <2>1. SessionTypes'
    BY <1>1 DEF SessionTypes, PumpEnds, svars
  <2>2. StreamTypes'
    BY <1>1 DEF StreamTypes, PumpEnds, ovars
  <2>3. pc' \in [Procs -> Labels]
    BY <1>1 DEF LocalTypes, PumpEnds, Goto, Labels, LoopLabels, OpenLabels, ReaderLabels, PumpLabels, CloseLabels
  <2>4. LocalTypes'
    BY <1>1, <2>3 DEF LocalTypes, PumpEnds, lvars
  <2>5. HistoryTypes'
    BY <1>1 DEF HistoryTypes, PumpEnds, hvars
  <2> QED BY <2>1, <2>2, <2>4, <2>5
<1>3. OwnLabels'
  BY <1>1 DEF LocalTypes, OwnLabels, PumpEnds, Goto, LoopLabels, OpenLabels, ReaderLabels, PumpLabels, CloseLabels
<1>4. Targets'
  BY <1>1 DEF LocalTypes, Targets, Holding, PumpEnds, Goto, lvars, svars
<1>5. MapOwner'
  BY <1>1 DEF MapOwner, PumpEnds, svars
<1>6. FrameIds'
  BY <1>1 DEF LocalTypes, FrameIds, Holding, PumpEnds, Goto, lvars, svars
<1>7. LoopPhase'
  BY <1>1 DEF LocalTypes, SessionTypes, LoopPhase, PumpEnds, Goto, svars
<1> QED
  BY <1>2, <1>3, <1>4, <1>5, <1>6, <1>7

\* PumpTakes: a chunk's length is a number and so are the counters it leaves.
LEMMA PumpTakesShape ==
    ASSUME Shape, NEW o \in Opens, PumpTakes(o)
    PROVE  Shape'
<1> USE ConstTypes, ProcNames DEF Shape, Types
<1>1. /\ pc[Pump(o)] = "take" /\ SessOf[o] \in Sessions
      /\ Head(queue[o]) \in Nat /\ Tail(queue[o]) \in Seq(Nat)
  <2>1. queue[o] \in Seq(Nat) /\ queue[o] # <<>>
    BY DEF StreamTypes, PumpTakes
  <2>2. Head(queue[o]) \in Nat /\ Tail(queue[o]) \in Seq(Nat)
    BY <2>1
  <2> QED BY <2>2 DEF PumpTakes, At
<1>2. Types'
  <2>1. SessionTypes'
    <3>1. PICK n \in Nat : /\ buffered' = [buffered EXCEPT ![SessOf[o]] = @ - n]
                           /\ globalBuffered' = globalBuffered - n
      BY <1>1, Zenon DEF PumpTakes
    <3>2. UNCHANGED <<conn, sclosed, streams, openSem>>
      BY Zenon DEF PumpTakes
    <3> QED BY <1>1, <3>1, <3>2 DEF SessionTypes
  <2>2. StreamTypes'
    BY <1>1 DEF StreamTypes, PumpTakes
  <2>3. pc' \in [Procs -> Labels]
    BY <1>1 DEF LocalTypes, PumpTakes, Goto, Labels, LoopLabels, OpenLabels, ReaderLabels, PumpLabels, CloseLabels
  <2>4. LocalTypes'
    BY <1>1, <2>3 DEF LocalTypes, PumpTakes, lvars
  <2>5. HistoryTypes'
    BY <1>1 DEF HistoryTypes, PumpTakes, hvars
  <2> QED BY <2>1, <2>2, <2>4, <2>5
<1>3. OwnLabels'
  BY <1>1 DEF LocalTypes, OwnLabels, PumpTakes, Goto, LoopLabels, OpenLabels, ReaderLabels, PumpLabels, CloseLabels
<1>4. Targets'
  BY <1>1 DEF LocalTypes, Targets, Holding, PumpTakes, Goto, lvars
<1>5. MapOwner'
  BY <1>1 DEF MapOwner, PumpTakes
<1>6. FrameIds'
  BY <1>1 DEF LocalTypes, FrameIds, Holding, PumpTakes, Goto, lvars
<1>7. LoopPhase'
  BY <1>1 DEF LocalTypes, SessionTypes, LoopPhase, PumpTakes, Goto
<1> QED
  BY <1>2, <1>3, <1>4, <1>5, <1>6, <1>7

\* PumpDelivers: the pump is back at its queue.
LEMMA PumpDeliversShape ==
    ASSUME Shape, NEW o \in Opens, PumpDelivers(o)
    PROVE  Shape'
<1> USE ConstTypes, ProcNames DEF Shape, Types
<1>1. pc[Pump(o)] = "write"
  BY DEF PumpDelivers, At
<1>2. Types'
  <2>1. SessionTypes'
    BY <1>1 DEF SessionTypes, PumpDelivers, svars
  <2>2. StreamTypes'
    BY <1>1 DEF StreamTypes, PumpDelivers, ovars
  <2>3. pc' \in [Procs -> Labels]
    BY <1>1 DEF LocalTypes, PumpDelivers, Goto, Labels, LoopLabels, OpenLabels, ReaderLabels, PumpLabels, CloseLabels
  <2>4. LocalTypes'
    BY <1>1, <2>3 DEF LocalTypes, PumpDelivers, lvars
  <2>5. HistoryTypes'
    BY <1>1 DEF HistoryTypes, PumpDelivers, hvars
  <2> QED BY <2>1, <2>2, <2>4, <2>5
<1>3. OwnLabels'
  BY <1>1 DEF LocalTypes, OwnLabels, PumpDelivers, Goto, LoopLabels, OpenLabels, ReaderLabels, PumpLabels, CloseLabels
<1>4. Targets'
  BY <1>1 DEF LocalTypes, Targets, Holding, PumpDelivers, Goto, lvars, svars
<1>5. MapOwner'
  BY <1>1 DEF MapOwner, PumpDelivers, svars
<1>6. FrameIds'
  BY <1>1 DEF LocalTypes, FrameIds, Holding, PumpDelivers, Goto, lvars, svars
<1>7. LoopPhase'
  BY <1>1 DEF LocalTypes, SessionTypes, LoopPhase, PumpDelivers, Goto, svars
<1> QED
  BY <1>2, <1>3, <1>4, <1>5, <1>6, <1>7

\* PumpCannotCredit: the pump goes into closeStream.
LEMMA PumpCannotCreditShape ==
    ASSUME Shape, NEW o \in Opens, PumpCannotCredit(o)
    PROVE  Shape'
<1> USE ConstTypes, ProcNames DEF Shape, Types
<1>1. pc[Pump(o)] = "write"
  BY DEF PumpCannotCredit, At
<1>2. Types'
  <2>1. SessionTypes'
    BY <1>1 DEF SessionTypes, PumpCannotCredit, svars
  <2>2. StreamTypes'
    BY <1>1 DEF StreamTypes, PumpCannotCredit
  <2>3. pc' \in [Procs -> Labels]
    BY <1>1 DEF LocalTypes, PumpCannotCredit, Goto, Labels, LoopLabels, OpenLabels, ReaderLabels, PumpLabels, CloseLabels
  <2>4. LocalTypes'
    BY <1>1, <2>3 DEF LocalTypes, PumpCannotCredit, lvars
  <2>5. HistoryTypes'
    BY <1>1 DEF HistoryTypes, PumpCannotCredit, hvars
  <2> QED BY <2>1, <2>2, <2>4, <2>5
<1>3. OwnLabels'
  BY <1>1 DEF LocalTypes, OwnLabels, PumpCannotCredit, Goto, LoopLabels, OpenLabels, ReaderLabels, PumpLabels, CloseLabels
<1>4. Targets'
  BY <1>1 DEF LocalTypes, Targets, Holding, PumpCannotCredit, Goto, lvars, svars
<1>5. MapOwner'
  BY <1>1 DEF MapOwner, PumpCannotCredit, svars
<1>6. FrameIds'
  BY <1>1 DEF LocalTypes, FrameIds, Holding, PumpCannotCredit, Goto, lvars, svars
<1>7. LoopPhase'
  BY <1>1 DEF LocalTypes, SessionTypes, LoopPhase, PumpCannotCredit, Goto, svars
<1> QED
  BY <1>2, <1>3, <1>4, <1>5, <1>6, <1>7

\* PumpFails: the pump tells the peer and goes into closeStream.
LEMMA PumpFailsShape ==
    ASSUME Shape, NEW o \in Opens, PumpFails(o)
    PROVE  Shape'
<1> USE ConstTypes, ProcNames DEF Shape, Types
<1>1. pc[Pump(o)] = "write"
  BY DEF PumpFails, At
<1>2. Types'
  <2>1. SessionTypes'
    BY <1>1 DEF SessionTypes, PumpFails, svars
  <2>2. StreamTypes'
    BY <1>1 DEF StreamTypes, PumpFails
  <2>3. pc' \in [Procs -> Labels]
    BY <1>1 DEF LocalTypes, PumpFails, Goto, Labels, LoopLabels, OpenLabels, ReaderLabels, PumpLabels, CloseLabels
  <2>4. LocalTypes'
    BY <1>1, <2>3 DEF LocalTypes, PumpFails, lvars
  <2>5. HistoryTypes'
    BY <1>1 DEF HistoryTypes, PumpFails, Notify, Written, Kept, WriteFails
  <2> QED BY <2>1, <2>2, <2>4, <2>5
<1>3. OwnLabels'
  BY <1>1 DEF LocalTypes, OwnLabels, PumpFails, Goto, LoopLabels, OpenLabels, ReaderLabels, PumpLabels, CloseLabels
<1>4. Targets'
  BY <1>1 DEF LocalTypes, Targets, Holding, PumpFails, Goto, lvars, svars
<1>5. MapOwner'
  BY <1>1 DEF MapOwner, PumpFails, svars
<1>6. FrameIds'
  BY <1>1 DEF LocalTypes, FrameIds, Holding, PumpFails, Goto, lvars, svars
<1>7. LoopPhase'
  BY <1>1 DEF LocalTypes, SessionTypes, LoopPhase, PumpFails, Goto, svars
<1> QED
  BY <1>2, <1>3, <1>4, <1>5, <1>6, <1>7

-----------------------------------------------------------------------------
\* A step that changes no variable keeps Shape.
LEMMA StutterShape == Shape /\ UNCHANGED vars => Shape'
BY DEF Shape, Types, SessionTypes, StreamTypes, LocalTypes, HistoryTypes, OwnLabels,
       Targets, MapOwner, FrameIds, LoopPhase, vars, svars, ovars, lvars, hvars

\* Every step of every goroutine keeps Shape.
LEMMA ShapeStep == Shape /\ [Next]_vars => Shape'
<1> SUFFICES ASSUME Shape, [Next]_vars
             PROVE  Shape'
  OBVIOUS
<1>1. ASSUME NEW s \in Sessions, ConnBreaks(s) \/ ReapConn(s) PROVE Shape'
  BY <1>1, QuietShape
<1>2. ASSUME NEW s \in Sessions, ReadFrame(s) PROVE Shape'
  <2>1. ASSUME NEW o \in OpensOf(s), ReadOpen(o) \/ RefuseOpen(o) PROVE Shape'
    BY <2>1, ReadOpenShape, RefuseOpenShape DEF OpensOf
  <2>2. ASSUME NEW i \in Ids, NEW n \in ChunkSizes, ReadData(s, i, n) \/ ShedStream(s, i, n)
        PROVE  Shape'
    BY <2>2, ReadDataShape, ShedStreamShape
  <2>3. ASSUME NEW i \in Ids, SkipData(s, i) \/ ReadClose(s, i) PROVE Shape'
    BY <2>3, QuietShape, ReadCloseShape
  <2> QED BY <1>2, <2>1, <2>2, <2>3, Zenon DEF ReadFrame
<1>3. ASSUME NEW s \in Sessions, Enqueue(s) \/ DropChunk(s) PROVE Shape'
  BY <1>3, EnqueueShape, DropChunkShape
<1>4. ASSUME NEW s \in Sessions, CloseAll(s) PROVE Shape'
  BY <1>4, LoopFailsShape, AllVisitShape, AllCasShape, AllLosesShape, AllReclaimShape,
     AllDoneShape, Zenon DEF CloseAll
<1>5. ASSUME NEW o \in Opens, HandleOpen(o) PROVE Shape'
  BY <1>5, DialFailsShape, StoreStreamShape, RefuseDuplicateShape, CheckClosedShape,
     UndoStoreShape, SendOpenOkShape, OpenOkFailsShape, Zenon DEF HandleOpen
<1>6. ASSUME NEW o \in Opens, ReadUpstream(o) PROVE Shape'
  BY <1>6, ReaderReadsShape, ReaderEndsShape, ReaderForwardsShape,
     ReaderCannotForwardShape, ReaderGetsErrorShape, Zenon DEF ReadUpstream
<1>7. ASSUME NEW o \in Opens, PumpUpstream(o) PROVE Shape'
  BY <1>7, PumpWaitsShape, PumpEndsShape, PumpTakesShape, PumpDeliversShape,
     PumpCannotCreditShape, PumpFailsShape, Zenon DEF PumpUpstream
<1>8. ASSUME NEW p \in Procs, CloseStream(p) PROVE Shape'
  BY <1>8, CloseLoadShape, CloseMissesShape, CloseCasShape, CloseLosesShape,
     CloseReclaimShape, Zenon DEF CloseStream
<1>9. CASE Finished \/ UNCHANGED vars
  BY <1>9, StutterShape DEF Finished
<1> QED
  BY <1>1, <1>2, <1>3, <1>4, <1>5, <1>6, <1>7, <1>8, <1>9, Zenon DEF Next

\* Every reachable state of the multiplexer has this shape.
THEOREM ShapeHolds == Spec => []Shape
<1>1. Init => Shape
  BY ShapeInit
<1>2. Shape /\ [Next]_vars => Shape'
  BY ShapeStep
<1> QED BY <1>1, <1>2, PTL DEF Spec

-----------------------------------------------------------------------------
(* The byte budgets and their caps *)

budgets == <<queue, qbytes, buffered, globalBuffered>>

\* Only four steps touch the queues and the counters; no other step does, and
\* none of the others reopens a session.
LEMMA BudgetSteps ==
    ASSUME Shape, [Next]_vars
    PROVE  \/ UNCHANGED budgets /\ \A s \in Sessions : sclosed[s] => sclosed'[s]
           \/ \E s \in Sessions : Enqueue(s) \/ AllReclaim(s)
           \/ \E o \in Opens : PumpTakes(o)
           \/ \E p \in Procs : CloseReclaim(p)
<1> DEFINE Quiet == UNCHANGED budgets /\ \A s \in Sessions : sclosed[s] => sclosed'[s]
<1> USE DEF budgets
<1>1. ASSUME NEW s \in Sessions, ConnBreaks(s) \/ ReapConn(s) \/ ReadFrame(s) \/ DropChunk(s)
      PROVE  Quiet
  BY <1>1 DEF ConnBreaks, ReapConn, ReadFrame, ReadOpen, RefuseOpen, ReadData, ShedStream,
              SkipData, ReadClose, DropChunk, svars, ovars
<1>2. ASSUME NEW s \in Sessions, CloseAll(s) PROVE Quiet \/ AllReclaim(s)
  <2>1. CASE LoopFails(s)
    BY <2>1 DEF LoopFails, ovars, Shape, Types, SessionTypes
  <2>2. CASE AllCas(s) \/ AllLoses(s) \/ AllDone(s) \/ \E i \in Ids : AllVisit(s, i)
    BY <2>2 DEF AllCas, AllLoses, AllDone, AllVisit, svars, ovars
  <2> QED BY <1>2, <2>1, <2>2 DEF CloseAll
<1>3. ASSUME NEW o \in Opens, HandleOpen(o) PROVE Quiet
  BY <1>3 DEF HandleOpen, DialFails, StoreStream, RefuseDuplicate, CheckClosed, UndoStore,
              SendOpenOk, OpenOkFails, svars, ovars
<1>4. ASSUME NEW o \in Opens, ReadUpstream(o) PROVE Quiet
  BY <1>4 DEF ReadUpstream, ReaderReads, ReaderEnds, ReaderForwards, ReaderCannotForward,
              ReaderGetsError, svars, ovars
<1>5. ASSUME NEW o \in Opens, PumpUpstream(o) PROVE Quiet \/ PumpTakes(o)
  BY <1>5 DEF PumpUpstream, PumpWaits, PumpEnds, PumpDelivers, PumpCannotCredit, PumpFails,
              svars, ovars
<1>6. ASSUME NEW p \in Procs, CloseStream(p) PROVE Quiet \/ CloseReclaim(p)
  BY <1>6 DEF CloseStream, CloseLoad, CloseMisses, CloseCas, CloseLoses, svars, ovars
<1>7. CASE Finished \/ UNCHANGED vars
  BY <1>7 DEF Finished, vars, svars, ovars
<1> HIDE DEF budgets
<1> QED
  BY <1>1, <1>2, <1>3, <1>4, <1>5, <1>6, <1>7, Zenon DEF Next

\* Exact counters are never negative.
LEMMA ExactIsNat ==
    ASSUME Shape, BudgetExact
    PROVE  /\ qbytes \in [Opens -> Nat] /\ globalBuffered \in Nat
           /\ \A s \in Sessions : ~sclosed[s] => buffered[s] \in Nat
<1>1. IsFiniteSet(Opens)
  BY MuxAssumption
<1>2. qbytes \in [Opens -> Nat]
  <2>1. ASSUME NEW o \in Opens PROVE qbytes[o] \in Nat
    <3>1. queue[o] \in Seq(Nat)
      BY DEF Shape, Types, StreamTypes
    <3>2. queue[o] \in [1 .. Len(queue[o]) -> Nat] /\ Len(queue[o]) \in Nat
      BY <3>1
    <3>3. IsFiniteSet(1 .. Len(queue[o]))
      BY <3>2, FS_Interval
    <3>4. Total(queue[o]) \in Nat
      BY <3>2, <3>3, TotalType
    <3> QED BY <3>4 DEF BudgetExact
  <2> QED BY <2>1 DEF Shape, Types, StreamTypes
<1>3. globalBuffered \in Nat
  BY <1>1, <1>2, TotalType DEF BudgetExact
<1>4. ASSUME NEW s \in Sessions, ~sclosed[s] PROVE buffered[s] \in Nat
  <2>1. IsFiniteSet(OpensOf(s)) /\ [o \in OpensOf(s) |-> qbytes[o]] \in [OpensOf(s) -> Nat]
    BY <1>1, <1>2, FS_Subset DEF OpensOf
  <2>2. TotalOn(OpensOf(s), qbytes) \in Nat
    BY <2>1, TotalType DEF TotalOn
  <2> QED BY <1>4, <2>2 DEF BudgetExact
<1> QED BY <1>2, <1>3, <1>4

\* A change of one stream's queue, matched by its qbytes and by both counters
\* (the session's may be left alone once closeAll has begun), keeps the
\* budgets exact.
LEMMA BudgetMoves ==
    ASSUME Shape, BudgetExact, NEW o \in Opens,
           qbytes' \in [Opens -> Nat], qbytes'[o] = Total(queue'[o]),
           \A u \in Opens \ {o} : queue'[u] = queue[u] /\ qbytes'[u] = qbytes[u],
           globalBuffered' = globalBuffered - qbytes[o] + qbytes'[o],
           sclosed' = sclosed,
           \A s \in Sessions : ~sclosed[s] =>
               buffered'[s] = IF s = SessOf[o] THEN buffered[s] - qbytes[o] + qbytes'[o]
                                               ELSE buffered[s]
    PROVE  BudgetExact'
<1>1. qbytes \in [Opens -> Nat] /\ IsFiniteSet(Opens)
  BY ExactIsNat, MuxAssumption
<1>2. ASSUME NEW u \in Opens PROVE qbytes'[u] = Total(queue'[u])
  BY DEF BudgetExact
<1>3. globalBuffered' = Total(qbytes')
  <2>1. Total(qbytes') = Total(qbytes) - qbytes[o] + qbytes'[o]
    BY <1>1, TotalUpdate
  <2> QED BY <2>1 DEF BudgetExact
<1>4. ASSUME NEW s \in Sessions, ~sclosed'[s]
      PROVE  buffered'[s] = TotalOn(OpensOf(s), qbytes')
  <2>1. OpensOf(s) \subseteq Opens /\ IsFiniteSet(OpensOf(s))
    BY <1>1, FS_Subset DEF OpensOf
  <2>2. TotalOn(OpensOf(s), qbytes') =
            IF o \in OpensOf(s) THEN TotalOn(OpensOf(s), qbytes) - qbytes[o] + qbytes'[o]
                                ELSE TotalOn(OpensOf(s), qbytes)
    BY <1>1, <2>1, TotalOnUpdate
  <2>3. buffered[s] = TotalOn(OpensOf(s), qbytes) /\ ~sclosed[s]
    BY <1>4 DEF BudgetExact
  <2>4. o \in OpensOf(s) <=> s = SessOf[o]
    BY DEF OpensOf
  <2> QED BY <2>2, <2>3, <2>4
<1> QED BY <1>2, <1>3, <1>4 DEF BudgetExact

-----------------------------------------------------------------------------
\* The read loop queues a chunk and adds its length to every counter.
LEMMA EnqueueExact ==
    ASSUME Shape, BudgetExact, NEW s \in Sessions, Enqueue(s)
    PROVE  BudgetExact'
<1> DEFINE o == target[Loop(s)]
           n == frameLen[s]
<1>1. o \in Opens /\ SessOf[o] = s /\ n \in Nat
  BY LoopHolds DEF Enqueue, At, Holding
<1>2. /\ queue \in [Opens -> Seq(Nat)] /\ buffered \in [Sessions -> Int]
      /\ qbytes \in [Opens -> Nat]
  BY ExactIsNat DEF Shape, Types, StreamTypes, SessionTypes
<1>3. /\ queue' = [queue EXCEPT ![o] = Append(@, n)]
      /\ qbytes' = [qbytes EXCEPT ![o] = @ + n]
      /\ buffered' = [buffered EXCEPT ![s] = @ + n]
      /\ globalBuffered' = globalBuffered + n /\ sclosed' = sclosed
  BY DEF Enqueue
<1> HIDE DEF o, n
<1>4. Total(Append(queue[o], n)) = Total(queue[o]) + n
  BY <1>1, <1>2, TotalAppend
<1>5. queue'[o] = Append(queue[o], n) /\ qbytes'[o] = qbytes[o] + n
  BY <1>1, <1>2, <1>3
<1>6. qbytes'[o] = Total(queue'[o])
  BY <1>1, <1>4, <1>5, Zenon DEF BudgetExact
<1>7. /\ \A u \in Opens \ {o} : queue'[u] = queue[u] /\ qbytes'[u] = qbytes[u]
      /\ qbytes' \in [Opens -> Nat]
  BY <1>1, <1>2, <1>3
<1>8. globalBuffered' = globalBuffered - qbytes[o] + qbytes'[o]
  BY <1>1, <1>2, <1>3, <1>5 DEF Shape, Types, SessionTypes
<1>9. \A r \in Sessions :
          buffered'[r] = IF r = SessOf[o] THEN buffered[r] - qbytes[o] + qbytes'[o]
                                          ELSE buffered[r]
  BY <1>1, <1>2, <1>3, <1>5
<1> QED BY <1>1, <1>3, <1>6, <1>7, <1>8, <1>9, BudgetMoves

\* The pump takes the head chunk out of the queue and of every counter.
LEMMA PumpTakesExact ==
    ASSUME Shape, BudgetExact, NEW o \in Opens, PumpTakes(o)
    PROVE  BudgetExact'
<1> DEFINE s == SessOf[o]
           n == Head(queue[o])
<1>1. s \in Sessions
  BY ConstTypes
<1>2. /\ queue \in [Opens -> Seq(Nat)] /\ buffered \in [Sessions -> Int]
      /\ qbytes \in [Opens -> Nat] /\ globalBuffered \in Int
  BY ExactIsNat DEF Shape, Types, StreamTypes, SessionTypes
<1>3. /\ queue' = [queue EXCEPT ![o] = Tail(@)] /\ queue[o] # <<>>
      /\ qbytes' = [qbytes EXCEPT ![o] = @ - n]
      /\ buffered' = [buffered EXCEPT ![s] = @ - n]
      /\ globalBuffered' = globalBuffered - n /\ sclosed' = sclosed
  BY Zenon DEF PumpTakes
<1>4. queue[o] \in Seq(Nat)
  BY <1>2
<1>5. n \in Nat
  BY <1>3, <1>4
<1>6. Total(Tail(queue[o])) = qbytes[o] - n /\ n <= qbytes[o]
  <2>1. /\ Total(Tail(queue[o])) = Total(queue[o]) - Head(queue[o])
        /\ Head(queue[o]) <= Total(queue[o])
    BY <1>3, <1>4, TotalTail
  <2> QED BY <2>1 DEF BudgetExact
<1> HIDE DEF n
<1>7. queue'[o] = Tail(queue[o]) /\ qbytes'[o] = qbytes[o] - n
  BY <1>2, <1>3
<1>8. qbytes'[o] = Total(queue'[o])
  BY <1>6, <1>7, Zenon
<1>9. /\ \A u \in Opens \ {o} : queue'[u] = queue[u] /\ qbytes'[u] = qbytes[u]
      /\ qbytes' \in [Opens -> Nat]
  <2>1. qbytes[o] - n \in Nat
    BY <1>2, <1>5, <1>6
  <2>2. \A u \in Opens \ {o} : queue'[u] = queue[u]
    BY <1>2, <1>3
  <2>3. \A u \in Opens \ {o} : qbytes'[u] = qbytes[u]
    BY <1>2, <1>3
  <2> QED BY <1>2, <1>3, <2>1, <2>2, <2>3
<1>10. globalBuffered' = globalBuffered - qbytes[o] + qbytes'[o]
  BY <1>2, <1>3, <1>5, <1>7
<1>11. \A r \in Sessions :
          buffered'[r] = IF r = SessOf[o] THEN buffered[r] - qbytes[o] + qbytes'[o]
                                          ELSE buffered[r]
  BY <1>1, <1>2, <1>3, <1>5, <1>7
<1> QED BY <1>3, <1>8, <1>9, <1>10, <1>11, BudgetMoves

\* closeStream and closeAll empty a queue: what they have in common.
LEMMA EmptiedExact ==
    ASSUME Shape, BudgetExact, NEW o \in Opens,
           queue' = [queue EXCEPT ![o] = <<>>],
           qbytes' = [qbytes EXCEPT ![o] = 0]
    PROVE  /\ qbytes' \in [Opens -> Nat] /\ qbytes'[o] = 0 /\ qbytes'[o] = Total(queue'[o])
           /\ \A u \in Opens \ {o} : queue'[u] = queue[u] /\ qbytes'[u] = qbytes[u]
<1>1. queue \in [Opens -> Seq(Nat)] /\ qbytes \in [Opens -> Nat]
  BY ExactIsNat DEF Shape, Types, StreamTypes
<1>2. queue'[o] = <<>> /\ qbytes'[o] = 0
  BY <1>1
<1>3. Total(<<>>) = 0
  <2>1. <<>> \in [{} -> Nat]
    OBVIOUS
  <2> QED BY <2>1, TotalZero
<1>4. \A u \in Opens \ {o} : queue'[u] = queue[u] /\ qbytes'[u] = qbytes[u]
  BY <1>1
<1>5. qbytes' \in [Opens -> Nat]
  BY <1>1
<1>6. qbytes'[o] = Total(queue'[o])
  BY <1>2, <1>3, Zenon
<1> QED BY <1>2, <1>4, <1>5, <1>6

\* closeStream gives the queued bytes back to both budgets.
LEMMA CloseReclaimExact ==
    ASSUME Shape, BudgetExact, NEW p \in Procs, CloseReclaim(p)
    PROVE  BudgetExact'
<1> DEFINE o == target[p]
           s == SessionOf(p)
<1>1. o \in Opens /\ SessOf[o] = s /\ s \in Sessions
  BY CloserHolds DEF CloseReclaim, At, Holding
<1>2. /\ buffered \in [Sessions -> Int] /\ globalBuffered \in Int /\ qbytes \in [Opens -> Nat]
  BY ExactIsNat DEF Shape, Types, SessionTypes
<1>3. /\ queue' = [queue EXCEPT ![o] = <<>>]
      /\ qbytes' = [qbytes EXCEPT ![o] = 0]
      /\ buffered' = [buffered EXCEPT ![s] = @ - qbytes[o]]
      /\ globalBuffered' = globalBuffered - qbytes[o] /\ sclosed' = sclosed
  BY Zenon DEF CloseReclaim
<1> HIDE DEF o, s
<1>4. /\ qbytes' \in [Opens -> Nat] /\ qbytes'[o] = 0 /\ qbytes'[o] = Total(queue'[o])
      /\ \A u \in Opens \ {o} : queue'[u] = queue[u] /\ qbytes'[u] = qbytes[u]
  BY <1>1, <1>3, EmptiedExact
<1>5. globalBuffered' = globalBuffered - qbytes[o] + qbytes'[o]
  BY <1>1, <1>2, <1>3, <1>4
<1>6. \A r \in Sessions :
          buffered'[r] = IF r = SessOf[o] THEN buffered[r] - qbytes[o] + qbytes'[o]
                                          ELSE buffered[r]
  <2>1. \A r \in Sessions : buffered'[r] = IF r = s THEN buffered[r] - qbytes[o] ELSE buffered[r]
    BY <1>1, <1>2, <1>3
  <2>2. qbytes[o] \in Nat
    BY <1>1, <1>2
  <2> QED BY <1>1, <1>2, <1>4, <2>1, <2>2
<1> QED BY <1>1, <1>3, <1>4, <1>5, <1>6, BudgetMoves

\* closeAll gives them back to the global budget only; its session's counter
\* no longer matters.
LEMMA AllReclaimExact ==
    ASSUME Shape, BudgetExact, NEW s \in Sessions, AllReclaim(s)
    PROVE  BudgetExact'
<1> DEFINE o == target[Loop(s)]
<1>1. o \in Opens /\ SessOf[o] = s /\ sclosed[s]
  <2>1. pc[Loop(s)] = "ca_reclaim"
    BY DEF AllReclaim, At
  <2>2. sclosed[s]
    BY <2>1 DEF Shape, LoopPhase
  <2> QED BY <2>1, <2>2, LoopHolds DEF Holding
<1>2. globalBuffered \in Int /\ qbytes \in [Opens -> Nat]
  BY ExactIsNat DEF Shape, Types, SessionTypes
<1>3. /\ queue' = [queue EXCEPT ![o] = <<>>]
      /\ qbytes' = [qbytes EXCEPT ![o] = 0]
      /\ buffered' = buffered
      /\ globalBuffered' = globalBuffered - qbytes[o] /\ sclosed' = sclosed
  BY Zenon DEF AllReclaim
<1> HIDE DEF o
<1>4. /\ qbytes' \in [Opens -> Nat] /\ qbytes'[o] = 0 /\ qbytes'[o] = Total(queue'[o])
      /\ \A u \in Opens \ {o} : queue'[u] = queue[u] /\ qbytes'[u] = qbytes[u]
  BY <1>1, <1>3, EmptiedExact
<1>5. globalBuffered' = globalBuffered - qbytes[o] + qbytes'[o]
  BY <1>1, <1>2, <1>3, <1>4
<1> QED BY <1>1, <1>3, <1>4, <1>5, BudgetMoves

\* The four steps, and all the others.
LEMMA BudgetStep == Shape /\ BudgetExact /\ [Next]_vars => BudgetExact'
<1> SUFFICES ASSUME Shape, BudgetExact, [Next]_vars
             PROVE  BudgetExact'
  OBVIOUS
<1>1. ASSUME UNCHANGED budgets, \A s \in Sessions : sclosed[s] => sclosed'[s]
      PROVE  BudgetExact'
  <2>1. queue' = queue /\ qbytes' = qbytes /\ buffered' = buffered
        /\ globalBuffered' = globalBuffered
    BY <1>1 DEF budgets
  <2> QED BY <1>1, <2>1 DEF BudgetExact
<1> QED
  BY <1>1, BudgetSteps, EnqueueExact, PumpTakesExact, CloseReclaimExact, AllReclaimExact

\* Initially every counter is zero and every queue empty.
LEMMA BudgetInit == Init => BudgetExact
<1> SUFFICES ASSUME Init PROVE BudgetExact
  OBVIOUS
<1>1. Total(<<>>) = 0
  <2>1. <<>> \in [{} -> Nat]
    OBVIOUS
  <2> QED BY <2>1, TotalZero
<1>2. \A o \in Opens : qbytes[o] = Total(queue[o])
  BY <1>1, Zenon DEF Init
<1>3. Total(qbytes) = 0
  <2>1. qbytes \in [Opens -> Nat] /\ \A o \in Opens : qbytes[o] = 0
    BY DEF Init
  <2> QED BY <2>1, TotalZero
<1>4. ASSUME NEW s \in Sessions PROVE TotalOn(OpensOf(s), qbytes) = 0
  <2> DEFINE g == [o \in OpensOf(s) |-> qbytes[o]]
  <2>1. g \in [OpensOf(s) -> Nat] /\ \A o \in OpensOf(s) : g[o] = 0
    BY DEF Init, OpensOf
  <2>2. Total(g) = 0
    <3> HIDE DEF g
    <3> QED BY <2>1, TotalZero
  <2> QED BY <2>2 DEF TotalOn
<1>5. globalBuffered = 0 /\ \A s \in Sessions : buffered[s] = 0
  BY DEF Init
<1> QED BY <1>2, <1>3, <1>4, <1>5 DEF BudgetExact

\* BudgetExact for every instance: the per-stream, per-session and process-wide
\* byte counters equal the bytes queued at every step, so no interleaving of
\* pump, closeStream and closeAll reclaims a chunk twice or forgets one.
THEOREM BudgetExactHolds == Spec => []BudgetExact
<1>1. Init => BudgetExact
  BY BudgetInit
<1>2. Shape /\ BudgetExact /\ [Next]_vars => BudgetExact'
  BY BudgetStep
<1> QED BY <1>1, <1>2, ShapeHolds, PTL DEF Spec

-----------------------------------------------------------------------------
(* The caps.  A read loop compares a counter with its cap and adds to it    *)
(* later; in between the chunk is pending.  Counting pending chunks makes   *)
(* the caps inductive.                                                      *)

Pending == [s \in Sessions |-> IF pc[Loop(s)] = "enqueue" THEN frameLen[s] ELSE 0]

Slack == (Cardinality(Sessions) - 1) * MaxChunk

CapInv ==
    /\ \A s \in Sessions : ~sclosed[s] => buffered[s] + Pending[s] <= SessionCap
    /\ globalBuffered + Total(Pending) <= GlobalCap + Slack

\* Pending chunks are no longer than a chunk can be.
LEMMA PendingType ==
    ASSUME Shape
    PROVE  /\ Pending \in [Sessions -> Nat] /\ Total(Pending) \in Nat
           /\ \A s \in Sessions : Pending[s] <= MaxChunk
<1>1. \A s \in Sessions : frameLen[s] \in ChunkSizes \cup {0}
  BY DEF Shape, Types, LocalTypes
<1>2. \A s \in Sessions : frameLen[s] \in Nat /\ frameLen[s] <= MaxChunk /\ 0 <= MaxChunk
  BY <1>1, ChunkTypes
<1>3. Pending \in [Sessions -> Nat] /\ \A s \in Sessions : Pending[s] <= MaxChunk
  BY <1>2 DEF Pending
<1>4. IsFiniteSet(Sessions)
  BY MuxAssumption
<1> QED BY <1>3, <1>4, TotalType

\* What the caps are made of.
LEMMA CapTypes ==
    /\ IsFiniteSet(Sessions) /\ Cardinality(Sessions) \in Nat
    /\ SessionCap \in Nat /\ GlobalCap \in Nat /\ MaxChunk \in Nat
    /\ Slack \in Nat
<1>1. IsFiniteSet(Sessions) /\ Sessions # {}
  BY MuxAssumption
<1>2. Cardinality(Sessions) \in Nat /\ Cardinality(Sessions) # 0
  BY <1>1, FS_CardinalityType, FS_EmptySet
<1>3. SessionCap \in Nat /\ GlobalCap \in Nat /\ MaxChunk \in Nat
  BY MuxAssumption
<1>4. \A k, m \in Nat : k * m \in Nat
  OBVIOUS
<1>5. Cardinality(Sessions) - 1 \in Nat
  BY <1>2
<1> QED BY <1>1, <1>2, <1>3, <1>4, <1>5 DEF Slack

\* A chunk becomes pending, and stops being so, only in the read loop's steps
\* ReadData, Enqueue and DropChunk.
LEMMA PendingSteps ==
    ASSUME Shape, [Next]_vars
    PROVE  \/ Pending' = Pending
           \/ \E s \in Sessions : Enqueue(s) \/ DropChunk(s)
           \/ \E s \in Sessions, i \in Ids, n \in ChunkSizes : ReadData(s, i, n)
<1> USE ProcNames, ConstTypes DEF Pending, Shape, Types, LocalTypes
<1>1. ASSUME NEW s \in Sessions, ConnBreaks(s) \/ ReapConn(s) PROVE Pending' = Pending
  BY <1>1 DEF ConnBreaks, ReapConn, lvars
<1>2. ASSUME NEW s \in Sessions, ReadFrame(s)
      PROVE  Pending' = Pending \/ \E i \in Ids, n \in ChunkSizes : ReadData(s, i, n)
  <2>1. ASSUME NEW o \in OpensOf(s), ReadOpen(o) \/ RefuseOpen(o) PROVE Pending' = Pending
    BY <2>1 DEF ReadOpen, RefuseOpen, Goto, OpensOf, lvars
  <2>2. ASSUME NEW i \in Ids, NEW n \in ChunkSizes, ShedStream(s, i, n)
        PROVE  Pending' = Pending
    BY <2>2 DEF ShedStream, PeerSendsData, Reading, At, Goto
  <2>3. ASSUME NEW i \in Ids, SkipData(s, i) \/ ReadClose(s, i) PROVE Pending' = Pending
    BY <2>3 DEF SkipData, ReadClose, Reading, At, Goto
  <2> QED BY <1>2, <2>1, <2>2, <2>3, Zenon DEF ReadFrame
<1>3. ASSUME NEW s \in Sessions, CloseAll(s) PROVE Pending' = Pending
  <2>1. CASE LoopFails(s) \/ AllDone(s) \/ AllCas(s) \/ \E i \in Ids : AllVisit(s, i)
    BY <2>1 DEF LoopFails, AllDone, AllCas, AllVisit, At, Goto, lvars
  <2>2. CASE AllLoses(s)
    BY <2>2 DEF AllLoses, AllVisited, LoopForgets, At, Goto
  <2>3. CASE AllReclaim(s)
    BY <2>3 DEF AllReclaim, AllVisited, LoopForgets, At, GotoAndWake
  <2> QED BY <1>3, <2>1, <2>2, <2>3 DEF CloseAll
<1>4. ASSUME NEW o \in Opens, HandleOpen(o) PROVE Pending' = Pending
  BY <1>4 DEF HandleOpen, DialFails, StoreStream, RefuseDuplicate, CheckClosed, UndoStore,
              SendOpenOk, OpenOkFails, OpenReturns, Goto, lvars
<1>5. ASSUME NEW o \in Opens, ReadUpstream(o) PROVE Pending' = Pending
  BY <1>5 DEF ReadUpstream, ReaderReads, ReaderEnds, ReaderForwards, ReaderCannotForward,
              ReaderGetsError, Goto, lvars
<1>6. ASSUME NEW o \in Opens, PumpUpstream(o) PROVE Pending' = Pending
  BY <1>6 DEF PumpUpstream, PumpWaits, PumpEnds, PumpTakes, PumpDelivers,
              PumpCannotCredit, PumpFails, Goto, lvars
<1>7. ASSUME NEW p \in Procs, CloseStream(p) PROVE Pending' = Pending
  <2>1. CASE CloseLoad(p) \/ CloseCas(p)
    BY <2>1 DEF CloseLoad, CloseCas, At, Goto, lvars
  <2>2. CASE CloseMisses(p) \/ CloseLoses(p)
    BY <2>2 DEF CloseMisses, CloseLoses, CloseReturns, AfterClose, At, Goto
  <2>3. CASE CloseReclaim(p)
    BY <2>3 DEF CloseReclaim, CloseReturns, AfterClose, At, GotoAndWake
  <2> QED BY <1>7, <2>1, <2>2, <2>3 DEF CloseStream
<1>8. CASE Finished \/ UNCHANGED vars
  BY <1>8 DEF Finished, vars, lvars
<1> HIDE DEF Pending, Shape
<1> QED
  BY <1>1, <1>2, <1>3, <1>4, <1>5, <1>6, <1>7, <1>8, Zenon DEF Next

\* Steps that add nothing to any counter and make nothing pending.
LEMMA CapKept ==
    ASSUME Shape, Shape', CapInv,
           \A s \in Sessions : ~sclosed'[s] =>
               ~sclosed[s] /\ buffered'[s] <= buffered[s],
           globalBuffered' <= globalBuffered, Pending' = Pending
    PROVE  CapInv'
<1>1. buffered \in [Sessions -> Int] /\ buffered' \in [Sessions -> Int]
      /\ globalBuffered \in Int /\ globalBuffered' \in Int
  BY DEF Shape, Types, SessionTypes
<1>2. Pending \in [Sessions -> Nat] /\ Total(Pending) \in Nat
  BY PendingType
<1>3. Total(Pending') = Total(Pending)
  OBVIOUS
<1> HIDE DEF Shape
<1> QED BY <1>1, <1>2, <1>3, CapTypes DEF CapInv

\* ReadData: the loop has just compared both counters with their caps, and
\* every other loop has at most one chunk pending.
LEMMA ReadDataCap ==
    ASSUME Shape, CapInv, NEW s \in Sessions, NEW i \in Ids, NEW n \in ChunkSizes,
           ReadData(s, i, n)
    PROVE  CapInv'
<1>1. /\ buffered[s] + n <= SessionCap /\ globalBuffered + n <= GlobalCap
      /\ UNCHANGED <<sclosed, buffered, globalBuffered>>
  <2>1. buffered \in [Sessions -> Int] /\ globalBuffered \in Int /\ n \in Nat
    BY ChunkTypes DEF Shape, Types, SessionTypes
  <2> QED BY <2>1, CapTypes DEF ReadData, OverBudget, svars
<1>2. /\ Pending'[s] = n
      /\ \A t \in Sessions \ {s} : Pending'[t] = Pending[t]
      /\ Pending' \in [Sessions -> Nat]
  <2>1. n \in Nat
    BY ChunkTypes
  <2>2. pc \in [Procs -> Labels] /\ frameLen \in [Sessions -> ChunkSizes \cup {0}]
    BY DEF Shape, Types, LocalTypes
  <2>3. Pending'[s] = n /\ \A t \in Sessions \ {s} : Pending'[t] = Pending[t]
    BY <2>2, ProcNames DEF ReadData, Goto, Pending
  <2>4. Pending \in [Sessions -> Nat]
    BY PendingType
  <2>5. \A t \in Sessions : Pending'[t] \in Nat
    BY <2>1, <2>3, <2>4
  <2> QED BY <2>3, <2>5 DEF Pending
<1>3. Total(Pending') <= n + Slack
  <2> DEFINE R == Sessions \ {s}
             g == [t \in R |-> Pending'[t]]
  <2>1. Total(Pending') = TotalOn(R, Pending') + n
    BY <1>2, CapTypes, TotalSplit
  <2>2. IsFiniteSet(R) /\ Cardinality(R) = Cardinality(Sessions) - 1
    BY CapTypes, FS_RemoveElement
  <2>3. g \in [R -> Nat] /\ \A t \in R : g[t] <= MaxChunk
    BY <1>2, PendingType
  <2>4. Total(g) <= Cardinality(R) * MaxChunk /\ Total(g) \in Nat
    <3> HIDE DEF g, R
    <3> QED BY <2>2, <2>3, CapTypes, TotalBound, TotalType
  <2>5. Total(g) <= Slack
    <3> HIDE DEF g, R
    <3> QED BY <2>2, <2>4 DEF Slack
  <2>6. TotalOn(R, Pending') = Total(g)
    BY DEF TotalOn
  <2>7. n \in Nat
    BY ChunkTypes
  <2> HIDE DEF g, R
  <2> QED BY <2>1, <2>4, <2>5, <2>6, <2>7, CapTypes
<1>4. /\ \A t \in Sessions : buffered[t] \in Int
      /\ globalBuffered \in Int /\ n \in Nat /\ Total(Pending') \in Nat
  BY <1>2, CapTypes, TotalType, ChunkTypes DEF Shape, Types, SessionTypes
<1>5. globalBuffered' + Total(Pending') <= GlobalCap + Slack
  BY <1>1, <1>3, <1>4, CapTypes
<1>6. ASSUME NEW t \in Sessions, ~sclosed'[t] PROVE buffered'[t] + Pending'[t] <= SessionCap
  BY <1>1, <1>2, <1>6 DEF CapInv
<1> QED BY <1>5, <1>6 DEF CapInv

\* Enqueue moves the pending chunk into the counters; DropChunk forgets it.
LEMMA EnqueueCap ==
    ASSUME Shape, CapInv, NEW s \in Sessions, Enqueue(s) \/ DropChunk(s)
    PROVE  CapInv'
<1> DEFINE n == frameLen[s]
<1>1. pc[Loop(s)] = "enqueue" /\ n \in Nat
  BY LoopHolds DEF Enqueue, DropChunk, At
<1>2. Pending \in [Sessions -> Nat] /\ Total(Pending) \in Nat /\ Pending[s] = n
  BY <1>1, PendingType DEF Pending
<1>3. /\ Pending'[s] = 0
      /\ \A t \in Sessions \ {s} : Pending'[t] = Pending[t]
      /\ Pending' \in [Sessions -> Nat]
  <2>1. pc \in [Procs -> Labels] /\ frameLen \in [Sessions -> ChunkSizes \cup {0}]
    BY DEF Shape, Types, LocalTypes
  <2>2. pc'[Loop(s)] = "read" /\ \A t \in Sessions \ {s} : pc'[Loop(t)] = pc[Loop(t)]
    <3>1. target[Loop(s)] \in Opens
      BY <1>1, LoopHolds DEF Holding
    <3>2. CASE Enqueue(s)
      BY <2>1, <3>1, <3>2, ProcNames DEF Enqueue, GotoAndWake
    <3>3. CASE DropChunk(s)
      BY <2>1, <3>3, ProcNames DEF DropChunk, Goto
    <3> QED BY <3>2, <3>3
  <2>3. \A t \in Sessions \ {s} : frameLen'[t] = frameLen[t]
    BY <2>1 DEF Enqueue, DropChunk, LoopForgets
  <2>4. Pending'[s] = 0 /\ \A t \in Sessions \ {s} : Pending'[t] = Pending[t]
    BY <2>2, <2>3 DEF Pending
  <2>5. \A t \in Sessions : Pending'[t] \in Nat
    BY <1>2, <2>4
  <2> QED BY <2>4, <2>5 DEF Pending
<1>4. Total(Pending') = Total(Pending) - n
  <2>1. Total(Pending') = Total(Pending) - Pending[s] + Pending'[s]
    BY <1>2, <1>3, CapTypes, TotalUpdate
  <2> QED BY <1>1, <1>2, <1>3, <2>1
<1>5. /\ \A t \in Sessions : buffered[t] \in Int
      /\ globalBuffered \in Int /\ buffered \in [Sessions -> Int]
  BY DEF Shape, Types, SessionTypes
<1>6. /\ sclosed' = sclosed /\ globalBuffered' \in {globalBuffered, globalBuffered + n}
      /\ buffered' \in {buffered, [buffered EXCEPT ![s] = @ + n]}
  BY DEF Enqueue, DropChunk, svars
<1> HIDE DEF n
<1>7. globalBuffered' + Total(Pending') <= GlobalCap + Slack
  BY <1>1, <1>2, <1>4, <1>5, <1>6, CapTypes DEF CapInv
<1>8. ASSUME NEW t \in Sessions, ~sclosed'[t] PROVE buffered'[t] + Pending'[t] <= SessionCap
  <2>1. buffered[t] + Pending[t] <= SessionCap
    BY <1>6, <1>8 DEF CapInv
  <2>2. CASE t = s
    BY <1>1, <1>2, <1>3, <1>5, <1>6, <2>1, <2>2, CapTypes
  <2>3. CASE t # s
    BY <1>1, <1>3, <1>5, <1>6, <2>1, <2>3
  <2> QED BY <2>2, <2>3
<1> QED BY <1>7, <1>8 DEF CapInv

\* The pump and the two closers only subtract.
LEMMA ReclaimCap ==
    ASSUME Shape, Shape', BudgetExact, CapInv, Pending' = Pending,
           \/ \E s \in Sessions : AllReclaim(s)
           \/ \E o \in Opens : PumpTakes(o)
           \/ \E p \in Procs : CloseReclaim(p)
    PROVE  CapInv'
<1>1. buffered \in [Sessions -> Int] /\ globalBuffered \in Int /\ qbytes \in [Opens -> Nat]
  BY ExactIsNat DEF Shape, Types, SessionTypes
<1> DEFINE Takes(n, s) ==
               /\ globalBuffered' = globalBuffered - n
               /\ buffered' = buffered \/ buffered' = [buffered EXCEPT ![s] = @ - n]
               /\ sclosed' = sclosed
<1>2. ASSUME NEW s \in Sessions, AllReclaim(s) PROVE \E n \in Nat : Takes(n, s)
  <2>1. target[Loop(s)] \in Opens
    BY <1>2, LoopHolds DEF AllReclaim, At, Holding
  <2>2. qbytes[target[Loop(s)]] \in Nat
    BY <1>1, <2>1
  <2> QED BY <1>2, <2>2, Zenon DEF AllReclaim
<1>3. ASSUME NEW o \in Opens, PumpTakes(o) PROVE \E n \in Nat : Takes(n, SessOf[o])
  <2>1. queue[o] \in Seq(Nat) /\ queue[o] # <<>>
    BY <1>3 DEF Shape, Types, StreamTypes, PumpTakes
  <2>2. Head(queue[o]) \in Nat
    BY <2>1
  <2> QED BY <1>3, <2>2, Zenon DEF PumpTakes
<1>4. ASSUME NEW p \in Procs, CloseReclaim(p) PROVE \E n \in Nat : Takes(n, SessionOf(p))
  <2>1. target[p] \in Opens
    BY <1>4, CloserHolds DEF CloseReclaim, At, Holding
  <2>2. qbytes[target[p]] \in Nat
    BY <1>1, <2>1
  <2> QED BY <1>4, <2>2, Zenon DEF CloseReclaim
<1>5. PICK s \in Sessions : \E n \in Nat : Takes(n, s)
  <2>1. \A o \in Opens : SessOf[o] \in Sessions
    BY ConstTypes
  <2>2. \A p \in Procs : SessionOf(p) \in Sessions
    BY ProcKinds
  <2> QED BY <1>2, <1>3, <1>4, <2>1, <2>2, Zenon
<1>6. PICK n \in Nat : Takes(n, s)
  BY <1>5
<1>7. /\ \A r \in Sessions : ~sclosed'[r] => ~sclosed[r] /\ buffered'[r] <= buffered[r]
      /\ globalBuffered' <= globalBuffered
  BY <1>1, <1>6
<1> QED BY <1>7, CapKept

\* Every step keeps the caps.
LEMMA CapStep == Shape /\ Shape' /\ BudgetExact /\ CapInv /\ [Next]_vars => CapInv'
<1> SUFFICES ASSUME Shape, Shape', BudgetExact, CapInv, [Next]_vars
             PROVE  CapInv'
  OBVIOUS
<1>1. CASE \E s \in Sessions : Enqueue(s) \/ DropChunk(s)
  BY <1>1, EnqueueCap
<1>2. CASE \E s \in Sessions, i \in Ids, n \in ChunkSizes : ReadData(s, i, n)
  BY <1>2, ReadDataCap
<1>3. ASSUME Pending' = Pending, UNCHANGED budgets,
             \A s \in Sessions : sclosed[s] => sclosed'[s]
      PROVE  CapInv'
  <2>1. buffered' = buffered /\ globalBuffered' = globalBuffered
    BY <1>3 DEF budgets
  <2>2. buffered \in [Sessions -> Int] /\ globalBuffered \in Int
    BY DEF Shape, Types, SessionTypes
  <2>3. \A s \in Sessions : ~sclosed'[s] => ~sclosed[s] /\ buffered'[s] <= buffered[s]
    BY <1>3, <2>1, <2>2
  <2>4. globalBuffered' <= globalBuffered
    BY <2>1, <2>2
  <2> QED BY <1>3, <2>3, <2>4, CapKept
<1> QED
  BY <1>1, <1>2, <1>3, PendingSteps, BudgetSteps, ReclaimCap, Zenon

\* Nothing is queued or pending at first.
LEMMA CapInit == Init => CapInv
<1> SUFFICES ASSUME Init PROVE CapInv
  OBVIOUS
<1>1. Pending \in [Sessions -> Nat] /\ \A s \in Sessions : Pending[s] = 0
  BY DEF Init, Pending
<1>2. Total(Pending) = 0
  BY <1>1, TotalZero
<1>3. globalBuffered = 0 /\ \A s \in Sessions : buffered[s] = 0
  BY DEF Init
<1> QED BY <1>1, <1>2, <1>3, CapTypes DEF CapInv

\* CapsHold for every number of sessions and every chunk size: a session never
\* exceeds v2SessionBufferCap, and v2GlobalBufferCap is overshot by less than
\* one chunk per session.
THEOREM CapsHoldAlways == Spec => []CapsHold
<1>1. Init => CapInv
  BY CapInit
<1>2. Shape /\ Shape' /\ BudgetExact /\ CapInv /\ [Next]_vars => CapInv'
  BY CapStep
<1>3. Shape /\ CapInv => CapsHold
  <2> SUFFICES ASSUME Shape, CapInv PROVE CapsHold
    OBVIOUS
  <2>1. Pending \in [Sessions -> Nat] /\ Total(Pending) \in Nat
    BY PendingType
  <2>2. buffered \in [Sessions -> Int] /\ globalBuffered \in Int
    BY DEF Shape, Types, SessionTypes
  <2> QED BY <2>1, <2>2, CapTypes DEF CapInv, CapsHold, Slack
<1> QED BY <1>1, <1>2, <1>3, ShapeHolds, BudgetExactHolds, PTL DEF Spec

-----------------------------------------------------------------------------
(* The OPEN semaphore *)

\* The handleOpen goroutines of a session in flight.
InFlight(s) == {o \in OpensOf(s) : Running(Opener(o))}

SemInv ==
    /\ SemaphoreExact
    /\ \A s \in Sessions : openSem[s] <= MaxOpens

\* The three things a step can do to the semaphores: nothing, take a token for
\* a handleOpen that starts, give back the token of one that returns.
SemIdle ==
    /\ openSem' = openSem
    /\ \A o \in Opens : Running(Opener(o))' = Running(Opener(o))

SemTaken(o) ==
    /\ ~Running(Opener(o)) /\ Running(Opener(o))' /\ openSem[SessOf[o]] < MaxOpens
    /\ \A u \in Opens \ {o} : Running(Opener(u))' = Running(Opener(u))
    /\ \A s \in Sessions :
           openSem'[s] = IF s = SessOf[o] THEN openSem[s] + 1 ELSE openSem[s]

SemGiven(o) ==
    /\ Running(Opener(o)) /\ ~Running(Opener(o))'
    /\ \A u \in Opens \ {o} : Running(Opener(u))' = Running(Opener(u))
    /\ \A s \in Sessions :
           openSem'[s] = IF s = SessOf[o] THEN openSem[s] - 1 ELSE openSem[s]

-----------------------------------------------------------------------------
\* The steps of the read loop: only ReadOpen takes a token.
LEMMA LoopSem ==
    ASSUME Shape, NEW s \in Sessions,
           \/ ConnBreaks(s) \/ ReapConn(s) \/ ReadFrame(s)
           \/ Enqueue(s) \/ DropChunk(s) \/ CloseAll(s)
    PROVE  SemIdle \/ \E o \in Opens : SemTaken(o)
<1> USE ProcNames, ConstTypes DEF SemIdle, Running, Shape, Types, LocalTypes, SessionTypes
<1>1. CASE ConnBreaks(s) \/ ReapConn(s)
  BY <1>1 DEF ConnBreaks, ReapConn
<1>2. CASE ReadFrame(s)
  <2>1. ASSUME NEW o \in OpensOf(s), ReadOpen(o) PROVE o \in Opens /\ SemTaken(o)
    BY <2>1 DEF ReadOpen, SemTaken, OpensOf, Goto, At
  <2>2. ASSUME NEW o \in OpensOf(s), RefuseOpen(o) PROVE SemIdle
    BY <2>2 DEF RefuseOpen, OpensOf, Goto, At, svars
  <2>3. ASSUME NEW i \in Ids, NEW n \in ChunkSizes, ReadData(s, i, n) \/ ShedStream(s, i, n)
        PROVE  SemIdle
    BY <2>3 DEF ReadData, ShedStream, Goto, svars
  <2>4. ASSUME NEW i \in Ids, SkipData(s, i) \/ ReadClose(s, i) PROVE SemIdle
    BY <2>4 DEF SkipData, ReadClose, Goto, svars
  <2> HIDE DEF SemIdle
  <2> QED BY <1>2, <2>1, <2>2, <2>3, <2>4, Zenon DEF ReadFrame
<1>3. CASE Enqueue(s) \/ DropChunk(s)
  <2>1. pc[Loop(s)] = "enqueue" /\ target[Loop(s)] \in Opens
    BY <1>3, LoopHolds DEF Enqueue, DropChunk, At, Holding
  <2>2. \A o \in Opens : pc'[Opener(o)] = pc[Opener(o)]
    BY <1>3, <2>1 DEF Enqueue, DropChunk, Goto, GotoAndWake
  <2> QED BY <1>3, <2>2 DEF Enqueue, DropChunk, svars
<1>4. CASE CloseAll(s)
  <2>1. CASE LoopFails(s) \/ AllDone(s) \/ AllCas(s) \/ AllLoses(s) \/ \E i \in Ids : AllVisit(s, i)
    BY <2>1 DEF LoopFails, AllDone, AllCas, AllLoses, AllVisit, Goto, svars
  <2>2. CASE AllReclaim(s)
    <3>1. target[Loop(s)] \in Opens
      BY <2>2, LoopHolds DEF AllReclaim, At, Holding
    <3>2. \A o \in Opens : pc'[Opener(o)] = pc[Opener(o)]
      BY <2>2, <3>1 DEF AllReclaim, GotoAndWake
    <3> QED BY <2>2, <3>2 DEF AllReclaim
  <2> QED BY <1>4, <2>1, <2>2 DEF CloseAll
<1> QED BY <1>1, <1>2, <1>3, <1>4

\* The steps of the goroutines: a handleOpen that returns gives its token back.
LEMMA StreamSem ==
    ASSUME Shape, NEW o \in Opens, HandleOpen(o) \/ ReadUpstream(o) \/ PumpUpstream(o)
    PROVE  SemIdle \/ SemGiven(o)
<1> USE ProcNames, ConstTypes DEF SemIdle, Running, Shape, Types, LocalTypes, SessionTypes
<1>1. CASE DialFails(o) \/ RefuseDuplicate(o) \/ UndoStore(o)
  <2>1. /\ Running(Opener(o)) /\ OpenReturns(o)
    BY <1>1 DEF DialFails, RefuseDuplicate, UndoStore, At
  <2> QED BY <2>1 DEF SemGiven, OpenReturns, Goto
<1>2. CASE SendOpenOk(o)
  <2>1. pc'[Opener(o)] = "exit" /\ \A u \in Opens \ {o} : pc'[Opener(u)] = pc[Opener(u)]
    BY <1>2 DEF SendOpenOk
  <2> QED BY <1>2, <2>1 DEF SendOpenOk, SemGiven, At
<1>3. CASE StoreStream(o) \/ CheckClosed(o) \/ OpenOkFails(o)
  BY <1>3 DEF StoreStream, CheckClosed, OpenOkFails, Goto, At, svars
<1>4. CASE ReadUpstream(o)
  BY <1>4 DEF ReadUpstream, ReaderReads, ReaderEnds, ReaderForwards, ReaderCannotForward,
              ReaderGetsError, Goto, svars
<1>5. CASE PumpUpstream(o)
  BY <1>5 DEF PumpUpstream, PumpWaits, PumpEnds, PumpTakes, PumpDelivers,
              PumpCannotCredit, PumpFails, Goto, svars
<1> QED BY <1>1, <1>2, <1>3, <1>4, <1>5 DEF HandleOpen

\* closeStream: when its caller is a handleOpen, its return is that goroutine's.
LEMMA CloseSem ==
    ASSUME Shape, NEW p \in Procs, CloseStream(p)
    PROVE  SemIdle \/ \E o \in Opens : SemGiven(o)
<1> USE ProcNames DEF SemIdle, Running, Shape, Types, LocalTypes, SessionTypes
<1>1. CASE CloseLoad(p) \/ CloseCas(p)
  <2>1. openSem' = openSem /\ pc[p] \notin {"idle", "exit"}
    BY <1>1 DEF CloseLoad, CloseCas, At, svars
  <2>2. \A q \in Procs : q # p => pc'[q] = pc[q]
    BY <1>1 DEF CloseLoad, CloseCas, Goto
  <2>3. pc'[p] \notin {"idle", "exit"}
    BY <1>1 DEF CloseLoad, CloseCas, Goto
  <2> QED BY <2>1, <2>2, <2>3
<1>2. CASE CloseMisses(p) \/ CloseLoses(p) \/ CloseReclaim(p)
  <2>1. pc[p] \in CloseLabels /\ CloseReturns(p)
    BY <1>2 DEF CloseMisses, CloseLoses, CloseReclaim, At, CloseLabels
  <2>2. /\ pc'[p] = AfterClose(p)
        /\ \A u \in Opens : Opener(u) # p => pc'[Opener(u)] = pc[Opener(u)]
    <3>1. CASE CloseMisses(p) \/ CloseLoses(p)
      BY <3>1 DEF CloseMisses, CloseLoses, Goto
    <3>2. CASE CloseReclaim(p)
      <4>1. target[p] \in Opens
        BY <3>2, CloserHolds DEF CloseReclaim, At, Holding
      <4> QED BY <3>2, <4>1 DEF CloseReclaim, GotoAndWake
    <3> QED BY <1>2, <3>1, <3>2
  <2>3. CASE p[1] = "open"
    <3>1. p[2] \in Opens /\ p = Opener(p[2])
      BY <2>3, ProcKinds
    <3>2. SemGiven(p[2])
      BY <2>1, <2>2, <2>3, <3>1 DEF SemGiven, AfterClose, CloseReturns, CloseLabels, SessionOf
    <3> QED BY <3>1, <3>2
  <2>4. CASE p[1] # "open"
    <3>1. \A u \in Opens : Opener(u) # p
      BY <2>4, ProcKinds
    <3>2. openSem' = openSem
      BY <2>1, <2>4 DEF CloseReturns
    <3> QED BY <2>2, <3>1, <3>2
  <2> QED BY <2>3, <2>4
<1> QED BY <1>1, <1>2 DEF CloseStream

\* Every step takes one token, gives one back or leaves the semaphores alone.
LEMMA SemSteps ==
    ASSUME Shape, [Next]_vars
    PROVE  SemIdle \/ \E o \in Opens : SemTaken(o) \/ SemGiven(o)
<1>1. CASE Finished \/ UNCHANGED vars
  BY <1>1 DEF Finished, vars, svars, SemIdle, Running
<1>2. ASSUME NEW s \in Sessions,
             \/ ConnBreaks(s) \/ ReapConn(s) \/ ReadFrame(s)
             \/ Enqueue(s) \/ DropChunk(s) \/ CloseAll(s)
      PROVE  SemIdle \/ \E o \in Opens : SemTaken(o)
  BY <1>2, LoopSem
<1>3. ASSUME NEW o \in Opens, HandleOpen(o) \/ ReadUpstream(o) \/ PumpUpstream(o)
      PROVE  SemIdle \/ SemGiven(o)
  BY <1>3, StreamSem
<1>4. ASSUME NEW p \in Procs, CloseStream(p)
      PROVE  SemIdle \/ \E o \in Opens : SemGiven(o)
  BY <1>4, CloseSem
<1> QED BY <1>1, <1>2, <1>3, <1>4, Zenon DEF Next

\* The handleOpen goroutines of a session are finitely many.
LEMMA InFlightFinite ==
    ASSUME NEW s \in Sessions
    PROVE  IsFiniteSet(InFlight(s)) /\ IsFiniteSet(InFlight(s)')
<1>1. IsFiniteSet(Opens)
  BY MuxAssumption
<1>2. InFlight(s) \subseteq Opens /\ InFlight(s)' \subseteq Opens
  BY DEF InFlight, OpensOf
<1> QED BY <1>1, <1>2, FS_Subset

\* Taking and giving a token keeps the count and the bound.
LEMMA SemStep ==
    ASSUME Shape, Shape', SemInv, [Next]_vars
    PROVE  SemInv'
<1>1. /\ \A s \in Sessions : openSem[s] \in Int /\ openSem'[s] \in Int
      /\ \A s \in Sessions : openSem[s] = Cardinality(InFlight(s)) /\ openSem[s] <= MaxOpens
      /\ MaxOpens \in Nat
  <2>1. MaxOpens \in Nat
    BY MuxAssumption
  <2> QED BY <2>1 DEF Shape, Types, SessionTypes, SemInv, SemaphoreExact, InFlight
<1>2. SUFFICES \A s \in Sessions :
                   openSem'[s] = Cardinality(InFlight(s)') /\ openSem'[s] <= MaxOpens
  BY DEF SemInv, SemaphoreExact, InFlight
<1> TAKE s \in Sessions
<1>3. CASE SemIdle
  <2>1. InFlight(s)' = InFlight(s) /\ openSem'[s] = openSem[s]
    BY <1>3 DEF SemIdle, InFlight, OpensOf
  <2> QED BY <1>1, <2>1
<1>4. ASSUME NEW o \in Opens, SemTaken(o)
      PROVE  openSem'[s] = Cardinality(InFlight(s)') /\ openSem'[s] <= MaxOpens
  <2>1. CASE s = SessOf[o]
    <3>1. InFlight(s)' = InFlight(s) \cup {o} /\ o \notin InFlight(s)
      BY <1>4, <2>1 DEF SemTaken, InFlight, OpensOf
    <3>2. Cardinality(InFlight(s)') = Cardinality(InFlight(s)) + 1
      BY <3>1, InFlightFinite, FS_AddElement
    <3>3. openSem'[s] = openSem[s] + 1 /\ openSem[s] < MaxOpens
      BY <1>4, <2>1 DEF SemTaken
    <3> QED BY <1>1, <3>2, <3>3
  <2>2. CASE s # SessOf[o]
    <3>1. InFlight(s)' = InFlight(s)
      BY <1>4, <2>2 DEF SemTaken, InFlight, OpensOf
    <3>2. openSem'[s] = openSem[s]
      BY <1>4, <2>2 DEF SemTaken
    <3> QED BY <1>1, <3>1, <3>2
  <2> QED BY <2>1, <2>2
<1>5. ASSUME NEW o \in Opens, SemGiven(o)
      PROVE  openSem'[s] = Cardinality(InFlight(s)') /\ openSem'[s] <= MaxOpens
  <2>1. CASE s = SessOf[o]
    <3>1. InFlight(s)' = InFlight(s) \ {o} /\ o \in InFlight(s)
      BY <1>5, <2>1 DEF SemGiven, InFlight, OpensOf
    <3>2. Cardinality(InFlight(s)') = Cardinality(InFlight(s)) - 1
      BY <3>1, InFlightFinite, FS_RemoveElement
    <3>3. openSem'[s] = openSem[s] - 1
      BY <1>5, <2>1 DEF SemGiven
    <3> QED BY <1>1, <3>2, <3>3
  <2>2. CASE s # SessOf[o]
    <3>1. InFlight(s)' = InFlight(s)
      BY <1>5, <2>2 DEF SemGiven, InFlight, OpensOf
    <3>2. openSem'[s] = openSem[s]
      BY <1>5, <2>2 DEF SemGiven
    <3> QED BY <1>1, <3>1, <3>2
  <2> QED BY <2>1, <2>2
<1> QED BY <1>3, <1>4, <1>5, SemSteps

\* No handleOpen runs at first and no token is taken.
LEMMA SemInit == Init => SemInv
<1> SUFFICES ASSUME Init PROVE SemInv
  OBVIOUS
<1>1. MaxOpens \in Nat
  BY MuxAssumption
<1>2. ASSUME NEW s \in Sessions PROVE InFlight(s) = {}
  <2>1. \A o \in Opens : pc[Opener(o)] = "idle"
    BY ProcNames DEF Init, Opener
  <2> QED BY <2>1 DEF InFlight, Running, OpensOf
<1>3. \A s \in Sessions : openSem[s] = 0
  BY DEF Init
<1> QED BY <1>1, <1>2, <1>3, FS_EmptySet DEF SemInv, SemaphoreExact, InFlight

\* The inductive invariant, for every instance.
THEOREM SemInvHolds == Spec => []SemInv
<1>1. Init => SemInv
  BY SemInit
<1>2. Shape /\ Shape' /\ SemInv /\ [Next]_vars => SemInv'
  BY SemStep
<1> QED BY <1>1, <1>2, ShapeHolds, PTL DEF Spec

\* SemaphoreExact for every instance: openSem is the number of handleOpen
\* goroutines in flight, so no path out of handleOpen leaks a token or releases
\* one twice.
THEOREM SemaphoreExactHolds == Spec => []SemaphoreExact
<1>1. SemInv => SemaphoreExact
  BY DEF SemInv
<1> QED BY <1>1, SemInvHolds, PTL

\* Type correctness, with the facts that are more than types: tokens stay
\* within MaxOpens and no byte counter of a stream or of the process is ever
\* negative.
THEOREM TypeCorrect == Spec => []TypeOK
<1>1. Shape /\ BudgetExact /\ SemInv => TypeOK
  <2> SUFFICES ASSUME Shape, BudgetExact, SemInv PROVE TypeOK
    OBVIOUS
  <2>1. qbytes \in [Opens -> Nat] /\ globalBuffered \in Nat
    BY ExactIsNat
  <2>2. openSem \in [Sessions -> 0 .. MaxOpens]
    <3>1. \A s \in Sessions : Cardinality(InFlight(s)) \in Nat
      BY InFlightFinite, FS_CardinalityType
    <3>2. \A s \in Sessions : openSem[s] \in Nat /\ openSem[s] <= MaxOpens
      BY <3>1 DEF SemInv, SemaphoreExact, InFlight
    <3>3. MaxOpens \in Nat
      BY MuxAssumption
    <3>4. \A s \in Sessions : openSem[s] \in 0 .. MaxOpens
      BY <3>2, <3>3
    <3>5. openSem \in [Sessions -> Int]
      BY DEF Shape, Types, SessionTypes
    <3> QED BY <3>4, <3>5
  <2> QED BY <2>1, <2>2 DEF Shape, Types, SessionTypes, StreamTypes, LocalTypes,
                            HistoryTypes, TypeOK, Labels
<1> QED BY <1>1, ShapeHolds, BudgetExactHolds, SemInvHolds, PTL
-----------------------------------------------------------------------------
(***************************************************************************)
(* How streams and sessions end.                                           *)
(***************************************************************************)

\* An upstream connection that is open has a goroutine that will close it: the
\* handleOpen that dialled it, or the stream's reader.
OwnedUpstream ==
    \A o \in Opens :
        /\ pc[Opener(o)] \in {"idle", "dial"} => upstream[o] # "open"
        /\ upstream[o] = "open" => Running(Opener(o)) \/ Running(Reader(o))

\* A stream is in the map under the id of its OPEN.
MapKeys ==
    \A s \in Sessions, i \in Ids, o \in Opens : streams[s][i] = o => IdOf[o] = i

\* Once closeAll has begun, a stream in the map is either one whose handleOpen
\* has yet to look at v2Session.closed, or one that Range has still to visit
\* or is just about to delete.
MapSwept ==
    \A s \in Sessions, o \in Opens :
        sclosed[s] /\ streams[s][IdOf[o]] = o =>
            \/ pc[Opener(o)] = "check"
            \/ /\ o \in due[s]
               /\ \/ IdOf[o] \notin visited[s]
                  \/ pc[Loop(s)] \in {"ca_cas", "ca_reclaim"} /\ frameId[s] = IdOf[o]

\* closeAll's Range starts with no key visited and ends with nothing due.
RangeLocals ==
    \A s \in Sessions : /\ ~sclosed[s] => visited[s] = {}
                        /\ pc[Loop(s)] = "exit" => due[s] = {}

Sweep == MapKeys /\ MapSwept /\ RangeLocals

\* No two OPENs of a session carry the same id.
DistinctIds ==
    \A o, u \in Opens : SessOf[o] = SessOf[u] /\ IdOf[o] = IdOf[u] => o = u

\* closeAll deletes the key of the stream it visits, which is closed by then.
VisitKeys ==
    \A s \in Sessions :
        /\ pc[Loop(s)] \in {"ca_cas", "ca_reclaim"} => IdOf[target[Loop(s)]] = frameId[s]
        /\ pc[Loop(s)] = "ca_reclaim" => closed[target[Loop(s)]]

\* OPEN_OK is the last thing handleOpen does.
ConfirmedLast == \A o \in Opens : "OPEN_OK" \in told[o] => pc[Opener(o)] = "exit"

\* A stream that was stored and not undone can still be found by whoever has
\* to close it: it is closed, in the map, or held by a goroutine on its way to
\* the CompareAndSwap.
Reachable ==
    \A o \in Opens :
        pc[Opener(o)] \in {"check", "openok"} \/ "OPEN_OK" \in told[o] =>
            \/ closed[o]
            \/ streams[SessOf[o]][IdOf[o]] = o
            \/ \E p \in Procs : target[p] = o /\ pc[p] \in {"cs_cas", "ca_cas"}

\* Only streams the peer was told of have queued bytes, or get them.
QueuedConfirmed ==
    /\ \A o \in Opens : qbytes[o] > 0 => "OPEN_OK" \in told[o]
    /\ \A s \in Sessions : pc[Loop(s)] = "enqueue" => "OPEN_OK" \in told[target[Loop(s)]]

Loud(o) == "CLOSE" \in told[o] \/ peerClosed[o]

\* A stream in the map has been dialled.
MapStarted ==
    \A s \in Sessions, i \in Ids, o \in Opens :
        streams[s][i] = o => pc[Opener(o)] # "idle"

\* A goroutine in closeStream holds a stream of the id it was called with.
CloserTargets ==
    \A p \in Procs : pc[p] = "cs_cas" =>
        IdOf[target[p]] = StreamId(p) /\ pc[Opener(target[p])] # "idle"

\* Whoever is in closeStream while the connection is up has told the peer, or
\* was told by it: a goroutine of the stream itself, and the read loop for every
\* OPEN of its frame's id that it has read.
LoudClosers ==
    /\ \A o \in Opens : \A p \in {Opener(o), Reader(o), Pump(o)} :
           pc[p] \in {"cs_load", "cs_cas"} /\ conn[SessOf[o]] = "up" => Loud(o)
    /\ \A s \in Sessions : \A o \in OpensOf(s) :
           /\ pc[Loop(s)] \in {"cs_load", "cs_cas"} /\ conn[s] = "up"
           /\ frameId[s] = IdOf[o] /\ pc[Opener(o)] # "idle"
           => Loud(o)

-----------------------------------------------------------------------------
(* The goroutines of a stream start when its handleOpen ends. *)

\* Reader and pump run only once handleOpen has returned.
StartOrder ==
    \A o \in Opens : pc[Opener(o)] # "exit" => pc[Reader(o)] = "idle" /\ pc[Pump(o)] = "idle"

\* The last step of closeStream moves the goroutine that runs it, and may wake
\* the pump of the stream it closed.
LEMMA CloserMoves ==
    ASSUME Shape, NEW p \in Procs, CloseMisses(p) \/ CloseLoses(p) \/ CloseReclaim(p)
    PROVE  /\ pc'[p] \in {"read", "exit"}
           /\ \A q \in Procs \ {p} : pc'[q] = pc[q] \/ (pc[q] = "parked" /\ pc'[q] = "take")
<1>1. PICK l \in {"read", "exit"} : Goto(p, l) \/ GotoAndWake(p, l, target[p])
  <2>1. AfterClose(p) \in {"read", "exit"}
    BY DEF AfterClose
  <2>2. Goto(p, AfterClose(p)) \/ GotoAndWake(p, AfterClose(p), target[p])
    BY Zenon DEF CloseMisses, CloseLoses, CloseReclaim
  <2> QED BY <2>1, <2>2, Zenon
<1>2. pc \in [Procs -> Labels]
  BY DEF Shape, Types, LocalTypes
<1>3. CASE Goto(p, l)
  BY <1>2, <1>3 DEF Goto
<1>4. CASE GotoAndWake(p, l, target[p])
  BY <1>2, <1>4 DEF GotoAndWake
<1> QED BY <1>1, <1>3, <1>4

\* A handleOpen that ended has ended for good, no step but SendOpenOk starts a
\* reader or a pump, and the read loop that reads the OPEN starts handleOpen.
LEMMA Starters ==
    ASSUME Shape, [Next]_vars
    PROVE  \/ \A o \in Opens :
                  /\ pc[Opener(o)] = "exit" => pc'[Opener(o)] = "exit"
                  /\ pc[Reader(o)] = "idle" => pc'[Reader(o)] = "idle"
                  /\ pc[Pump(o)] = "idle" => pc'[Pump(o)] = "idle"
                  /\ pc'[Opener(o)] = "idle" => pc[Opener(o)] = "idle"
                  /\ pc[Opener(o)] = "idle" /\ pc'[Opener(o)] # "idle" =>
                         pc[Loop(SessOf[o])] = "read" /\ pc'[Loop(SessOf[o])] = "read"
           \/ \E o \in Opens : SendOpenOk(o)
<1> DEFINE Same(o) == /\ pc[Opener(o)] = "exit" => pc'[Opener(o)] = "exit"
                      /\ pc[Reader(o)] = "idle" => pc'[Reader(o)] = "idle"
                      /\ pc[Pump(o)] = "idle" => pc'[Pump(o)] = "idle"
                      /\ pc'[Opener(o)] = "idle" => pc[Opener(o)] = "idle"
                      /\ pc[Opener(o)] = "idle" /\ pc'[Opener(o)] # "idle" =>
                             pc[Loop(SessOf[o])] = "read" /\ pc'[Loop(SessOf[o])] = "read"
           Still == \A o \in Opens : Same(o)
<1> USE ConstTypes, ProcNames DEF Shape, Types, LocalTypes, At, Goto
<1>1. ASSUME NEW s \in Sessions, ConnBreaks(s) \/ ReapConn(s) PROVE Still
  BY <1>1 DEF ConnBreaks, ReapConn
<1>2. ASSUME NEW s \in Sessions, ReadFrame(s) PROVE Still
  <2>1. ASSUME NEW o \in OpensOf(s), ReadOpen(o) \/ RefuseOpen(o) PROVE Still
    BY <2>1 DEF ReadOpen, RefuseOpen, Reading, OpensOf
  <2>2. ASSUME NEW i \in Ids, NEW n \in ChunkSizes, ReadData(s, i, n) \/ ShedStream(s, i, n)
        PROVE  Still
    BY <2>2 DEF ReadData, ShedStream
  <2>3. ASSUME NEW i \in Ids, SkipData(s, i) \/ ReadClose(s, i) PROVE Still
    BY <2>3 DEF SkipData, ReadClose
  <2> QED BY <1>2, <2>1, <2>2, <2>3, Zenon DEF ReadFrame
<1>3. ASSUME NEW s \in Sessions, Enqueue(s) \/ DropChunk(s) PROVE Still
  BY <1>3 DEF Enqueue, DropChunk, GotoAndWake
<1>4. ASSUME NEW s \in Sessions, CloseAll(s) PROVE Still
  <2>1. CASE LoopFails(s) \/ AllCas(s) \/ AllLoses(s) \/ AllDone(s)
    BY <2>1 DEF LoopFails, AllCas, AllLoses, AllDone
  <2>2. CASE AllReclaim(s)
    BY <2>2 DEF AllReclaim, GotoAndWake
  <2>3. ASSUME NEW i \in Ids, AllVisit(s, i) PROVE Still
    BY <2>3 DEF AllVisit
  <2> QED BY <1>4, <2>1, <2>2, <2>3, Zenon DEF CloseAll
<1>5. ASSUME NEW o \in Opens, HandleOpen(o) PROVE Still \/ SendOpenOk(o)
  <2>1. CASE DialFails(o) \/ StoreStream(o) \/ RefuseDuplicate(o)
    BY <2>1 DEF DialFails, StoreStream, RefuseDuplicate, OpenReturns
  <2>2. CASE CheckClosed(o) \/ UndoStore(o) \/ OpenOkFails(o)
    BY <2>2 DEF CheckClosed, UndoStore, OpenOkFails, OpenReturns
  <2> QED BY <1>5, <2>1, <2>2, Zenon DEF HandleOpen
<1>6. ASSUME NEW o \in Opens, ReadUpstream(o) PROVE Still
  BY <1>6 DEF ReadUpstream, ReaderReads, ReaderEnds, ReaderForwards, ReaderCannotForward,
              ReaderGetsError
<1>7. ASSUME NEW o \in Opens, PumpUpstream(o) PROVE Still
  BY <1>7 DEF PumpUpstream, PumpWaits, PumpEnds, PumpTakes, PumpDelivers, PumpCannotCredit,
              PumpFails
<1>8. ASSUME NEW p \in Procs, CloseStream(p) PROVE Still
  <2>1. CASE CloseLoad(p) \/ CloseCas(p)
    BY <2>1 DEF CloseLoad, CloseCas
  <2>2. CASE CloseMisses(p) \/ CloseLoses(p) \/ CloseReclaim(p)
    BY <2>2, CloserMoves DEF CloseMisses, CloseLoses, CloseReclaim
  <2> QED BY <1>8, <2>1, <2>2 DEF CloseStream
<1>9. CASE Finished \/ UNCHANGED vars
  BY <1>9 DEF Finished, vars
<1> HIDE DEF Still
<1> QED
  BY <1>1, <1>2, <1>3, <1>4, <1>5, <1>6, <1>7, <1>8, <1>9, Zenon DEF Next, Still

\* A stream's reader and pump run only once its handleOpen has returned.
LEMMA StartOrderHolds == Spec => []StartOrder
<1>1. Init => StartOrder
  BY ProcNames DEF Init, StartOrder, Reader, Pump
<1>2. Shape /\ StartOrder /\ [Next]_vars => StartOrder'
  <2> SUFFICES ASSUME Shape, StartOrder, [Next]_vars PROVE StartOrder'
    OBVIOUS
  <2>1. ASSUME NEW o \in Opens, SendOpenOk(o) PROVE StartOrder'
    BY <2>1, ProcNames DEF SendOpenOk, StartOrder, Shape, Types, LocalTypes
  <2> QED BY <2>1, Starters, Zenon DEF StartOrder
<1> QED BY <1>1, <1>2, ShapeHolds, PTL DEF Spec

-----------------------------------------------------------------------------
(* A closed stream is reclaimed. *)

Reclaiming == {"cs_reclaim", "ca_reclaim"}

\* The goroutines that are about to reclaim stay where they are, with the
\* stream they hold.
ReclaimersWait ==
    \A p \in Procs : pc[p] \in Reclaiming => pc'[p] = pc[p] /\ target'[p] = target[p]

\* Apart from six steps, no step closes a stream, changes its queued bytes or
\* moves a goroutine that is about to reclaim them.
LEMMA ReclaimSteps ==
    ASSUME Shape, StartOrder, [Next]_vars
    PROVE  \/ UNCHANGED <<closed, qbytes>> /\ ReclaimersWait
           \/ \E s \in Sessions : Enqueue(s) \/ AllCas(s) \/ AllReclaim(s)
           \/ \E o \in Opens : PumpTakes(o)
           \/ \E p \in Procs : CloseCas(p) \/ CloseReclaim(p)
<1> DEFINE Still == UNCHANGED <<closed, qbytes>> /\ ReclaimersWait
<1> USE ConstTypes, ProcNames DEF Shape, Types, LocalTypes, Reclaiming, ReclaimersWait, At, Goto
<1>1. ASSUME NEW s \in Sessions, ConnBreaks(s) \/ ReapConn(s) PROVE Still
  BY <1>1 DEF ConnBreaks, ReapConn, ovars, lvars
<1>2. ASSUME NEW s \in Sessions, ReadFrame(s) PROVE Still
  <2>1. ASSUME NEW o \in OpensOf(s), ReadOpen(o) \/ RefuseOpen(o) PROVE Still
    BY <2>1 DEF ReadOpen, RefuseOpen, ovars, lvars, OpensOf
  <2>2. ASSUME NEW i \in Ids, NEW n \in ChunkSizes, ReadData(s, i, n) \/ ShedStream(s, i, n)
        PROVE  Still
    BY <2>2 DEF ReadData, ShedStream, PeerSendsData, Reading, ovars
  <2>3. ASSUME NEW i \in Ids, SkipData(s, i) \/ ReadClose(s, i) PROVE Still
    BY <2>3 DEF SkipData, ReadClose, Reading, ovars
  <2> QED BY <1>2, <2>1, <2>2, <2>3, Zenon DEF ReadFrame
<1>3. ASSUME NEW s \in Sessions, DropChunk(s) PROVE Still
  BY <1>3 DEF DropChunk, LoopForgets, ovars
<1>4. ASSUME NEW s \in Sessions, CloseAll(s) PROVE Still \/ AllCas(s) \/ AllReclaim(s)
  <2>1. CASE LoopFails(s)
    BY <2>1 DEF LoopFails, ovars
  <2>2. CASE AllLoses(s)
    BY <2>2 DEF AllLoses, AllVisited, LoopForgets, ovars
  <2>3. CASE AllDone(s)
    BY <2>3 DEF AllDone, ovars
  <2>4. ASSUME NEW i \in Ids, AllVisit(s, i) PROVE Still
    BY <2>4 DEF AllVisit, ovars
  <2> QED BY <1>4, <2>1, <2>2, <2>3, <2>4, Zenon DEF CloseAll
<1>5. ASSUME NEW o \in Opens, HandleOpen(o) PROVE Still
  <2>1. CASE DialFails(o) \/ StoreStream(o) \/ RefuseDuplicate(o)
    BY <2>1 DEF DialFails, StoreStream, RefuseDuplicate, OpenReturns, ovars, lvars
  <2>2. CASE CheckClosed(o) \/ UndoStore(o) \/ OpenOkFails(o)
    BY <2>2 DEF CheckClosed, UndoStore, OpenOkFails, OpenReturns, ovars, lvars
  <2>3. CASE SendOpenOk(o)
    BY <2>3 DEF SendOpenOk, ovars, lvars, StartOrder
  <2> QED BY <1>5, <2>1, <2>2, <2>3 DEF HandleOpen
<1>6. ASSUME NEW o \in Opens, ReadUpstream(o) PROVE Still
  BY <1>6 DEF ReadUpstream, ReaderReads, ReaderEnds, ReaderForwards, ReaderCannotForward,
              ReaderGetsError, ovars, lvars
<1>7. ASSUME NEW o \in Opens, PumpUpstream(o) PROVE Still \/ PumpTakes(o)
  BY <1>7 DEF PumpUpstream, PumpWaits, PumpEnds, PumpDelivers, PumpCannotCredit, PumpFails,
              ovars, lvars
<1>8. ASSUME NEW p \in Procs, CloseStream(p) PROVE Still \/ CloseCas(p) \/ CloseReclaim(p)
  BY <1>8 DEF CloseStream, CloseLoad, CloseMisses, CloseLoses, CloseReturns, ovars
<1>9. CASE Finished \/ UNCHANGED vars
  BY <1>9 DEF Finished, vars, ovars, lvars
<1> HIDE DEF Still
<1> QED
  BY <1>1, <1>2, <1>3, <1>4, <1>5, <1>6, <1>7, <1>8, <1>9, Zenon DEF Next, Still

\* If nothing new is closed and queued, other than a stream a goroutine is now
\* about to reclaim, and goroutines stay that were about to reclaim another
\* stream than u, then closed streams are reclaimed as before.
LEMMA ReclaimFrame ==
    ASSUME ClosedIsReclaimed, NEW u \in Opens,
           ~closed'[u] \/ ~(qbytes'[u] > 0)
               \/ \E p \in Procs : target'[p] = u /\ pc'[p] \in Reclaiming,
           \A o \in Opens \ {u} : closed'[o] /\ qbytes'[o] > 0 => closed[o] /\ qbytes[o] > 0,
           \A p \in Procs : pc[p] \in Reclaiming /\ target[p] # u =>
                                pc'[p] = pc[p] /\ target'[p] = target[p]
    PROVE  ClosedIsReclaimed'
<1> SUFFICES ASSUME NEW o \in Opens, closed'[o], qbytes'[o] > 0
             PROVE  \E p \in Procs : target'[p] = o /\ pc'[p] \in Reclaiming
  BY Zenon DEF ClosedIsReclaimed, Reclaiming
<1>1. CASE o = u
  BY <1>1, Zenon
<1>2. CASE o # u
  <2>1. closed[o] /\ qbytes[o] > 0
    BY <1>2, Zenon
  <2>2. PICK p \in Procs : target[p] = o /\ pc[p] \in Reclaiming
    BY <2>1, Zenon DEF ClosedIsReclaimed, Reclaiming
  <2>3. target'[p] = o /\ pc'[p] \in Reclaiming
    BY <1>2, <2>2
  <2> QED BY <2>3
<1> QED BY <1>1, <1>2

\* Winning the CompareAndSwap makes the goroutine the one that reclaims.
LEMMA ReclaimedStep ==
    ASSUME Shape, StartOrder, ClosedIsReclaimed, [Next]_vars
    PROVE  ClosedIsReclaimed'
<1> USE DEF At
<1>1. CASE UNCHANGED <<closed, qbytes>> /\ ReclaimersWait
  <2> SUFFICES ASSUME NEW o \in Opens, closed[o], qbytes[o] > 0
               PROVE  \E p \in Procs : target'[p] = o /\ pc'[p] \in Reclaiming
    BY <1>1, Zenon DEF ClosedIsReclaimed, Reclaiming
  <2>1. PICK p \in Procs : target[p] = o /\ pc[p] \in Reclaiming
    BY Zenon DEF ClosedIsReclaimed, Reclaiming
  <2> QED BY <1>1, <2>1 DEF ReclaimersWait
<1>2. ASSUME NEW s \in Sessions, Enqueue(s) PROVE ClosedIsReclaimed'
  <2> DEFINE u == target[Loop(s)]
  <2>1. u \in Opens /\ closed' = closed /\ ~closed[u] /\ pc[Loop(s)] = "enqueue"
    BY <1>2, LoopHolds DEF Enqueue, Holding
  <2>2. \A o \in Opens \ {u} : qbytes'[o] = qbytes[o]
    BY <1>2, <2>1 DEF Enqueue, Shape, Types, StreamTypes
  <2>3. ReclaimersWait
    BY <1>2, <2>1, ProcNames DEF Enqueue, GotoAndWake, LoopForgets, ReclaimersWait,
       Reclaiming, Shape, Types, LocalTypes
  <2> HIDE DEF u
  <2> QED BY <2>1, <2>2, <2>3, ReclaimFrame, Zenon DEF ReclaimersWait
<1>3. ASSUME NEW s \in Sessions, AllCas(s) PROVE ClosedIsReclaimed'
  <2> DEFINE u == target[Loop(s)]
  <2>1. u \in Opens /\ Loop(s) \in Procs /\ pc[Loop(s)] = "ca_cas"
    BY <1>3, LoopHolds, ProcNames DEF AllCas, Holding
  <2>2. target'[Loop(s)] = u /\ pc'[Loop(s)] \in Reclaiming /\ qbytes' = qbytes
    BY <1>3, <2>1 DEF AllCas, Goto, lvars, Reclaiming, Shape, Types, LocalTypes
  <2>3. \A o \in Opens \ {u} : closed'[o] = closed[o]
    BY <1>3, <2>1 DEF AllCas, Shape, Types, StreamTypes
  <2>4. ReclaimersWait
    BY <1>3, <2>1 DEF AllCas, Goto, lvars, ReclaimersWait, Reclaiming, Shape, Types, LocalTypes
  <2> HIDE DEF u
  <2> QED BY <2>1, <2>2, <2>3, <2>4, ReclaimFrame, Zenon DEF ReclaimersWait
<1>4. ASSUME NEW p \in Procs, CloseCas(p) PROVE ClosedIsReclaimed'
  <2> DEFINE u == target[p]
  <2>1. u \in Opens /\ pc[p] = "cs_cas"
    BY <1>4, CloserHolds DEF CloseCas, Holding
  <2>2. target'[p] = u /\ pc'[p] \in Reclaiming /\ qbytes' = qbytes
    BY <1>4, <2>1 DEF CloseCas, Goto, lvars, Reclaiming, Shape, Types, LocalTypes
  <2>3. \A o \in Opens \ {u} : closed'[o] = closed[o]
    BY <1>4, <2>1 DEF CloseCas, Shape, Types, StreamTypes
  <2>4. ReclaimersWait
    BY <1>4, <2>1 DEF CloseCas, Goto, lvars, ReclaimersWait, Reclaiming, Shape, Types, LocalTypes
  <2> HIDE DEF u
  <2> QED BY <2>1, <2>2, <2>3, <2>4, ReclaimFrame, Zenon DEF ReclaimersWait
<1>5. ASSUME NEW s \in Sessions, AllReclaim(s) PROVE ClosedIsReclaimed'
  <2> DEFINE u == target[Loop(s)]
  <2>1. u \in Opens /\ Loop(s) \in Procs /\ pc[Loop(s)] = "ca_reclaim" /\ closed' = closed
    BY <1>5, LoopHolds, ProcNames DEF AllReclaim, Holding
  <2>2. qbytes'[u] = 0 /\ \A o \in Opens \ {u} : qbytes'[o] = qbytes[o]
    BY <1>5, <2>1 DEF AllReclaim, Shape, Types, StreamTypes
  <2>3. \A p \in Procs : pc[p] \in Reclaiming /\ target[p] # u =>
            pc'[p] = pc[p] /\ target'[p] = target[p]
    BY <1>5 DEF AllReclaim, GotoAndWake, AllVisited, LoopForgets, Reclaiming, Shape, Types,
                LocalTypes
  <2>4. ~(qbytes'[u] > 0)
    BY <2>2
  <2> HIDE DEF u
  <2> QED BY <2>1, <2>2, <2>3, <2>4, ReclaimFrame, Zenon
<1>6. ASSUME NEW u \in Opens, PumpTakes(u) PROVE ClosedIsReclaimed'
  <2>1. ~closed[u] /\ closed' = closed
    BY <1>6 DEF PumpTakes
  <2>2. \A o \in Opens \ {u} : qbytes'[o] = qbytes[o]
    BY <1>6 DEF PumpTakes, Shape, Types, StreamTypes
  <2>3. ReclaimersWait
    BY <1>6, ProcNames DEF PumpTakes, Goto, ReclaimersWait, Reclaiming, lvars, Shape, Types,
                           LocalTypes
  <2> QED BY <2>1, <2>2, <2>3, ReclaimFrame, Zenon DEF ReclaimersWait
<1>7. ASSUME NEW p \in Procs, CloseReclaim(p) PROVE ClosedIsReclaimed'
  <2> DEFINE u == target[p]
  <2>1. u \in Opens /\ pc[p] = "cs_reclaim" /\ closed' = closed
    BY <1>7, CloserHolds DEF CloseReclaim, Holding
  <2>2. qbytes'[u] = 0 /\ \A o \in Opens \ {u} : qbytes'[o] = qbytes[o]
    BY <1>7, <2>1 DEF CloseReclaim, Shape, Types, StreamTypes
  <2>3. \A q \in Procs : pc[q] \in Reclaiming /\ target[q] # u =>
            pc'[q] = pc[q] /\ target'[q] = target[q]
    BY <1>7 DEF CloseReclaim, GotoAndWake, CloseReturns, Reclaiming, Shape, Types, LocalTypes
  <2>4. ~(qbytes'[u] > 0)
    BY <2>2
  <2> HIDE DEF u
  <2> QED BY <2>1, <2>2, <2>3, <2>4, ReclaimFrame, Zenon
<1> QED BY <1>1, <1>2, <1>3, <1>4, <1>5, <1>6, <1>7, ReclaimSteps, Zenon

\* A stream that is closed holds no byte of the budgets, unless the goroutine
\* that won the CompareAndSwap is just about to give them back.
THEOREM ClosedIsReclaimedHolds == Spec => []ClosedIsReclaimed
<1>1. Init => ClosedIsReclaimed
  BY DEF Init, ClosedIsReclaimed
<1>2. Shape /\ StartOrder /\ ClosedIsReclaimed /\ [Next]_vars => ClosedIsReclaimed'
  BY ReclaimedStep
<1> QED BY <1>1, <1>2, ShapeHolds, StartOrderHolds, PTL DEF Spec

-----------------------------------------------------------------------------
(* No upstream connection outlives the goroutines that could close it. *)

\* Steps that leave the upstreams, handleOpen and the reader alone, or at most
\* start a handleOpen, end it before its dial, or wake a pump.
LEMMA OwnedFrame ==
    ASSUME OwnedUpstream,
           \A o \in Opens :
               /\ upstream'[o] = "open" => upstream[o] = "open"
               /\ pc'[Opener(o)] \in {"idle", "dial"} => pc[Opener(o)] \in {"idle", "dial"}
               /\ Running(Opener(o)) => Running(Opener(o))' \/ upstream'[o] # "open"
               /\ Running(Reader(o)) => Running(Reader(o))' \/ upstream'[o] # "open"
    PROVE  OwnedUpstream'
BY Zenon DEF OwnedUpstream

\* Whoever ends closes the upstream it owns: handleOpen on each of its ways
\* out but the last, the reader by its deferred call.
LEMMA OwnedStep ==
    ASSUME Shape, OwnedUpstream, [Next]_vars
    PROVE  OwnedUpstream'
<1> USE ConstTypes, ProcNames DEF Shape, Types, LocalTypes, StreamTypes, At, Goto, Running
<1>1. ASSUME NEW s \in Sessions, ConnBreaks(s) \/ ReapConn(s) PROVE OwnedUpstream'
  BY <1>1, OwnedFrame DEF ConnBreaks, ReapConn, ovars
<1>2. ASSUME NEW s \in Sessions, ReadFrame(s) PROVE OwnedUpstream'
  <2>1. ASSUME NEW o \in OpensOf(s), ReadOpen(o) \/ RefuseOpen(o) PROVE OwnedUpstream'
    BY <2>1 DEF ReadOpen, RefuseOpen, OpensOf, ovars, OwnedUpstream
  <2>2. ASSUME NEW i \in Ids, NEW n \in ChunkSizes, ReadData(s, i, n) \/ ShedStream(s, i, n)
        PROVE  OwnedUpstream'
    BY <2>2, OwnedFrame DEF ReadData, ShedStream, ovars
  <2>3. ASSUME NEW i \in Ids, SkipData(s, i) \/ ReadClose(s, i) PROVE OwnedUpstream'
    BY <2>3, OwnedFrame DEF SkipData, ReadClose, ovars
  <2> QED BY <1>2, <2>1, <2>2, <2>3, Zenon DEF ReadFrame
<1>3. ASSUME NEW s \in Sessions, Enqueue(s) \/ DropChunk(s) PROVE OwnedUpstream'
  BY <1>3, OwnedFrame DEF Enqueue, DropChunk, GotoAndWake, ovars
<1>4. ASSUME NEW s \in Sessions, CloseAll(s) PROVE OwnedUpstream'
  <2>1. CASE LoopFails(s) \/ AllCas(s) \/ AllLoses(s) \/ AllDone(s)
    BY <2>1, OwnedFrame DEF LoopFails, AllCas, AllLoses, AllDone, ovars
  <2>2. CASE AllReclaim(s)
    BY <2>2, OwnedFrame DEF AllReclaim, GotoAndWake
  <2>3. ASSUME NEW i \in Ids, AllVisit(s, i) PROVE OwnedUpstream'
    BY <2>3, OwnedFrame DEF AllVisit, ovars
  <2> QED BY <1>4, <2>1, <2>2, <2>3, Zenon DEF CloseAll
<1>5. ASSUME NEW o \in Opens, HandleOpen(o) PROVE OwnedUpstream'
  <2>1. CASE DialFails(o)
    BY <2>1 DEF DialFails, OpenReturns, ovars, OwnedUpstream
  <2>2. CASE StoreStream(o)
    BY <2>2 DEF StoreStream, OwnedUpstream
  <2>3. CASE RefuseDuplicate(o)
    BY <2>3, OwnedFrame DEF RefuseDuplicate, OpenReturns
  <2>4. CASE CheckClosed(o) \/ OpenOkFails(o)
    BY <2>4, OwnedFrame DEF CheckClosed, OpenOkFails, ovars
  <2>5. CASE UndoStore(o)
    BY <2>5, OwnedFrame DEF UndoStore, OpenReturns
  <2>6. CASE SendOpenOk(o)
    BY <2>6 DEF SendOpenOk, ovars, OwnedUpstream
  <2> QED BY <1>5, <2>1, <2>2, <2>3, <2>4, <2>5, <2>6 DEF HandleOpen
<1>6. ASSUME NEW o \in Opens, ReadUpstream(o) PROVE OwnedUpstream'
  <2>1. CASE ReaderEnds(o)
    BY <2>1, OwnedFrame DEF ReaderEnds
  <2>2. CASE ~ReaderEnds(o)
    BY <1>6, <2>2, OwnedFrame DEF ReadUpstream, ReaderReads, ReaderForwards,
                                  ReaderCannotForward, ReaderGetsError, ovars
  <2> QED BY <2>1, <2>2
<1>7. ASSUME NEW o \in Opens, PumpUpstream(o) PROVE OwnedUpstream'
  <2>1. CASE PumpCannotCredit(o) \/ PumpFails(o)
    BY <2>1, OwnedFrame DEF PumpCannotCredit, PumpFails
  <2>2. CASE ~(PumpCannotCredit(o) \/ PumpFails(o))
    BY <1>7, <2>2, OwnedFrame DEF PumpUpstream, PumpWaits, PumpEnds, PumpTakes, PumpDelivers,
                                  ovars
  <2> QED BY <2>1, <2>2
<1>8. ASSUME NEW p \in Procs, CloseStream(p) PROVE OwnedUpstream'
  <2>1. CASE CloseLoad(p) \/ CloseCas(p)
    BY <2>1, OwnedFrame DEF CloseLoad, CloseCas, ovars
  <2>2. CASE CloseMisses(p) \/ CloseLoses(p) \/ CloseReclaim(p)
    <3>1. /\ pc'[p] \in {"read", "exit"}
          /\ \A q \in Procs \ {p} : pc'[q] = pc[q] \/ (pc[q] = "parked" /\ pc'[q] = "take")
      BY <2>2, CloserMoves, Zenon
    <3>2. \/ CloseUpstreams(OwnUpstream(p))
          \/ CloseUpstreams({target[p]} \cup OwnUpstream(p))
      BY <2>2, Zenon DEF CloseMisses, CloseLoses, CloseReclaim
    <3>3. \A o \in Opens : p = Opener(o) \/ p = Reader(o) => o \in OwnUpstream(p)
      BY ProcKinds DEF OwnUpstream
    <3>4. \A o \in Opens : /\ upstream'[o] = "open" => upstream[o] = "open"
                           /\ p = Opener(o) \/ p = Reader(o) => upstream'[o] # "open"
      BY <3>2, <3>3 DEF CloseUpstreams
    <3> QED BY <3>1, <3>4, OwnedFrame
  <2> QED BY <1>8, <2>1, <2>2 DEF CloseStream
<1>9. CASE Finished \/ UNCHANGED vars
  BY <1>9, OwnedFrame DEF Finished, vars, ovars
<1> HIDE DEF Running
<1> QED
  BY <1>1, <1>2, <1>3, <1>4, <1>5, <1>6, <1>7, <1>8, <1>9, Zenon DEF Next

-----------------------------------------------------------------------------
(* No map entry outlives its session: closeAll's Range deletes what it finds, *)
(* and handleOpen what was stored behind its back.                            *)

\* Steps that store nothing, do not move a handleOpen away from its look at
\* v2Session.closed and move no loop that is in closeAll, except past its
\* CompareAndSwap.
LEMMA SweepFrame ==
    ASSUME Shape, Sweep, UNCHANGED <<sclosed, due, visited>>,
           \A s \in Sessions, i \in Ids : streams'[s][i] \in {streams[s][i], None},
           \A o \in Opens : pc[Opener(o)] = "check" => pc'[Opener(o)] = "check",
           \A s \in Sessions : sclosed[s] =>
               /\ frameId'[s] = frameId[s]
               /\ \/ pc'[Loop(s)] = pc[Loop(s)]
                  \/ pc[Loop(s)] = "ca_cas" /\ pc'[Loop(s)] = "ca_reclaim",
           \A s \in Sessions : ~sclosed[s] => pc'[Loop(s)] # "exit"
    PROVE  Sweep'
<1> USE ConstTypes DEF Sweep
<1>1. MapKeys'
  BY DEF MapKeys
<1>2. MapSwept'
  <2> SUFFICES ASSUME NEW s \in Sessions, NEW o \in Opens, sclosed'[s],
                      streams'[s][IdOf[o]] = o
               PROVE  \/ pc'[Opener(o)] = "check"
                      \/ /\ o \in due'[s]
                         /\ \/ IdOf[o] \notin visited'[s]
                            \/ /\ pc'[Loop(s)] \in {"ca_cas", "ca_reclaim"}
                               /\ frameId'[s] = IdOf[o]
    BY Zenon DEF MapSwept
  <2>1. sclosed[s] /\ streams[s][IdOf[o]] = o
    OBVIOUS
  <2> QED BY <2>1 DEF MapSwept
<1>3. RangeLocals'
  <2> SUFFICES ASSUME NEW s \in Sessions
               PROVE  /\ ~sclosed[s] => visited[s] = {}
                      /\ pc'[Loop(s)] = "exit" => due[s] = {}
    BY DEF RangeLocals
  <2> QED BY DEF RangeLocals
<1> QED BY <1>1, <1>2, <1>3

\* closeAll begins: everything in the map is due.
LEMMA SweepLoopFails ==
    ASSUME Shape, Sweep, NEW s \in Sessions, LoopFails(s)
    PROVE  Sweep'
<1> USE ConstTypes, ProcNames DEF Sweep
<1>1. /\ pc \in [Procs -> Labels] /\ due \in [Sessions -> SUBSET Opens]
      /\ sclosed \in [Sessions -> BOOLEAN]
  BY DEF Shape, Types, LocalTypes, SessionTypes
<1>2. /\ pc[Loop(s)] = "read" /\ ~sclosed[s] /\ streams' = streams /\ visited' = visited
      /\ frameId' = frameId /\ due'[s] = InMap(s)
      /\ \A r \in Sessions \ {s} : due'[r] = due[r] /\ sclosed'[r] = sclosed[r]
      /\ \A p \in Procs \ {Loop(s)} : pc'[p] = pc[p]
      /\ pc'[Loop(s)] = "ca_range" /\ sclosed'[s] = TRUE
  BY <1>1 DEF LoopFails, At, Goto, Shape, LoopPhase
<1>3. MapKeys'
  BY <1>2 DEF MapKeys
<1>4. RangeLocals'
  BY <1>2 DEF RangeLocals
<1>5. MapSwept'
  <2> SUFFICES ASSUME NEW r \in Sessions, NEW o \in Opens, sclosed'[r],
                      streams[r][IdOf[o]] = o
               PROVE  \/ pc'[Opener(o)] = "check"
                      \/ /\ o \in due'[r]
                         /\ \/ IdOf[o] \notin visited[r]
                            \/ /\ pc'[Loop(r)] \in {"ca_cas", "ca_reclaim"}
                               /\ frameId[r] = IdOf[o]
    BY <1>2, Zenon DEF MapSwept
  <2>1. CASE r = s
    BY <1>2, <2>1 DEF InMap, RangeLocals
  <2>2. CASE r # s
    BY <1>2, <2>2 DEF MapSwept
  <2> QED BY <2>1, <2>2
<1> QED BY <1>3, <1>4, <1>5

\* Range calls back with a key it has not visited.
LEMMA SweepAllVisit ==
    ASSUME Shape, Sweep, NEW s \in Sessions, NEW i \in Ids, AllVisit(s, i)
    PROVE  Sweep'
<1> USE ConstTypes, ProcNames DEF Sweep
<1>1. /\ pc \in [Procs -> Labels] /\ visited \in [Sessions -> SUBSET Ids]
      /\ frameId \in [Sessions -> Ids \cup {None}]
  BY DEF Shape, Types, LocalTypes
<1>2. /\ pc[Loop(s)] = "ca_range" /\ sclosed[s]
      /\ sclosed' = sclosed /\ streams' = streams /\ due' = due
      /\ frameId'[s] = i /\ visited'[s] = visited[s] \cup {i}
      /\ \A r \in Sessions \ {s} : visited'[r] = visited[r] /\ frameId'[r] = frameId[r]
      /\ \A p \in Procs \ {Loop(s)} : pc'[p] = pc[p]
      /\ pc'[Loop(s)] = "ca_cas"
  BY <1>1 DEF AllVisit, At, Goto, Shape, LoopPhase, svars
<1>3. MapKeys'
  BY <1>2 DEF MapKeys
<1>4. RangeLocals'
  BY <1>2 DEF RangeLocals
<1>5. MapSwept'
  BY <1>2 DEF MapSwept
<1> QED BY <1>3, <1>4, <1>5

\* The callback returns: the key it was called with is gone from the map.
LEMMA SweepAllVisited ==
    ASSUME Shape, Sweep, NEW s \in Sessions, AllLoses(s) \/ AllReclaim(s)
    PROVE  Sweep'
<1> USE ConstTypes, ProcNames DEF Sweep
<1>1. /\ pc \in [Procs -> Labels] /\ streams \in [Sessions -> [Ids -> Opens \cup {None}]]
      /\ frameId \in [Sessions -> Ids \cup {None}]
  BY DEF Shape, Types, LocalTypes, SessionTypes
<1>2. /\ pc[Loop(s)] \in {"ca_cas", "ca_reclaim"} /\ AllVisited(s)
      /\ sclosed' = sclosed /\ due' = due /\ visited' = visited
  BY Zenon DEF AllLoses, AllReclaim, At
<1>3. frameId[s] \in Ids /\ sclosed[s]
  BY <1>2 DEF Shape, FrameIds, LoopPhase, Holding
<1>4. /\ \A r \in Sessions, i \in Ids : streams'[r][i] =
             IF r = s /\ i = frameId[s] THEN None ELSE streams[r][i]
      /\ \A r \in Sessions \ {s} : frameId'[r] = frameId[r]
  BY <1>1, <1>2, <1>3 DEF AllVisited, LoopForgets
<1>5. /\ pc'[Loop(s)] = "ca_range"
      /\ \A r \in Sessions \ {s} : pc'[Loop(r)] = pc[Loop(r)]
      /\ \A o \in Opens : pc'[Opener(o)] = pc[Opener(o)]
  <2>1. CASE AllLoses(s)
    BY <1>1, <2>1 DEF AllLoses, Goto
  <2>2. CASE AllReclaim(s)
    <3>1. target[Loop(s)] \in Opens
      BY <1>2, LoopHolds DEF Holding
    <3> QED BY <1>1, <2>2, <3>1 DEF AllReclaim, GotoAndWake
  <2> QED BY <2>1, <2>2
<1>6. MapKeys'
  BY <1>4 DEF MapKeys
<1>7. RangeLocals'
  BY <1>2, <1>3, <1>5 DEF RangeLocals
<1>8. MapSwept'
  <2> SUFFICES ASSUME NEW r \in Sessions, NEW o \in Opens, sclosed[r],
                      streams'[r][IdOf[o]] = o
               PROVE  \/ pc'[Opener(o)] = "check"
                      \/ /\ o \in due[r]
                         /\ \/ IdOf[o] \notin visited[r]
                            \/ /\ pc'[Loop(r)] \in {"ca_cas", "ca_reclaim"}
                               /\ frameId'[r] = IdOf[o]
    BY <1>2, Zenon DEF MapSwept
  <2>1. streams[r][IdOf[o]] = o /\ ~(r = s /\ IdOf[o] = frameId[s])
    BY <1>4
  <2>2. CASE r = s
    <3>1. frameId[s] # IdOf[o]
      BY <2>1, <2>2
    <3>2. pc[Opener(o)] = "check" \/ (o \in due[s] /\ IdOf[o] \notin visited[s])
      BY <1>3, <2>1, <2>2, <3>1 DEF MapSwept
    <3> QED BY <1>5, <2>2, <3>2
  <2>3. CASE r # s
    BY <1>4, <1>5, <2>1, <2>3 DEF MapSwept
  <2> QED BY <2>2, <2>3
<1> QED BY <1>6, <1>7, <1>8

\* Range ends: what is still in the map was stored behind its back, and its
\* handleOpen has yet to look.
LEMMA SweepAllDone ==
    ASSUME Shape, Sweep, NEW s \in Sessions, AllDone(s)
    PROVE  Sweep'
<1> USE ConstTypes, ProcNames DEF Sweep
<1>1. /\ pc \in [Procs -> Labels] /\ due \in [Sessions -> SUBSET Opens]
      /\ visited \in [Sessions -> SUBSET Ids]
  BY DEF Shape, Types, LocalTypes
<1>2. /\ pc[Loop(s)] = "ca_range" /\ sclosed[s]
      /\ \A o \in due[s] : streams[s][IdOf[o]] # o \/ IdOf[o] \in visited[s]
      /\ sclosed' = sclosed /\ streams' = streams /\ frameId' = frameId
      /\ due'[s] = {} /\ visited'[s] = {}
      /\ \A r \in Sessions \ {s} : due'[r] = due[r] /\ visited'[r] = visited[r]
      /\ \A p \in Procs \ {Loop(s)} : pc'[p] = pc[p]
  BY <1>1 DEF AllDone, At, Goto, Shape, LoopPhase
<1>3. MapKeys'
  BY <1>2 DEF MapKeys
<1>4. RangeLocals'
  BY <1>2 DEF RangeLocals
<1>5. MapSwept'
  BY <1>2 DEF MapSwept
<1> QED BY <1>3, <1>4, <1>5

\* handleOpen stores its stream, perhaps after closeAll began; it looks at
\* v2Session.closed next, and either closeAll has not begun and will find the
\* stream, or the store is undone.
LEMMA SweepHandleOpen ==
    ASSUME Shape, Sweep, NEW o \in Opens, StoreStream(o) \/ CheckClosed(o) \/ UndoStore(o)
    PROVE  Sweep'
<1> USE ConstTypes, ProcNames DEF Sweep
<1>1. /\ pc \in [Procs -> Labels] /\ streams \in [Sessions -> [Ids -> Opens \cup {None}]]
  BY DEF Shape, Types, LocalTypes, SessionTypes
<1>2. UNCHANGED <<sclosed, due, visited, frameId>>
  BY DEF StoreStream, CheckClosed, UndoStore, lvars, svars
<1>3. \A p \in Procs \ {Opener(o)} : pc'[p] = pc[p]
  BY <1>1 DEF StoreStream, CheckClosed, UndoStore, OpenReturns, Goto
<1>4. RangeLocals'
  BY <1>2, <1>3 DEF RangeLocals
<1>5. CASE StoreStream(o)
  <2>1. /\ pc'[Opener(o)] = "check"
        /\ \A s \in Sessions, i \in Ids : streams'[s][i] =
               IF s = SessOf[o] /\ i = IdOf[o] THEN o ELSE streams[s][i]
    BY <1>1, <1>5 DEF StoreStream, Goto
  <2>2. MapKeys'
    BY <2>1 DEF MapKeys
  <2>3. MapSwept'
    BY <1>2, <1>3, <2>1 DEF MapSwept
  <2> QED BY <1>4, <2>2, <2>3
<1>6. CASE CheckClosed(o)
  <2>1. streams' = streams /\ ~sclosed[SessOf[o]]
    BY <1>6 DEF CheckClosed, svars
  <2>2. MapKeys'
    BY <2>1 DEF MapKeys
  <2>3. MapSwept'
    <3>1. \A s \in Sessions : streams[s][IdOf[o]] = o => s = SessOf[o]
      BY DEF Shape, MapOwner, OpensOf
    <3> QED BY <1>2, <1>3, <2>1, <3>1 DEF MapSwept
  <2> QED BY <1>4, <2>2, <2>3
<1>7. CASE UndoStore(o)
  <2>1. \A s \in Sessions, i \in Ids : streams'[s][i] =
               IF s = SessOf[o] /\ i = IdOf[o] THEN None ELSE streams[s][i]
    BY <1>1, <1>7 DEF UndoStore
  <2>2. MapKeys'
    BY <2>1 DEF MapKeys
  <2>3. MapSwept'
    <3>1. \A s \in Sessions : streams[s][IdOf[o]] = o => s = SessOf[o]
      BY DEF Shape, MapOwner, OpensOf
    <3>2. \A s \in Sessions, u \in Opens :
              streams'[s][IdOf[u]] = u => u # o /\ streams[s][IdOf[u]] = u
      BY <2>1, <3>1
    <3> QED BY <1>2, <1>3, <3>2 DEF MapSwept
  <2> QED BY <1>4, <2>2, <2>3
<1> QED BY <1>5, <1>6, <1>7

\* Every step of every goroutine keeps Sweep.
LEMMA SweepStep ==
    ASSUME Shape, Sweep, [Next]_vars
    PROVE  Sweep'
<1> DEFINE SameRange == UNCHANGED <<sclosed, due, visited>>
           Stores == \A s \in Sessions, i \in Ids : streams'[s][i] \in {streams[s][i], None}
           Looks == \A o \in Opens : pc[Opener(o)] = "check" => pc'[Opener(o)] = "check"
           Loops == \A s \in Sessions : sclosed[s] =>
                        /\ frameId'[s] = frameId[s]
                        /\ \/ pc'[Loop(s)] = pc[Loop(s)]
                           \/ pc[Loop(s)] = "ca_cas" /\ pc'[Loop(s)] = "ca_reclaim"
           Lives == \A s \in Sessions : ~sclosed[s] => pc'[Loop(s)] # "exit"
           Frame == SameRange /\ Stores /\ Looks /\ Loops /\ Lives
<1>0. Frame => Sweep'
  BY SweepFrame
<1>a. /\ pc \in [Procs -> Labels] /\ frameId \in [Sessions -> Ids \cup {None}]
      /\ streams \in [Sessions -> [Ids -> Opens \cup {None}]]
      /\ \A s \in Sessions : pc[Loop(s)] \in LoopLabels
      /\ \A s \in Sessions :
             pc[Loop(s)] \in {"ca_range", "ca_cas", "ca_reclaim", "exit"} <=> sclosed[s]
  BY DEF Shape, Types, LocalTypes, SessionTypes, OwnLabels, LoopPhase
<1> USE <1>a, ConstTypes, ProcNames DEF At, Goto
<1>1. ASSUME NEW s \in Sessions, ConnBreaks(s) \/ ReapConn(s) PROVE Frame
  BY <1>1 DEF ConnBreaks, ReapConn, lvars
<1>2. ASSUME NEW s \in Sessions, ReadFrame(s) PROVE Frame
  <2>1. ASSUME NEW o \in OpensOf(s), ReadOpen(o) \/ RefuseOpen(o) PROVE Frame
    BY <2>1 DEF ReadOpen, RefuseOpen, OpensOf, lvars, svars
  <2>2. ASSUME NEW i \in Ids, NEW n \in ChunkSizes, ReadData(s, i, n) \/ ShedStream(s, i, n)
        PROVE  Frame
    BY <2>2 DEF ReadData, ShedStream, PeerSendsData, Reading, svars
  <2>3. ASSUME NEW i \in Ids, SkipData(s, i) \/ ReadClose(s, i) PROVE Frame
    BY <2>3 DEF SkipData, ReadClose, Reading, svars
  <2> QED BY <1>2, <2>1, <2>2, <2>3, Zenon DEF ReadFrame
<1>3. ASSUME NEW s \in Sessions, Enqueue(s) \/ DropChunk(s) PROVE Frame
  <2>1. target[Loop(s)] \in Opens
    BY <1>3, LoopHolds DEF Enqueue, DropChunk, Holding
  <2>2. CASE Enqueue(s)
    BY <2>1, <2>2 DEF Enqueue, GotoAndWake, LoopForgets
  <2>3. CASE DropChunk(s)
    BY <2>3 DEF DropChunk, LoopForgets, svars
  <2> QED BY <1>3, <2>2, <2>3
<1>4. ASSUME NEW s \in Sessions, CloseAll(s) PROVE Frame \/ Sweep'
  <2>1. CASE AllCas(s)
    BY <2>1 DEF AllCas, svars, lvars
  <2> HIDE DEF Frame
  <2> QED BY <1>4, <2>1, SweepLoopFails, SweepAllVisit, SweepAllVisited, SweepAllDone, Zenon
          DEF CloseAll
<1>5. ASSUME NEW o \in Opens, HandleOpen(o) PROVE Frame \/ Sweep'
  <2>1. CASE DialFails(o) \/ RefuseDuplicate(o)
    BY <2>1 DEF DialFails, RefuseDuplicate, OpenReturns, lvars
  <2>2. CASE SendOpenOk(o) \/ OpenOkFails(o)
    BY <2>2 DEF SendOpenOk, OpenOkFails, svars, lvars
  <2> HIDE DEF Frame
  <2> QED BY <1>5, <2>1, <2>2, SweepHandleOpen, Zenon DEF HandleOpen
<1>6. ASSUME NEW o \in Opens, ReadUpstream(o) PROVE Frame
  BY <1>6 DEF ReadUpstream, ReaderReads, ReaderEnds, ReaderForwards, ReaderCannotForward,
              ReaderGetsError, svars, lvars
<1>7. ASSUME NEW o \in Opens, PumpUpstream(o) PROVE Frame
  <2>1. UNCHANGED <<sclosed, streams, due, visited, frameId>>
    BY <1>7 DEF PumpUpstream, PumpWaits, PumpEnds, PumpTakes, PumpDelivers, PumpCannotCredit,
                PumpFails, svars, lvars
  <2>2. \A p \in Procs \ {Pump(o)} : pc'[p] = pc[p]
    BY <1>7 DEF PumpUpstream, PumpWaits, PumpEnds, PumpTakes, PumpDelivers, PumpCannotCredit,
                PumpFails
  <2> QED BY <2>1, <2>2
<1>8. ASSUME NEW p \in Procs, CloseStream(p) PROVE Frame
  <2>1. pc[p] \in {"cs_load", "cs_cas", "cs_reclaim"} /\ SessionOf(p) \in Sessions
    BY <1>8, CloserHolds DEF CloseStream, CloseLoad, CloseMisses, CloseCas, CloseLoses,
                             CloseReclaim
  <2>2. SameRange
    BY <1>8 DEF CloseStream, CloseLoad, CloseMisses, CloseCas, CloseLoses, CloseReclaim,
                svars, lvars
  <2>3. \A s \in Sessions : sclosed[s] => Loop(s) # p /\ pc[Loop(s)] # "parked"
    BY <2>1
  <2>4. CASE CloseLoad(p) \/ CloseCas(p)
    <3>1. Stores
      <4>1. CASE CloseLoad(p)
        BY <2>1, <4>1, CloserHolds DEF CloseLoad
      <4>2. CASE CloseCas(p)
        BY <4>2 DEF CloseCas, svars
      <4> QED BY <2>4, <4>1, <4>2
    <3>2. Looks /\ Loops /\ Lives
      BY <2>1, <2>3, <2>4 DEF CloseLoad, CloseCas, lvars
    <3> QED BY <2>2, <3>1, <3>2
  <2>5. CASE CloseMisses(p) \/ CloseLoses(p) \/ CloseReclaim(p)
    <3>1. streams' = streams /\ CloseReturns(p)
      BY <2>5, Zenon DEF CloseMisses, CloseLoses, CloseReclaim
    <3>2. /\ pc'[p] \in {"read", "exit"}
          /\ \A q \in Procs \ {p} : pc'[q] = pc[q] \/ (pc[q] = "parked" /\ pc'[q] = "take")
      BY <2>5, CloserMoves, Zenon
    <3>3. \A s \in Sessions : p = Loop(s) => pc'[p] = "read"
      BY <2>5, ProcKinds DEF CloseMisses, CloseLoses, CloseReclaim, AfterClose, GotoAndWake
    <3> QED BY <2>1, <2>2, <2>3, <3>1, <3>2, <3>3 DEF CloseReturns, LoopLabels, CloseLabels
  <2> QED BY <1>8, <2>4, <2>5, Zenon DEF CloseStream
<1>9. CASE Finished \/ UNCHANGED vars
  <2>1. UNCHANGED <<sclosed, streams, due, visited, frameId, pc>>
    BY <1>9 DEF Finished, vars, svars, lvars
  <2>2. Frame
    BY <2>1
  <2> QED BY <1>0, <2>2
<1> HIDE DEF Frame
<1> QED
  BY <1>0, <1>1, <1>2, <1>3, <1>4, <1>5, <1>6, <1>7, <1>8, <1>9, Zenon DEF Next

\* The invariants of teardown that hold whatever ids the peer chooses.
LEMMA SweepHolds == Spec => [](Sweep /\ OwnedUpstream)
<1>1. Init => Sweep /\ OwnedUpstream
  <2> SUFFICES ASSUME Init PROVE Sweep /\ OwnedUpstream
    OBVIOUS
  <2>1. OwnedUpstream
    BY DEF Init, OwnedUpstream
  <2>2. MapKeys /\ MapSwept /\ RangeLocals
    BY ConstTypes DEF Init, MapKeys, MapSwept, RangeLocals
  <2> QED BY <2>1, <2>2 DEF Sweep
<1>2. Shape /\ Sweep /\ OwnedUpstream /\ [Next]_vars => (Sweep /\ OwnedUpstream)'
  BY SweepStep, OwnedStep
<1> QED BY <1>1, <1>2, ShapeHolds, PTL DEF Spec

\* When a session and its goroutines have ended, nothing of it is left in the
\* map and no upstream connection of it is open, whatever ids the peer chose and
\* however closeAll, closeStream and handleOpen raced.
THEOREM NoOrphanHolds == Spec => []NoOrphan
<1>1. ASSUME Shape, Sweep, OwnedUpstream PROVE NoOrphan
  <2> SUFFICES ASSUME NEW s \in Sessions, SessionOver(s)
               PROVE  InMap(s) = {} /\ \A o \in OpensOf(s) : upstream[o] # "open"
    BY DEF NoOrphan
  <2>1. /\ pc[Loop(s)] = "exit"
        /\ \A o \in OpensOf(s) : ~Running(Opener(o)) /\ ~Running(Reader(o))
    BY DEF SessionOver, At, Opener, Reader
  <2>2. ASSUME NEW o \in OpensOf(s) PROVE upstream[o] # "open"
    BY <1>1, <2>1 DEF OwnedUpstream, OpensOf
  <2>3. ASSUME NEW o \in Opens, NEW i \in Ids, streams[s][i] = o PROVE FALSE
    <3>1. o \in OpensOf(s) /\ IdOf[o] = i
      BY <1>1, <2>3, ConstTypes DEF Shape, MapOwner, Sweep, MapKeys
    <3>2. sclosed[s] /\ due[s] = {}
      BY <1>1, <2>1 DEF Shape, LoopPhase, Sweep, RangeLocals
    <3>3. pc[Opener(o)] = "check"
      BY <1>1, <2>3, <3>1, <3>2 DEF Sweep, MapSwept
    <3> QED BY <2>1, <3>1, <3>3 DEF Running
  <2> QED BY <2>2, <2>3 DEF InMap
<1> QED BY <1>1, ShapeHolds, SweepHolds, PTL

-----------------------------------------------------------------------------
(* What the steps do to the histories, and who moves a goroutine that is busy *)
(* with a stream.                                                             *)

\* Nothing that was closed or said is taken back, a connection that went down
\* stays down, and OPEN_OK is said by SendOpenOk only.
LEMMA Grows ==
    ASSUME Shape, [Next]_vars
    PROVE  /\ \A o \in Opens : /\ told[o] \subseteq told'[o]
                               /\ peerClosed[o] => peerClosed'[o]
                               /\ "OPEN_OK" \in told'[o] => "OPEN_OK" \in told[o] \/ SendOpenOk(o)
           /\ \A s \in Sessions : /\ conn'[s] = "up" => conn[s] = "up"
                                  /\ sclosed[s] => sclosed'[s]
<1> DEFINE Said(o) == /\ told[o] \subseteq told'[o]
                      /\ peerClosed[o] => peerClosed'[o]
                      /\ "OPEN_OK" \in told'[o] => "OPEN_OK" \in told[o] \/ SendOpenOk(o)
           Hist == \A o \in Opens : Said(o)
           Conn == \A s \in Sessions : /\ conn'[s] = "up" => conn[s] = "up"
                                       /\ sclosed[s] => sclosed'[s]
<1>a. /\ told \in [Opens -> SUBSET {"OPEN_OK", "OPEN_ERR", "CLOSE"}]
      /\ conn \in [Sessions -> {"up", "broken", "closed"}]
      /\ sclosed \in [Sessions -> BOOLEAN] /\ peerClosed \in [Opens -> BOOLEAN]
  BY DEF Shape, Types, HistoryTypes, SessionTypes
<1> USE <1>a, ConstTypes
<1>0. UNCHANGED <<told, peerClosed>> => Hist
  OBVIOUS
<1>n. ASSUME NEW o \in Opens, NEW f \in {"OPEN_ERR", "CLOSE"}, Notify(o, f) \/ WriteFails(o),
             UNCHANGED peerClosed
      PROVE  Hist
  BY <1>n DEF Notify, Written, WriteFails, Kept
<1>1. ASSUME NEW s \in Sessions, ConnBreaks(s) \/ ReapConn(s) PROVE Hist /\ Conn
  BY <1>0, <1>1 DEF ConnBreaks, ReapConn, hvars
<1>2. ASSUME NEW s \in Sessions, ReadFrame(s) PROVE Hist /\ Conn
  <2>1. ASSUME NEW o \in OpensOf(s), ReadOpen(o) PROVE Hist /\ Conn
    BY <2>1, <1>0 DEF ReadOpen, hvars
  <2>2. ASSUME NEW o \in OpensOf(s), RefuseOpen(o) PROVE Hist /\ Conn
    BY <2>2, <1>n DEF RefuseOpen, svars, OpensOf
  <2>3. ASSUME NEW i \in Ids, NEW n \in ChunkSizes, ReadData(s, i, n) PROVE Hist /\ Conn
    BY <2>3, <1>0 DEF ReadData, svars, hvars
  <2>4. ASSUME NEW i \in Ids, NEW n \in ChunkSizes, ShedStream(s, i, n) PROVE Hist /\ Conn
    <3>1. streams[s][i] \in Opens
      BY <2>4 DEF ShedStream, Shape, MapOwner, OpensOf
    <3> QED BY <2>4, <3>1, <1>n DEF ShedStream, svars
  <2>5. ASSUME NEW i \in Ids, SkipData(s, i) PROVE Hist /\ Conn
    BY <2>5, <1>0 DEF SkipData, svars, hvars
  <2>6. ASSUME NEW i \in Ids, ReadClose(s, i) PROVE Hist /\ Conn
    <3>1. told' = told /\ conn' = conn /\ sclosed' = sclosed
      BY <2>6 DEF ReadClose, svars
    <3>2. \A o \in Opens : peerClosed[o] => peerClosed'[o]
      BY <2>6 DEF ReadClose
    <3> QED BY <3>1, <3>2, Zenon
  <2> HIDE DEF Hist, Conn
  <2> QED BY <1>2, <2>1, <2>2, <2>3, <2>4, <2>5, <2>6, Zenon DEF ReadFrame
<1>3. ASSUME NEW s \in Sessions, Enqueue(s) \/ DropChunk(s) PROVE Hist /\ Conn
  BY <1>3, <1>0 DEF Enqueue, DropChunk, svars, hvars
<1>4. ASSUME NEW s \in Sessions, CloseAll(s) PROVE Hist /\ Conn
  <2>1. UNCHANGED <<told, peerClosed>>
    BY <1>4 DEF CloseAll, LoopFails, AllCas, AllLoses, AllReclaim, AllDone, AllVisit, hvars
  <2>2. Conn
    BY <1>4 DEF CloseAll, LoopFails, AllCas, AllLoses, AllReclaim, AllDone, AllVisit, svars
  <2> QED BY <1>0, <2>1, <2>2
<1>5. ASSUME NEW o \in Opens, HandleOpen(o) PROVE Hist /\ Conn
  <2>1. conn' = conn /\ sclosed' = sclosed
    BY <1>5 DEF HandleOpen, DialFails, StoreStream, RefuseDuplicate, CheckClosed, UndoStore,
                SendOpenOk, OpenOkFails, svars
  <2>2. CASE DialFails(o) \/ OpenOkFails(o)
    BY <2>1, <2>2, <1>n DEF DialFails, OpenOkFails
  <2>3. CASE StoreStream(o) \/ RefuseDuplicate(o) \/ CheckClosed(o) \/ UndoStore(o)
    BY <2>1, <2>3, <1>0 DEF StoreStream, RefuseDuplicate, CheckClosed, UndoStore, hvars
  <2>4. CASE SendOpenOk(o)
    <3>1. told' = [told EXCEPT ![o] = @ \cup {"OPEN_OK"}] /\ UNCHANGED peerClosed
      BY <2>4 DEF SendOpenOk, Written, Kept
    <3> QED BY <2>1, <2>4, <3>1
  <2> QED BY <1>5, <2>2, <2>3, <2>4 DEF HandleOpen
<1>6. ASSUME NEW o \in Opens, ReadUpstream(o) PROVE Hist /\ Conn
  BY <1>6, <1>0, <1>n DEF ReadUpstream, ReaderReads, ReaderEnds, ReaderForwards,
                          ReaderCannotForward, ReaderGetsError, svars, hvars
<1>7. ASSUME NEW o \in Opens, PumpUpstream(o) PROVE Hist /\ Conn
  BY <1>7, <1>0, <1>n DEF PumpUpstream, PumpWaits, PumpEnds, PumpTakes, PumpDelivers,
                          PumpCannotCredit, PumpFails, svars, hvars
<1>8. ASSUME NEW p \in Procs, CloseStream(p) PROVE Hist /\ Conn
  BY <1>8, <1>0 DEF CloseStream, CloseLoad, CloseMisses, CloseCas, CloseLoses, CloseReclaim,
                    svars, hvars
<1>9. ASSUME Finished \/ UNCHANGED vars PROVE Hist /\ Conn
  BY <1>9, <1>0 DEF Finished, vars, svars, hvars
<1> HIDE DEF Hist, Conn
<1>10. Hist /\ Conn
  BY <1>1, <1>2, <1>3, <1>4, <1>5, <1>6, <1>7, <1>8, <1>9, Zenon DEF Next
<1> QED BY <1>10, Zenon DEF Hist, Conn

\* The control points at which a goroutine is busy with a stream.
Busy == Holding \cup {"cs_load"}

\* A goroutine stays at its control point, with the stream it holds and the id
\* it was called with.
Stays(p) ==
    /\ pc'[p] = pc[p] /\ target'[p] = target[p]
    /\ p[1] = "loop" => frameId'[p[2]] = frameId[p[2]]

\* The steps by which a goroutine enters closeStream.
EntersClose(p) ==
    \E o \in Opens :
        \/ p = Opener(o) /\ OpenOkFails(o)
        \/ p = Reader(o) /\ (ReaderCannotForward(o) \/ ReaderGetsError(o))
        \/ p = Pump(o) /\ (PumpCannotCredit(o) \/ PumpFails(o))

\* The steps of a read loop with a frame at hand, or in closeAll.
LoopWorks(s) ==
    \/ \E i \in Ids, n \in ChunkSizes : ReadData(s, i, n) \/ ShedStream(s, i, n)
    \/ \E i \in Ids : ReadClose(s, i)
    \/ Enqueue(s) \/ DropChunk(s) \/ CloseAll(s)

\* A goroutine that is busy with a stream, before the step or after it, stays
\* or takes the step itself: no other goroutine moves it.
LEMMA Movers ==
    ASSUME Shape, StartOrder, [Next]_vars, NEW p \in Procs,
           pc[p] \in Busy \/ pc'[p] \in Busy
    PROVE  \/ Stays(p)
           \/ CloseStream(p)
           \/ EntersClose(p)
           \/ \E s \in Sessions : p = Loop(s) /\ LoopWorks(s)
<1> DEFINE Own == \/ CloseStream(p)
                  \/ EntersClose(p)
                  \/ \E s \in Sessions : p = Loop(s) /\ LoopWorks(s)
<1>a. /\ pc \in [Procs -> Labels] /\ frameId \in [Sessions -> Ids \cup {None}]
      /\ target \in [Procs -> Opens \cup {None}]
  BY DEF Shape, Types, LocalTypes
<1>b. p[1] = "loop" => p[2] \in Sessions /\ p = Loop(p[2])
  BY ProcKinds
<1> USE <1>a, ConstTypes, ProcNames DEF At, Goto, Busy, Holding
<1>1. ASSUME NEW s \in Sessions, ConnBreaks(s) \/ ReapConn(s) PROVE Stays(p)
  BY <1>1 DEF ConnBreaks, ReapConn, lvars, Stays
<1>2. ASSUME NEW s \in Sessions, ReadFrame(s) PROVE Stays(p) \/ Own
  <2>1. ASSUME NEW o \in OpensOf(s), ReadOpen(o) \/ RefuseOpen(o) PROVE Stays(p)
    BY <2>1 DEF ReadOpen, RefuseOpen, OpensOf, lvars, Stays
  <2>2. ASSUME NEW i \in Ids, SkipData(s, i) PROVE Stays(p)
    BY <2>2 DEF SkipData, Stays
  <2>3. CASE p = Loop(s)
    BY <1>2, <2>1, <2>2, <2>3, Zenon DEF ReadFrame, LoopWorks
  <2>4. ASSUME p # Loop(s), NEW i \in Ids, NEW n \in ChunkSizes,
               ReadData(s, i, n) \/ ShedStream(s, i, n)
        PROVE  Stays(p)
    BY <2>4, <1>b DEF ReadData, ShedStream, Stays
  <2>5. ASSUME p # Loop(s), NEW i \in Ids, ReadClose(s, i) PROVE Stays(p)
    BY <2>5, <1>b DEF ReadClose, Stays
  <2> HIDE DEF Own
  <2> QED BY <1>2, <2>1, <2>2, <2>3, <2>4, <2>5, Zenon DEF ReadFrame
<1>3. ASSUME NEW s \in Sessions, Enqueue(s) \/ DropChunk(s) \/ CloseAll(s)
      PROVE  Stays(p) \/ Own
  <2>1. CASE p = Loop(s)
    BY <1>3, <2>1, Zenon DEF LoopWorks
  <2>2. ASSUME p # Loop(s), Enqueue(s) \/ DropChunk(s) PROVE Stays(p)
    BY <2>2, <1>b DEF Enqueue, DropChunk, GotoAndWake, LoopForgets, Stays
  <2>3. ASSUME p # Loop(s), LoopFails(s) \/ AllCas(s) \/ AllDone(s) PROVE Stays(p)
    BY <2>3 DEF LoopFails, AllCas, AllDone, lvars, Stays
  <2>4. ASSUME p # Loop(s), AllLoses(s) \/ AllReclaim(s) PROVE Stays(p)
    BY <2>4, <1>b DEF AllLoses, AllReclaim, AllVisited, LoopForgets, GotoAndWake, Stays
  <2>5. ASSUME p # Loop(s), NEW i \in Ids, AllVisit(s, i) PROVE Stays(p)
    BY <2>5, <1>b DEF AllVisit, Stays
  <2> HIDE DEF Own
  <2> QED BY <1>3, <2>1, <2>2, <2>3, <2>4, <2>5, Zenon DEF CloseAll
<1>4. ASSUME NEW o \in Opens, HandleOpen(o) PROVE Stays(p) \/ Own
  <2>1. CASE DialFails(o) \/ StoreStream(o) \/ RefuseDuplicate(o) \/ CheckClosed(o) \/ UndoStore(o)
    BY <2>1 DEF DialFails, StoreStream, RefuseDuplicate, CheckClosed, UndoStore, OpenReturns,
                lvars, Stays
  <2>2. CASE SendOpenOk(o)
    BY <2>2 DEF SendOpenOk, lvars, Stays, StartOrder
  <2>3. CASE OpenOkFails(o) /\ p # Opener(o)
    BY <2>3 DEF OpenOkFails, lvars, Stays
  <2>4. CASE OpenOkFails(o) /\ p = Opener(o)
    BY <2>4, Zenon DEF EntersClose
  <2> QED BY <1>4, <2>1, <2>2, <2>3, <2>4 DEF HandleOpen
<1>5. ASSUME NEW o \in Opens, ReadUpstream(o) PROVE Stays(p) \/ Own
  <2>1. CASE p = Reader(o) /\ (ReaderCannotForward(o) \/ ReaderGetsError(o))
    BY <2>1, Zenon DEF EntersClose
  <2>2. CASE ~(p = Reader(o) /\ (ReaderCannotForward(o) \/ ReaderGetsError(o)))
    BY <1>5, <2>2 DEF ReadUpstream, ReaderReads, ReaderEnds, ReaderForwards,
                      ReaderCannotForward, ReaderGetsError, lvars, Stays
  <2> QED BY <2>1, <2>2
<1>6. ASSUME NEW o \in Opens, PumpUpstream(o) PROVE Stays(p) \/ Own
  <2>1. CASE p = Pump(o) /\ (PumpCannotCredit(o) \/ PumpFails(o))
    BY <2>1, Zenon DEF EntersClose
  <2>2. CASE ~(p = Pump(o) /\ (PumpCannotCredit(o) \/ PumpFails(o)))
    BY <1>6, <2>2 DEF PumpUpstream, PumpWaits, PumpEnds, PumpTakes, PumpDelivers,
                      PumpCannotCredit, PumpFails, lvars, Stays
  <2> QED BY <2>1, <2>2
<1>7. ASSUME NEW q \in Procs, CloseStream(q) PROVE Stays(p) \/ Own
  <2>1. CASE q = p
    BY <1>7, <2>1
  <2>2. ASSUME q # p, CloseLoad(q) \/ CloseCas(q) PROVE Stays(p)
    BY <2>2 DEF CloseLoad, CloseCas, lvars, Stays
  <2>3. ASSUME q # p, CloseMisses(q) \/ CloseLoses(q) \/ CloseReclaim(q) PROVE Stays(p)
    <3>1. CloseReturns(q)
      BY <2>3, Zenon DEF CloseMisses, CloseLoses, CloseReclaim
    <3>2. pc'[p] = pc[p] \/ (pc[p] = "parked" /\ pc'[p] = "take")
      BY <2>3, CloserMoves
    <3> QED BY <2>3, <3>1, <3>2, <1>b DEF CloseReturns, Stays
  <2> HIDE DEF Own
  <2> QED BY <1>7, <2>1, <2>2, <2>3, Zenon DEF CloseStream
<1>8. ASSUME Finished \/ UNCHANGED vars PROVE Stays(p)
  BY <1>8 DEF Finished, vars, lvars, Stays
<1> HIDE DEF Own
<1>9. Stays(p) \/ Own
  BY <1>1, <1>2, <1>3, <1>4, <1>5, <1>6, <1>7, <1>8, Zenon DEF Next
<1> QED BY <1>9, Zenon DEF Own

\* v2Stream.closed is never reset, and set by the two CompareAndSwaps only.
LEMMA ClosedGrows ==
    ASSUME Shape, [Next]_vars, NEW o \in Opens
    PROVE  /\ closed[o] => closed'[o]
           /\ closed'[o] => \/ closed[o]
                            \/ \E p \in Procs : CloseCas(p) /\ target[p] = o
                            \/ \E s \in Sessions : AllCas(s) /\ target[Loop(s)] = o
<1>a. closed \in [Opens -> BOOLEAN]
  BY DEF Shape, Types, StreamTypes
<1>1. ASSUME NEW s \in Sessions, AllCas(s)
      PROVE  (closed[o] => closed'[o]) /\ (closed'[o] => closed[o] \/ target[Loop(s)] = o)
  BY <1>a, <1>1 DEF AllCas
<1>2. ASSUME NEW p \in Procs, CloseCas(p)
      PROVE  (closed[o] => closed'[o]) /\ (closed'[o] => closed[o] \/ target[p] = o)
  BY <1>a, <1>2 DEF CloseCas
<1>3. ASSUME NEW s \in Sessions, ConnBreaks(s) \/ ReapConn(s) \/ ReadFrame(s) PROVE closed' = closed
  BY <1>3 DEF ConnBreaks, ReapConn, ReadFrame, ReadOpen, RefuseOpen, ReadData, ShedStream,
              SkipData, ReadClose, ovars
<1>4. ASSUME NEW s \in Sessions, Enqueue(s) \/ DropChunk(s) \/ CloseAll(s)
      PROVE  closed' = closed \/ AllCas(s)
  BY <1>4 DEF Enqueue, DropChunk, CloseAll, LoopFails, AllLoses, AllReclaim, AllDone, AllVisit,
              ovars
<1>5. ASSUME NEW u \in Opens, HandleOpen(u) \/ ReadUpstream(u) PROVE closed' = closed
  BY <1>5 DEF HandleOpen, DialFails, StoreStream, RefuseDuplicate, CheckClosed, UndoStore,
              SendOpenOk, OpenOkFails, ReadUpstream, ReaderReads, ReaderEnds, ReaderForwards,
              ReaderCannotForward, ReaderGetsError, ovars
<1>6. ASSUME NEW u \in Opens, PumpUpstream(u) PROVE closed' = closed
  BY <1>6 DEF PumpUpstream, PumpWaits, PumpEnds, PumpTakes, PumpDelivers, PumpCannotCredit,
              PumpFails, ovars
<1>7. ASSUME NEW p \in Procs, CloseStream(p) PROVE closed' = closed \/ CloseCas(p)
  BY <1>7 DEF CloseStream, CloseLoad, CloseMisses, CloseLoses, CloseReclaim, ovars
<1>8. ASSUME Finished \/ UNCHANGED vars PROVE closed' = closed
  BY <1>8 DEF Finished, vars, ovars
<1>9. \/ closed' = closed
      \/ \E s \in Sessions : AllCas(s)
      \/ \E p \in Procs : CloseCas(p)
  BY <1>3, <1>4, <1>5, <1>6, <1>7, <1>8, Zenon DEF Next
<1> QED BY <1>1, <1>2, <1>9, Zenon

\* Only handleOpen moves handleOpen, and it comes to its look at
\* v2Session.closed by storing its stream.
LEMMA Checkers ==
    ASSUME Shape, [Next]_vars, NEW o \in Opens, pc'[Opener(o)] \in {"check", "openok"}
    PROVE  pc[Opener(o)] \in {"check", "openok"} \/ StoreStream(o)
<1> DEFINE Still == pc[Opener(o)] \in {"check", "openok"}
<1>a. pc \in [Procs -> Labels]
  BY DEF Shape, Types, LocalTypes
<1> USE <1>a, ConstTypes, ProcNames DEF At, Goto
<1>1. ASSUME NEW s \in Sessions, ConnBreaks(s) \/ ReapConn(s) PROVE Still
  BY <1>1 DEF ConnBreaks, ReapConn
<1>2. ASSUME NEW s \in Sessions, ReadFrame(s) PROVE Still
  <2>1. ASSUME NEW u \in OpensOf(s), ReadOpen(u) \/ RefuseOpen(u) PROVE Still
    BY <2>1 DEF ReadOpen, RefuseOpen, OpensOf
  <2>2. ASSUME NEW i \in Ids, NEW n \in ChunkSizes, ReadData(s, i, n) \/ ShedStream(s, i, n)
        PROVE  Still
    BY <2>2 DEF ReadData, ShedStream
  <2>3. ASSUME NEW i \in Ids, SkipData(s, i) \/ ReadClose(s, i) PROVE Still
    BY <2>3 DEF SkipData, ReadClose
  <2> QED BY <1>2, <2>1, <2>2, <2>3, Zenon DEF ReadFrame
<1>3. ASSUME NEW s \in Sessions, Enqueue(s) \/ DropChunk(s) PROVE Still
  BY <1>3 DEF Enqueue, DropChunk, GotoAndWake
<1>4. ASSUME NEW s \in Sessions, CloseAll(s) PROVE Still
  <2>1. CASE LoopFails(s) \/ AllCas(s) \/ AllLoses(s) \/ AllDone(s)
    BY <2>1 DEF LoopFails, AllCas, AllLoses, AllDone
  <2>2. CASE AllReclaim(s)
    BY <2>2 DEF AllReclaim, GotoAndWake
  <2>3. ASSUME NEW i \in Ids, AllVisit(s, i) PROVE Still
    BY <2>3 DEF AllVisit
  <2> QED BY <1>4, <2>1, <2>2, <2>3, Zenon DEF CloseAll
<1>5. ASSUME NEW u \in Opens, HandleOpen(u) PROVE Still \/ StoreStream(o)
  <2>1. CASE StoreStream(u)
    BY <2>1 DEF StoreStream
  <2>2. CASE ~StoreStream(u)
    BY <1>5, <2>2 DEF HandleOpen, DialFails, RefuseDuplicate, CheckClosed, UndoStore,
                      SendOpenOk, OpenOkFails, OpenReturns
  <2> QED BY <2>1, <2>2
<1>6. ASSUME NEW u \in Opens, ReadUpstream(u) PROVE Still
  BY <1>6 DEF ReadUpstream, ReaderReads, ReaderEnds, ReaderForwards, ReaderCannotForward,
              ReaderGetsError
<1>7. ASSUME NEW u \in Opens, PumpUpstream(u) PROVE Still
  BY <1>7 DEF PumpUpstream, PumpWaits, PumpEnds, PumpTakes, PumpDelivers, PumpCannotCredit,
              PumpFails
<1>8. ASSUME NEW p \in Procs, CloseStream(p) PROVE Still
  <2>1. CASE CloseLoad(p) \/ CloseCas(p)
    BY <2>1 DEF CloseLoad, CloseCas
  <2>2. CASE CloseMisses(p) \/ CloseLoses(p) \/ CloseReclaim(p)
    BY <2>2, CloserMoves
  <2> QED BY <1>8, <2>1, <2>2 DEF CloseStream
<1>9. ASSUME Finished \/ UNCHANGED vars PROVE Still
  BY <1>9 DEF Finished, vars
<1> HIDE DEF Still
<1>10. Still \/ StoreStream(o)
  BY <1>1, <1>2, <1>3, <1>4, <1>5, <1>6, <1>7, <1>8, <1>9, Zenon DEF Next
<1> QED BY <1>10 DEF Still

\* Who writes to an entry of the map.
LEMMA MapChanges ==
    ASSUME Shape, [Next]_vars, NEW s \in Sessions, NEW i \in Ids,
           streams'[s][i] # streams[s][i]
    PROVE  \/ \E p \in Procs : CloseLoad(p) /\ SessionOf(p) = s /\ StreamId(p) = i
           \/ frameId[s] = i /\ (AllLoses(s) \/ AllReclaim(s))
           \/ \E o \in OpensOf(s) : IdOf[o] = i /\ (StoreStream(o) \/ UndoStore(o))
<1>a. streams \in [Sessions -> [Ids -> Opens \cup {None}]]
  BY DEF Shape, Types, SessionTypes
<1>1. \/ streams' = streams
      \/ \E p \in Procs : CloseLoad(p)
      \/ \E r \in Sessions : AllLoses(r) \/ AllReclaim(r)
      \/ \E o \in Opens : StoreStream(o) \/ UndoStore(o)
  <2>1. ASSUME NEW r \in Sessions, ConnBreaks(r) \/ ReapConn(r) \/ ReadFrame(r)
        PROVE  streams' = streams
    BY <2>1 DEF ConnBreaks, ReapConn, ReadFrame, ReadOpen, RefuseOpen, ReadData, ShedStream,
                SkipData, ReadClose, svars
  <2>2. ASSUME NEW r \in Sessions, Enqueue(r) \/ DropChunk(r) \/ CloseAll(r)
        PROVE  streams' = streams \/ AllLoses(r) \/ AllReclaim(r)
    BY <2>2 DEF Enqueue, DropChunk, CloseAll, LoopFails, AllCas, AllDone, AllVisit, svars
  <2>3. ASSUME NEW o \in Opens, HandleOpen(o)
        PROVE  streams' = streams \/ StoreStream(o) \/ UndoStore(o)
    BY <2>3 DEF HandleOpen, DialFails, RefuseDuplicate, CheckClosed, SendOpenOk, OpenOkFails,
                svars
  <2>4. ASSUME NEW o \in Opens, ReadUpstream(o) \/ PumpUpstream(o) PROVE streams' = streams
    BY <2>4 DEF ReadUpstream, ReaderReads, ReaderEnds, ReaderForwards, ReaderCannotForward,
                ReaderGetsError, PumpUpstream, PumpWaits, PumpEnds, PumpTakes, PumpDelivers,
                PumpCannotCredit, PumpFails, svars
  <2>5. ASSUME NEW p \in Procs, CloseStream(p) PROVE streams' = streams \/ CloseLoad(p)
    BY <2>5 DEF CloseStream, CloseMisses, CloseCas, CloseLoses, CloseReclaim, svars
  <2>6. ASSUME Finished \/ UNCHANGED vars PROVE streams' = streams
    BY <2>6 DEF Finished, vars, svars
  <2> QED BY <2>1, <2>2, <2>3, <2>4, <2>5, <2>6, Zenon DEF Next
<1>2. ASSUME NEW p \in Procs, CloseLoad(p) PROVE SessionOf(p) = s /\ StreamId(p) = i
  BY <1>a, <1>2, CloserHolds DEF CloseLoad, At
<1>3. ASSUME NEW r \in Sessions, AllLoses(r) \/ AllReclaim(r) PROVE r = s /\ frameId[r] = i
  <2>1. AllVisited(r)
    BY <1>3, Zenon DEF AllLoses, AllReclaim
  <2> QED BY <1>a, <2>1 DEF AllVisited
<1>4. ASSUME NEW o \in Opens, StoreStream(o) \/ UndoStore(o)
      PROVE  o \in OpensOf(s) /\ IdOf[o] = i
  BY <1>a, <1>4, ConstTypes DEF StoreStream, UndoStore, OpensOf
<1> QED BY <1>1, <1>2, <1>3, <1>4, Zenon

-----------------------------------------------------------------------------
(* Nothing of the process-wide budget outlives a session whose peer uses an   *)
(* id once and waits for OPEN_OK.                                             *)

\* closeAll holds the stream whose key it is about to delete.
LEMMA VisitKeysStep ==
    ASSUME Shape, StartOrder, Sweep, VisitKeys, [Next]_vars
    PROVE  VisitKeys'
<1> SUFFICES ASSUME NEW s \in Sessions, pc'[Loop(s)] \in {"ca_cas", "ca_reclaim"}
             PROVE  /\ IdOf[target'[Loop(s)]] = frameId'[s]
                    /\ pc'[Loop(s)] = "ca_reclaim" => closed'[target'[Loop(s)]]
  BY DEF VisitKeys
<1>a. /\ pc \in [Procs -> Labels] /\ frameId \in [Sessions -> Ids \cup {None}]
      /\ target \in [Procs -> Opens \cup {None}] /\ closed \in [Opens -> BOOLEAN]
  BY DEF Shape, Types, LocalTypes, StreamTypes
<1>b. /\ Loop(s) \in Procs /\ Loop(s)[1] = "loop" /\ Loop(s)[2] = s
      /\ \A r \in Sessions : Loop(s) = Loop(r) => r = s
      /\ \A o \in Opens : Loop(s) # Opener(o) /\ Loop(s) # Reader(o) /\ Loop(s) # Pump(o)
  BY ProcKinds, ProcNames
<1>1. CASE Stays(Loop(s))
  <2>1. /\ pc'[Loop(s)] = pc[Loop(s)] /\ target'[Loop(s)] = target[Loop(s)]
        /\ frameId'[s] = frameId[s]
    BY <1>1, <1>b DEF Stays
  <2>2. target[Loop(s)] \in Opens
    BY <2>1, LoopHolds DEF Holding
  <2> QED BY <2>1, <2>2, ClosedGrows DEF VisitKeys
<1>2. CASE CloseStream(Loop(s))
  <2>1. pc'[Loop(s)] \in {"cs_cas", "cs_reclaim", "read"}
    BY <1>2, <1>a, <1>b DEF CloseStream, CloseLoad, CloseMisses, CloseCas, CloseLoses,
                            CloseReclaim, AfterClose, Goto, GotoAndWake
  <2> QED BY <2>1
<1>3. CASE LoopWorks(s)
  <2>1. ASSUME NEW i \in Ids, AllVisit(s, i)
        PROVE  IdOf[target'[Loop(s)]] = frameId'[s] /\ pc'[Loop(s)] = "ca_cas"
    <3>1. IdOf[streams[s][i]] = i
      BY <2>1 DEF AllVisit, Shape, MapOwner, OpensOf, Sweep, MapKeys
    <3> QED BY <2>1, <3>1, <1>a, <1>b DEF AllVisit, Goto
  <2>2. CASE AllCas(s)
    <3>1. target[Loop(s)] \in Opens /\ pc[Loop(s)] = "ca_cas"
      BY <2>2, LoopHolds DEF AllCas, At, Holding
    <3> QED BY <2>2, <3>1, <1>a DEF AllCas, lvars, VisitKeys
  <2>3. ASSUME \/ \E i \in Ids, n \in ChunkSizes : ReadData(s, i, n) \/ ShedStream(s, i, n)
               \/ \E i \in Ids : ReadClose(s, i)
               \/ Enqueue(s) \/ DropChunk(s) \/ LoopFails(s) \/ AllLoses(s) \/ AllDone(s)
               \/ AllReclaim(s)
        PROVE  FALSE
    <3>1. pc'[Loop(s)] \in {"enqueue", "cs_load", "read", "ca_range", "exit"}
      BY <2>3, <1>a, <1>b DEF ReadData, ShedStream, ReadClose, Enqueue, DropChunk, LoopFails,
            AllLoses, AllDone, AllReclaim, Goto, GotoAndWake
    <3> QED BY <3>1
  <2> QED BY <1>3, <2>1, <2>2, <2>3 DEF LoopWorks, CloseAll
<1>4. ~EntersClose(Loop(s))
  BY <1>b DEF EntersClose
<1> QED BY <1>1, <1>2, <1>3, <1>4, <1>b, Movers DEF Busy, Holding

\* OPEN_OK is the last thing handleOpen does.
LEMMA ConfirmedLastStep ==
    ASSUME Shape, ConfirmedLast, [Next]_vars
    PROVE  ConfirmedLast'
<1> SUFFICES ASSUME NEW o \in Opens, "OPEN_OK" \in told'[o]
             PROVE  pc'[Opener(o)] = "exit"
  BY DEF ConfirmedLast
<1>1. ASSUME NEW u \in Opens, SendOpenOk(u) PROVE pc'[Opener(u)] = "exit"
  BY <1>1, ProcNames DEF SendOpenOk, Shape, Types, LocalTypes
<1>2. ASSUME NEW u \in Opens, SendOpenOk(u), u # o PROVE pc'[Opener(o)] = pc[Opener(o)]
  BY <1>2, ProcNames DEF SendOpenOk, Shape, Types, LocalTypes
<1>3. CASE SendOpenOk(o)
  BY <1>1, <1>3
<1>4. CASE ~SendOpenOk(o)
  <2>1. pc[Opener(o)] = "exit"
    BY <1>4, Grows DEF ConfirmedLast
  <2> QED BY <1>2, <1>4, <2>1, Starters
<1> QED BY <1>3, <1>4

\* A goroutine on its way to the CompareAndSwap stays there, or the stream it
\* holds is closed after the step.
LEMMA HoldersCas ==
    ASSUME Shape, StartOrder, [Next]_vars, NEW p \in Procs, pc[p] \in {"cs_cas", "ca_cas"}
    PROVE  \/ pc'[p] = pc[p] /\ target'[p] = target[p]
           \/ closed'[target[p]]
<1>a. closed \in [Opens -> BOOLEAN] /\ target[p] \in Opens
  BY CloserHolds DEF Shape, Types, StreamTypes, Holding
<1>1. CASE Stays(p)
  BY <1>1 DEF Stays
<1>2. CASE CloseStream(p)
  BY <1>2, <1>a DEF CloseStream, CloseLoad, CloseMisses, CloseCas, CloseLoses, CloseReclaim, At
<1>3. ASSUME EntersClose(p) PROVE FALSE
  BY <1>3 DEF EntersClose, OpenOkFails, ReaderCannotForward, ReaderGetsError, PumpCannotCredit,
              PumpFails, At
<1>4. ASSUME NEW s \in Sessions, p = Loop(s), LoopWorks(s) PROVE closed'[target[p]]
  <2>1. AllCas(s) \/ AllLoses(s)
    BY <1>4 DEF LoopWorks, ReadData, PeerSendsData, ShedStream, ReadClose, Reading, Enqueue,
                DropChunk, CloseAll, LoopFails, AllReclaim, AllDone, AllVisit, At
  <2>2. CASE AllCas(s)
    BY <1>a, <1>4, <2>2 DEF AllCas
  <2>3. CASE AllLoses(s)
    BY <1>4, <2>3 DEF AllLoses, ovars
  <2> QED BY <2>1, <2>2, <2>3
<1> QED BY <1>1, <1>2, <1>3, <1>4, Movers DEF Busy, Holding

\* A stream is taken out of the map by the goroutine that goes on to close it,
\* by closeAll once it is closed, or by its own handleOpen.
LEMMA ReachableStep ==
    ASSUME DistinctIds, Shape, StartOrder, Sweep, VisitKeys, ConfirmedLast, Reachable,
           [Next]_vars
    PROVE  Reachable'
<1> SUFFICES ASSUME NEW o \in Opens,
                    pc'[Opener(o)] \in {"check", "openok"} \/ "OPEN_OK" \in told'[o]
             PROVE  \/ closed'[o]
                    \/ streams'[SessOf[o]][IdOf[o]] = o
                    \/ \E p \in Procs : target'[p] = o /\ pc'[p] \in {"cs_cas", "ca_cas"}
  BY Zenon DEF Reachable
<1> DEFINE s == SessOf[o]
           i == IdOf[o]
<1>a. s \in Sessions /\ i \in Ids /\ o # None
  BY ConstTypes
<1>b. /\ pc \in [Procs -> Labels] /\ target \in [Procs -> Opens \cup {None}]
      /\ streams \in [Sessions -> [Ids -> Opens \cup {None}]]
  BY DEF Shape, Types, LocalTypes, SessionTypes
<1>1. CASE StoreStream(o)
  BY <1>1, <1>a, <1>b DEF StoreStream
<1>2. CASE ~StoreStream(o)
  <2>1. pc[Opener(o)] \in {"check", "openok"} \/ "OPEN_OK" \in told[o]
    <3>1. SendOpenOk(o) => pc[Opener(o)] = "openok"
      BY DEF SendOpenOk, At
    <3> QED BY <1>2, <3>1, Checkers, Grows
  <2>2. CASE closed[o]
    BY <2>2, ClosedGrows
  <2>3. ASSUME NEW p \in Procs, target[p] = o, pc[p] \in {"cs_cas", "ca_cas"}
        PROVE  closed'[o] \/ (target'[p] = o /\ pc'[p] \in {"cs_cas", "ca_cas"})
    BY <2>3, HoldersCas
  <2>4. CASE streams[s][i] = o /\ streams'[s][i] # o
    <3>1. ASSUME NEW p \in Procs, CloseLoad(p), SessionOf(p) = s, StreamId(p) = i
          PROVE  target'[p] = o /\ pc'[p] \in {"cs_cas", "ca_cas"}
      BY <1>b, <2>4, <3>1 DEF CloseLoad, Goto
    <3>2. ASSUME frameId[s] = i, AllLoses(s) \/ AllReclaim(s) PROVE closed'[o]
      <4>1. pc[Loop(s)] \in {"ca_cas", "ca_reclaim"}
        BY <3>2 DEF AllLoses, AllReclaim, At
      <4>2. target[Loop(s)] = o
        BY <1>a, <3>2, <4>1, LoopHolds DEF VisitKeys, DistinctIds, Holding
      <4>3. closed[o]
        BY <1>a, <3>2, <4>2 DEF AllLoses, AllReclaim, VisitKeys, At
      <4> QED BY <4>3, ClosedGrows
    <3>3. ASSUME NEW u \in OpensOf(s), IdOf[u] = i, StoreStream(u) \/ UndoStore(u)
          PROVE  FALSE
      <4>1. u = o
        BY <3>3 DEF DistinctIds, OpensOf
      <4>2. pc[Opener(o)] = "check" /\ pc'[Opener(o)] = "exit" /\ told' = told
        BY <1>2, <1>b, <3>3, <4>1, ProcNames DEF UndoStore, OpenReturns, Goto, At, hvars
      <4> QED BY <4>2 DEF ConfirmedLast
    <3> HIDE DEF s, i
    <3> QED BY <1>a, <2>4, <3>1, <3>2, <3>3, MapChanges
  <2> QED BY <2>1, <2>2, <2>3, <2>4, Zenon DEF Reachable
<1> QED BY <1>1, <1>2

\* The peer that waits for OPEN_OK sends DATA only to streams it was told of.
LEMMA QueuedConfirmedStep ==
    ASSUME DistinctIds, EarlyData = FALSE, Shape, StartOrder, Sweep, QueuedConfirmed,
           [Next]_vars
    PROVE  QueuedConfirmed'
<1>a. /\ pc \in [Procs -> Labels] /\ target \in [Procs -> Opens \cup {None}]
      /\ qbytes \in [Opens -> Int]
  BY DEF Shape, Types, LocalTypes, StreamTypes
<1>1. ASSUME NEW o \in Opens, qbytes'[o] > 0 PROVE "OPEN_OK" \in told'[o]
  <2>1. ASSUME NEW s \in Sessions, Enqueue(s) PROVE qbytes[o] > 0 \/ target[Loop(s)] = o
    BY <1>a, <1>1, <2>1 DEF Enqueue
  <2>2. ASSUME NEW s \in Sessions, AllReclaim(s) PROVE qbytes[o] > 0
    BY <1>a, <1>1, <2>2 DEF AllReclaim
  <2>3. ASSUME NEW u \in Opens, PumpTakes(u) PROVE qbytes[o] > 0
    <3>1. queue[u] \in Seq(Nat) /\ queue[u] # <<>>
      BY <2>3 DEF PumpTakes, Shape, Types, StreamTypes
    <3>2. Head(queue[u]) \in Nat
      BY <3>1
    <3> QED BY <1>a, <1>1, <2>3, <3>2 DEF PumpTakes
  <2>4. ASSUME NEW p \in Procs, CloseReclaim(p) PROVE qbytes[o] > 0
    BY <1>a, <1>1, <2>4 DEF CloseReclaim
  <2>5. ASSUME NEW s \in Sessions, Enqueue(s) PROVE "OPEN_OK" \in told[target[Loop(s)]]
    BY <2>5 DEF Enqueue, At, QueuedConfirmed
  <2>6. "OPEN_OK" \in told[o]
    <3>1. UNCHANGED budgets => qbytes[o] > 0
      BY <1>1 DEF budgets
    <3>2. qbytes[o] > 0 => "OPEN_OK" \in told[o]
      BY DEF QueuedConfirmed
    <3> QED BY <2>1, <2>2, <2>3, <2>4, <2>5, <3>1, <3>2, BudgetSteps, Zenon
  <2> QED BY <2>6, Grows
<1>2. ASSUME NEW s \in Sessions, pc'[Loop(s)] = "enqueue"
      PROVE  "OPEN_OK" \in told'[target'[Loop(s)]]
  <2>a. Loop(s) \in Procs /\ \A r \in Sessions : Loop(s) = Loop(r) => r = s
    BY ProcNames
  <2>1. CASE Stays(Loop(s))
    <3>1. pc[Loop(s)] = "enqueue" /\ target'[Loop(s)] = target[Loop(s)]
      BY <1>2, <2>1 DEF Stays
    <3>2. target[Loop(s)] \in Opens /\ "OPEN_OK" \in told[target[Loop(s)]]
      BY <3>1, LoopHolds DEF QueuedConfirmed, Holding
    <3> QED BY <3>1, <3>2, Grows
  <2>2. ~CloseStream(Loop(s)) /\ ~EntersClose(Loop(s))
    <3>1. ~EntersClose(Loop(s))
      BY ProcNames DEF EntersClose
    <3>2. CloseStream(Loop(s)) => pc'[Loop(s)] \in {"cs_cas", "cs_reclaim", "read", "exit"}
      BY <1>a, <2>a DEF CloseStream, CloseLoad, CloseMisses, CloseCas, CloseLoses,
                        CloseReclaim, AfterClose, Goto, GotoAndWake
    <3> QED BY <1>2, <3>1, <3>2
  <2>3. CASE LoopWorks(s)
    <3>1. PICK i \in Ids, n \in ChunkSizes : ReadData(s, i, n)
      <4>1. ASSUME \/ \E i \in Ids, n \in ChunkSizes : ShedStream(s, i, n)
                   \/ \E i \in Ids : ReadClose(s, i) \/ AllVisit(s, i)
                   \/ Enqueue(s) \/ DropChunk(s) \/ LoopFails(s) \/ AllLoses(s) \/ AllDone(s)
                   \/ AllReclaim(s) \/ AllCas(s)
            PROVE  FALSE
        <5>1. pc'[Loop(s)] \in {"cs_load", "read", "ca_range", "ca_cas", "ca_reclaim", "exit"}
          BY <1>a, <2>a, <4>1 DEF ShedStream, ReadClose, Enqueue, DropChunk, LoopFails,
                AllLoses, AllDone, AllReclaim, AllCas, AllVisit, Goto, GotoAndWake
        <5> QED BY <1>2, <5>1
      <4> QED BY <2>3, <4>1, Zenon DEF LoopWorks, CloseAll
    <3>2. PICK o \in OpensOf(s) : IdOf[o] = i /\ "OPEN_OK" \in told[o]
      BY <3>1 DEF ReadData, PeerSendsData
    <3>3. streams[s][i] \in OpensOf(s) /\ IdOf[streams[s][i]] = i
      BY <3>1 DEF ReadData, Shape, MapOwner, OpensOf, Sweep, MapKeys
    <3>4. streams[s][i] = o
      BY <3>2, <3>3 DEF DistinctIds, OpensOf
    <3>5. target'[Loop(s)] = o /\ o \in Opens
      BY <1>a, <2>a, <3>1, <3>2, <3>4 DEF ReadData, OpensOf
    <3> QED BY <3>2, <3>5, Grows
  <2> QED BY <1>2, <2>a, <2>1, <2>2, <2>3, Movers DEF Busy, Holding
<1> QED BY <1>1, <1>2 DEF QueuedConfirmed

\* What the invariants say of a session that is over: a stream with queued
\* bytes was confirmed, so it was closed, so its bytes were given back.
LEMMA OverIsReclaimed ==
    ASSUME Shape, BudgetExact, ClosedIsReclaimed, NoOrphan, Reachable, QueuedConfirmed
    PROVE  GlobalReclaimed
<1> SUFFICES ASSUME NEW s \in Sessions, SessionOver(s), NEW o \in OpensOf(s), qbytes[o] # 0
             PROVE  FALSE
  BY DEF GlobalReclaimed
<1>1. o \in Opens /\ SessOf[o] = s
  BY DEF OpensOf
<1>2. qbytes[o] > 0
  <2>1. qbytes[o] \in Nat
    BY <1>1, ExactIsNat
  <2> QED BY <2>1
<1>3. ASSUME NEW p \in Procs, target[p] = o, pc[p] \in Holding PROVE FALSE
  <2>1. SessionOf(p) = s
    BY <1>1, <1>3, CloserHolds
  <2>2. pc[p] # "idle" /\ pc[p] # "exit"
    BY <1>3 DEF Holding
  <2>3. CASE p[1] = "loop"
    BY <2>1, <2>2, <2>3, ProcKinds DEF SessionOver, At
  <2>4. CASE p[1] # "loop"
    <3>1. p[2] \in OpensOf(s) /\ p \in {<<"open", p[2]>>, <<"reader", p[2]>>, <<"pump", p[2]>>}
      BY <2>1, <2>4, ProcKinds DEF OpensOf, SessionOf, Opener, Reader, Pump
    <3> QED BY <2>2, <3>1 DEF SessionOver, Running
  <2> QED BY <2>3, <2>4
<1>4. "OPEN_OK" \in told[o]
  BY <1>1, <1>2 DEF QueuedConfirmed
<1>5. streams[s][IdOf[o]] # o
  BY <1>1, ConstTypes DEF NoOrphan, InMap
<1>6. closed[o]
  BY <1>1, <1>3, <1>4, <1>5, Zenon DEF Reachable, Holding
<1> QED BY <1>1, <1>2, <1>3, <1>6 DEF ClosedIsReclaimed, Holding

\* A session that is over holds no byte of the process-wide budget, if its peer
\* waits for OPEN_OK before it sends DATA and uses no id twice.  (A peer that
\* does not wait can have bytes queued on a stream whose handleOpen then undoes
\* its store: nobody closes that stream.)
THEOREM GlobalReclaimedHolds ==
    ASSUME DistinctIds, EarlyData = FALSE
    PROVE  Spec => []GlobalReclaimed
<1> DEFINE Found == VisitKeys /\ ConfirmedLast /\ Reachable /\ QueuedConfirmed
<1>1. Init => Found
  <2> SUFFICES ASSUME Init PROVE Found
    OBVIOUS
  <2>1. \A o \in Opens : pc[Opener(o)] = "idle" /\ told[o] = {} /\ qbytes[o] = 0
    BY ProcKinds DEF Init
  <2>2. \A s \in Sessions : pc[Loop(s)] = "read"
    BY ProcKinds DEF Init
  <2> QED BY <2>1, <2>2 DEF VisitKeys, ConfirmedLast, Reachable, QueuedConfirmed
<1>2. Shape /\ StartOrder /\ Sweep /\ Found /\ [Next]_vars => Found'
  BY VisitKeysStep, ConfirmedLastStep, ReachableStep, QueuedConfirmedStep
<1>3. Shape /\ BudgetExact /\ ClosedIsReclaimed /\ NoOrphan /\ Found => GlobalReclaimed
  BY OverIsReclaimed
<1> QED BY <1>1, <1>2, <1>3, ShapeHolds, StartOrderHolds, SweepHolds, BudgetExactHolds,
           ClosedIsReclaimedHolds, NoOrphanHolds, PTL DEF Spec

-----------------------------------------------------------------------------
(* A stream fails loudly. *)

\* handleOpen never returns to where it was before its OPEN was read, and starts
\* only by the read loop of its session.
LEMMA Started ==
    ASSUME Shape, [Next]_vars, NEW o \in Opens, pc'[Opener(o)] # "idle" \/ pc[Opener(o)] # "idle"
    PROVE  /\ pc'[Opener(o)] # "idle"
           /\ \/ pc[Opener(o)] # "idle"
              \/ pc[Loop(SessOf[o])] = "read" /\ pc'[Loop(SessOf[o])] = "read"
<1>1. ASSUME NEW u \in Opens, SendOpenOk(u)
      PROVE  pc'[Opener(o)] # "idle" /\ pc[Opener(o)] # "idle"
  BY <1>1, ProcNames DEF SendOpenOk, At, Shape, Types, LocalTypes
<1> QED BY <1>1, Starters

\* A stream in the map has a handleOpen that was started.
LEMMA MapStartedStep ==
    ASSUME Shape, MapStarted, [Next]_vars
    PROVE  MapStarted'
<1> SUFFICES ASSUME NEW s \in Sessions, NEW i \in Ids, NEW o \in Opens, streams'[s][i] = o
             PROVE  pc'[Opener(o)] # "idle"
  BY DEF MapStarted
<1>1. CASE streams[s][i] = o
  BY <1>1, Started DEF MapStarted
<1>2. CASE streams[s][i] # o
  <2>1. streams \in [Sessions -> [Ids -> Opens \cup {None}]]
    BY DEF Shape, Types, SessionTypes
  <2>2. ASSUME NEW u \in OpensOf(s), IdOf[u] = i, StoreStream(u) PROVE u = o
    BY <2>1, <2>2, ConstTypes DEF StoreStream, OpensOf
  <2>3. ASSUME NEW u \in OpensOf(s), IdOf[u] = i, UndoStore(u) PROVE FALSE
    BY <2>1, <2>3, ConstTypes DEF UndoStore, OpensOf
  <2>4. ASSUME NEW p \in Procs, CloseLoad(p), SessionOf(p) = s, StreamId(p) = i PROVE FALSE
    BY <2>1, <2>4, ConstTypes DEF CloseLoad
  <2>5. ASSUME frameId[s] = i, AllLoses(s) \/ AllReclaim(s) PROVE FALSE
    <3>1. AllVisited(s)
      BY <2>5, Zenon DEF AllLoses, AllReclaim
    <3> QED BY <2>1, <2>5, <3>1, ConstTypes DEF AllVisited
  <2>6. StoreStream(o)
    BY <1>2, <2>2, <2>3, <2>4, <2>5, MapChanges
  <2> QED BY <2>6, Started DEF StoreStream, At
<1> QED BY <1>1, <1>2

\* closeStream holds what it found under the id it was called with.
LEMMA CloserTargetsStep ==
    ASSUME Shape, StartOrder, Sweep, MapStarted, CloserTargets, [Next]_vars
    PROVE  CloserTargets'
<1> SUFFICES ASSUME NEW p \in Procs, pc'[p] = "cs_cas"
             PROVE  IdOf[target'[p]] = StreamId(p)' /\ pc'[Opener(target'[p])] # "idle"
  BY DEF CloserTargets
<1>a. /\ pc \in [Procs -> Labels] /\ frameId \in [Sessions -> Ids \cup {None}]
      /\ target \in [Procs -> Opens \cup {None}]
  BY DEF Shape, Types, LocalTypes
<1>1. CASE Stays(p)
  <2>1. pc[p] = "cs_cas" /\ target'[p] = target[p] /\ StreamId(p)' = StreamId(p)
    BY <1>1 DEF Stays, StreamId
  <2>2. target[p] \in Opens
    BY <2>1, CloserHolds DEF Holding
  <2> QED BY <2>1, <2>2, Started DEF CloserTargets
<1>2. CASE CloseStream(p)
  <2>1. CloseLoad(p)
    <3>1. ~CloseCas(p)
      BY <1>a DEF CloseCas, Goto
    <3>2. ~(CloseMisses(p) \/ CloseLoses(p) \/ CloseReclaim(p))
      BY CloserMoves
    <3> QED BY <1>2, <3>1, <3>2 DEF CloseStream
  <2> DEFINE o == streams[SessionOf(p)][StreamId(p)]
  <2>2. SessionOf(p) \in Sessions /\ StreamId(p) \in Ids
    BY <2>1, CloserHolds DEF CloseLoad, At
  <2>3. o \in Opens /\ IdOf[o] = StreamId(p)
    BY <2>1, <2>2 DEF CloseLoad, Shape, MapOwner, OpensOf, Sweep, MapKeys
  <2>4. pc[Opener(o)] # "idle"
    BY <2>2, <2>3 DEF MapStarted
  <2>5. target'[p] = o /\ StreamId(p)' = StreamId(p)
    BY <1>a, <2>1 DEF CloseLoad, StreamId
  <2> HIDE DEF o
  <2> QED BY <2>3, <2>4, <2>5, Started
<1>3. ASSUME EntersClose(p) PROVE FALSE
  BY <1>a, <1>3, ProcNames DEF EntersClose, OpenOkFails, ReaderCannotForward, ReaderGetsError,
                    PumpCannotCredit, PumpFails, Goto
<1>4. ASSUME NEW s \in Sessions, p = Loop(s), LoopWorks(s) PROVE FALSE
  <2>1. pc'[Loop(s)] \in {"enqueue", "cs_load", "read", "ca_range", "ca_cas", "ca_reclaim", "exit"}
    BY <1>a, <1>4 DEF LoopWorks, ReadData, ShedStream, ReadClose, Enqueue, DropChunk, CloseAll,
          LoopFails, AllCas, AllLoses, AllReclaim, AllDone, AllVisit, Goto, GotoAndWake
  <2> QED BY <1>4, <2>1
<1> QED BY <1>1, <1>2, <1>3, <1>4, Movers DEF Busy, Holding

\* While the connection is up a CLOSE that is sent is written.
LEMMA ClosesLoudly ==
    ASSUME CloseLog, Shape, NEW o \in Opens, conn[SessOf[o]] = "up", Notify(o, "CLOSE")
    PROVE  "CLOSE" \in told'[o]
BY DEF Notify, Written, WriteFails, Kept, Shape, Types, HistoryTypes

\* A goroutine of the stream goes into closeStream after a failed write, on a
\* connection that is not up, or after its CLOSE was written.
LEMMA OwnClosersStep ==
    ASSUME CloseLog, Shape, StartOrder, LoudClosers, [Next]_vars, NEW o \in Opens,
           NEW p \in {Opener(o), Reader(o), Pump(o)},
           pc'[p] \in {"cs_load", "cs_cas"}, conn'[SessOf[o]] = "up"
    PROVE  Loud(o)'
<1>a. p \in Procs /\ SessOf[o] \in Sessions
  BY ProcNames, ConstTypes
<1>b. conn[SessOf[o]] = "up" /\ (Loud(o) => Loud(o)')
  BY <1>a, Grows DEF Loud
<1>1. CASE Stays(p)
  BY <1>1, <1>b DEF Stays, LoudClosers
<1>2. CASE CloseStream(p)
  <2>1. CASE CloseLoad(p) \/ CloseCas(p)
    BY <1>b, <2>1 DEF CloseLoad, CloseCas, At, LoudClosers
  <2>2. ~(CloseMisses(p) \/ CloseLoses(p) \/ CloseReclaim(p))
    BY <1>a, CloserMoves
  <2> QED BY <1>2, <2>1, <2>2 DEF CloseStream
<1>3. CASE EntersClose(p)
  <2>1. PICK u \in Opens : \/ p = Opener(u) /\ OpenOkFails(u)
                           \/ p = Reader(u) /\ (ReaderCannotForward(u) \/ ReaderGetsError(u))
                           \/ p = Pump(u) /\ (PumpCannotCredit(u) \/ PumpFails(u))
    BY <1>3 DEF EntersClose
  <2>2. u = o
    BY <2>1, ProcNames
  <2>3. ~OpenOkFails(o) /\ ~ReaderCannotForward(o) /\ ~PumpCannotCredit(o)
    BY <1>b DEF OpenOkFails, WriteFails, ReaderCannotForward, PumpCannotCredit
  <2>4. Notify(o, "CLOSE")
    BY <2>1, <2>2, <2>3 DEF ReaderGetsError, PumpFails
  <2> QED BY <1>b, <2>4, ClosesLoudly DEF Loud
<1>4. \A s \in Sessions : p # Loop(s)
  BY ProcNames
<1> QED BY <1>1, <1>2, <1>3, <1>4, <1>a, Movers DEF Busy, Holding

\* The read loop goes into closeStream when the peer said CLOSE, or after it
\* wrote CLOSE for the stream it sheds.
LEMMA LoopClosersStep ==
    ASSUME DistinctIds, CloseLog, Shape, StartOrder, Sweep, LoudClosers, [Next]_vars,
           NEW s \in Sessions, NEW o \in OpensOf(s),
           pc'[Loop(s)] \in {"cs_load", "cs_cas"}, conn'[s] = "up",
           frameId'[s] = IdOf[o], pc'[Opener(o)] # "idle"
    PROVE  Loud(o)'
<1>a. o \in Opens /\ SessOf[o] = s /\ Loop(s) \in Procs
  BY ProcNames DEF OpensOf
<1>b. conn[s] = "up" /\ (Loud(o) => Loud(o)')
  BY <1>a, Grows DEF Loud
<1>c. /\ pc \in [Procs -> Labels] /\ frameId \in [Sessions -> Ids \cup {None}]
      /\ \A r \in Sessions : Loop(r) = Loop(s) => r = s
      /\ \A u \in Opens : Loop(s) # Opener(u) /\ Loop(s) # Reader(u) /\ Loop(s) # Pump(u)
      /\ Loop(s)[1] = "loop" /\ Loop(s)[2] = s
  BY ProcNames, ProcKinds DEF Shape, Types, LocalTypes
<1>d. pc[Opener(o)] # "idle"
  BY <1>a, Started
<1>1. CASE Stays(Loop(s))
  <2>1. pc[Loop(s)] \in {"cs_load", "cs_cas"} /\ frameId[s] = IdOf[o]
    BY <1>1, <1>c DEF Stays
  <2> QED BY <1>b, <1>d, <2>1 DEF LoudClosers
<1>2. CASE CloseStream(Loop(s))
  <2>1. CloseLoad(Loop(s)) \/ CloseCas(Loop(s))
    BY <1>2, <1>a, CloserMoves DEF CloseStream
  <2>2. pc[Loop(s)] \in {"cs_load", "cs_cas"} /\ frameId[s] = IdOf[o]
    BY <2>1 DEF CloseLoad, CloseCas, At, lvars
  <2> QED BY <1>b, <1>d, <2>2 DEF LoudClosers
<1>3. CASE LoopWorks(s)
  <2>1. ASSUME NEW i \in Ids, ReadClose(s, i) PROVE Loud(o)'
    <3>1. IdOf[o] = i
      BY <1>c, <2>1 DEF ReadClose
    <3>2. peerClosed'[o]
      BY <1>a, <1>d, <2>1, <3>1 DEF ReadClose
    <3> QED BY <3>2 DEF Loud
  <2>2. ASSUME NEW i \in Ids, NEW n \in ChunkSizes, ShedStream(s, i, n) PROVE Loud(o)'
    <3>1. IdOf[o] = i
      BY <1>c, <2>2 DEF ShedStream
    <3>2. streams[s][i] = o
      BY <1>a, <2>2, <3>1 DEF ShedStream, Shape, MapOwner, OpensOf, Sweep, MapKeys, DistinctIds
    <3>3. Notify(o, "CLOSE")
      BY <2>2, <3>2 DEF ShedStream
    <3> QED BY <1>a, <1>b, <3>3, ClosesLoudly DEF Loud
  <2>3. ASSUME \/ \E i \in Ids, n \in ChunkSizes : ReadData(s, i, n)
               \/ Enqueue(s) \/ DropChunk(s) \/ CloseAll(s)
        PROVE  FALSE
    <3>1. pc'[Loop(s)] \in {"enqueue", "read", "ca_range", "ca_cas", "ca_reclaim", "exit"}
      BY <1>a, <1>c, <2>3 DEF ReadData, Enqueue, DropChunk, CloseAll, LoopFails, AllCas, AllLoses,
            AllReclaim, AllDone, AllVisit, Goto, GotoAndWake
    <3> QED BY <3>1
  <2> QED BY <1>3, <2>1, <2>2, <2>3, Zenon DEF LoopWorks
<1>4. ~EntersClose(Loop(s))
  BY <1>c DEF EntersClose
<1> QED BY <1>1, <1>2, <1>3, <1>4, <1>a, <1>c, Movers DEF Busy, Holding

\* The CompareAndSwap that closes a stream is won by a goroutine that came to it
\* loudly, or by closeAll.
LEMMA FailsLoudlyStep ==
    ASSUME DistinctIds, Shape, CloserTargets, LoudClosers, FailsLoudly, [Next]_vars
    PROVE  FailsLoudly'
<1> SUFFICES ASSUME NEW o \in Opens, closed'[o], conn'[SessOf[o]] = "up", ~sclosed'[SessOf[o]]
             PROVE  Loud(o)'
  BY DEF FailsLoudly, Loud
<1>a. /\ SessOf[o] \in Sessions /\ conn[SessOf[o]] = "up" /\ ~sclosed[SessOf[o]]
      /\ Loud(o) => Loud(o)'
  BY ConstTypes, Grows DEF Loud
<1>1. CASE closed[o]
  BY <1>1, <1>a DEF FailsLoudly, Loud
<1>2. ASSUME NEW p \in Procs, CloseCas(p), target[p] = o PROVE Loud(o)
  <2>1. /\ pc[p] = "cs_cas" /\ SessionOf(p) = SessOf[o]
        /\ IdOf[o] = StreamId(p) /\ pc[Opener(o)] # "idle"
    BY <1>2, CloserHolds DEF CloseCas, At, Holding, CloserTargets
  <2>2. CASE p[1] = "loop"
    <3>1. p = Loop(SessOf[o]) /\ frameId[SessOf[o]] = IdOf[o]
      BY <2>1, <2>2, ProcKinds DEF StreamId
    <3> QED BY <1>a, <2>1, <3>1 DEF LoudClosers, OpensOf
  <2>3. CASE p[1] # "loop"
    <3>1. p[2] \in Opens /\ p \in {Opener(p[2]), Reader(p[2]), Pump(p[2])}
      BY <2>3, ProcKinds
    <3>2. IdOf[p[2]] = IdOf[o] /\ SessOf[p[2]] = SessOf[o]
      BY <2>1, <2>3 DEF StreamId, SessionOf
    <3>3. p[2] = o
      BY <3>1, <3>2 DEF DistinctIds
    <3> QED BY <1>a, <2>1, <3>1, <3>3 DEF LoudClosers
  <2> QED BY <2>2, <2>3
<1>3. ASSUME NEW s \in Sessions, AllCas(s), target[Loop(s)] = o PROVE FALSE
  <2>1. pc[Loop(s)] = "ca_cas"
    BY <1>3 DEF AllCas, At
  <2> QED BY <1>a, <1>3, <2>1, LoopHolds DEF Holding, Shape, LoopPhase
<1> QED BY <1>a, <1>1, <1>2, <1>3, ClosedGrows

\* "The peer gets a CLOSE so the upload fails loudly": while the connection is
\* up, a stream the peer did not close itself is closed only after a CLOSE frame
\* for it was written, if the peer uses no id twice (and CLOSE frames are kept).
THEOREM FailsLoudlyHolds ==
    ASSUME DistinctIds, CloseLog
    PROVE  Spec => []FailsLoudly
<1> DEFINE Loudness == MapStarted /\ CloserTargets /\ LoudClosers /\ FailsLoudly
<1>1. Init => Loudness
  <2> SUFFICES ASSUME Init PROVE Loudness
    OBVIOUS
  <2>1. \A p \in Procs : pc[p] \in {"read", "idle"}
    BY DEF Init
  <2>2. /\ \A o \in Opens : ~closed[o]
        /\ \A s \in Sessions, i \in Ids : streams[s][i] = None
    BY DEF Init
  <2>3. MapStarted /\ FailsLoudly
    BY <2>2, ConstTypes DEF MapStarted, FailsLoudly
  <2>4. CloserTargets /\ LoudClosers
    BY <2>1, ProcNames DEF CloserTargets, LoudClosers
  <2> QED BY <2>3, <2>4
<1>2. Shape /\ StartOrder /\ Sweep /\ Loudness /\ [Next]_vars => Loudness'
  <2> SUFFICES ASSUME Shape, StartOrder, Sweep, Loudness, [Next]_vars PROVE Loudness'
    OBVIOUS
  <2>1. LoudClosers'
    BY OwnClosersStep, LoopClosersStep, Zenon DEF LoudClosers
  <2> QED BY <2>1, MapStartedStep, CloserTargetsStep, FailsLoudlyStep
<1> QED BY <1>1, <1>2, ShapeHolds, StartOrderHolds, SweepHolds, PTL DEF Spec

-----------------------------------------------------------------------------
(* Which ways out of handleOpen answer the OPEN. *)

\* A handleOpen does not go back to its dial, enters closeStream by OpenOkFails
\* only, and ends there or by one of five steps; an upstream once dialled stays
\* dialled.
OpenerMoved(o) ==
    /\ pc[Opener(o)] \notin {"idle", "dial"} => pc'[Opener(o)] \notin {"idle", "dial"}
    /\ upstream[o] # "none" => upstream'[o] # "none"
    /\ pc'[Opener(o)] \in CloseLabels => pc[Opener(o)] \in CloseLabels \/ OpenOkFails(o)
    /\ pc'[Opener(o)] = "exit" =>
           \/ pc[Opener(o)] \in CloseLabels \cup {"exit"}
           \/ RefuseOpen(o) \/ DialFails(o) \/ RefuseDuplicate(o) \/ UndoStore(o)
           \/ SendOpenOk(o)

\* Every step moves the handleOpen of every OPEN in one of these ways.
LEMMA OpenerMoves ==
    ASSUME Shape, [Next]_vars, NEW o \in Opens
    PROVE  OpenerMoved(o)
<1>a. pc \in [Procs -> Labels] /\ upstream \in [Opens -> {"none", "open", "closed"}]
  BY DEF Shape, Types, LocalTypes, StreamTypes
<1> DEFINE Still == /\ pc'[Opener(o)] = pc[Opener(o)]
                    /\ upstream[o] # "none" => upstream'[o] # "none"
<1>0. Still => OpenerMoved(o)
  BY DEF OpenerMoved
<1> USE <1>a, ConstTypes, ProcNames DEF At, Goto
<1>1. ASSUME NEW s \in Sessions, ConnBreaks(s) \/ ReapConn(s) PROVE Still
  BY <1>1 DEF ConnBreaks, ReapConn, ovars
<1>2. ASSUME NEW s \in Sessions, ReadFrame(s) PROVE OpenerMoved(o)
  <2>1. ASSUME NEW u \in OpensOf(s), ReadOpen(u) PROVE OpenerMoved(o)
    BY <2>1 DEF ReadOpen, OpensOf, ovars, OpenerMoved, CloseLabels
  <2>2. ASSUME NEW u \in OpensOf(s), RefuseOpen(u) PROVE OpenerMoved(o)
    <3>1. CASE u = o
      BY <2>2, <3>1 DEF RefuseOpen, OpensOf, ovars, OpenerMoved, CloseLabels
    <3>2. CASE u # o
      BY <1>0, <2>2, <3>2 DEF RefuseOpen, OpensOf, ovars
    <3> QED BY <3>1, <3>2
  <2>3. ASSUME NEW i \in Ids, NEW n \in ChunkSizes, ReadData(s, i, n) \/ ShedStream(s, i, n)
        PROVE  Still
    BY <2>3 DEF ReadData, ShedStream, ovars
  <2>4. ASSUME NEW i \in Ids, SkipData(s, i) \/ ReadClose(s, i) PROVE Still
    BY <2>4 DEF SkipData, ReadClose, ovars
  <2> HIDE DEF Still
  <2> QED BY <1>0, <1>2, <2>1, <2>2, <2>3, <2>4, Zenon DEF ReadFrame
<1>3. ASSUME NEW s \in Sessions, Enqueue(s) \/ DropChunk(s) PROVE Still
  <2>1. target[Loop(s)] \in Opens
    BY <1>3, LoopHolds DEF Enqueue, DropChunk, Holding
  <2> QED BY <1>3, <2>1 DEF Enqueue, DropChunk, GotoAndWake, ovars
<1>4. ASSUME NEW s \in Sessions, CloseAll(s) PROVE Still
  <2>1. CASE LoopFails(s) \/ AllCas(s) \/ AllLoses(s) \/ AllDone(s)
    BY <2>1 DEF LoopFails, AllCas, AllLoses, AllDone, ovars
  <2>2. CASE AllReclaim(s)
    <3>1. target[Loop(s)] \in Opens
      BY <2>2, LoopHolds DEF AllReclaim, Holding
    <3> QED BY <2>2, <3>1 DEF AllReclaim, GotoAndWake
  <2>3. ASSUME NEW i \in Ids, AllVisit(s, i) PROVE Still
    BY <2>3 DEF AllVisit, ovars
  <2> QED BY <1>4, <2>1, <2>2, <2>3, Zenon DEF CloseAll
<1>5. ASSUME NEW u \in Opens, HandleOpen(u) PROVE OpenerMoved(o)
  <2>1. CASE u # o
    <3>1. CASE SendOpenOk(u)
      BY <1>0, <2>1, <3>1 DEF SendOpenOk, ovars
    <3>2. CASE ~SendOpenOk(u)
      BY <1>0, <1>5, <2>1, <3>2 DEF HandleOpen, DialFails, StoreStream, RefuseDuplicate,
            CheckClosed, UndoStore, OpenOkFails, OpenReturns, ovars
    <3> QED BY <3>1, <3>2
  <2>2. CASE u = o
    <3>1. CASE DialFails(o) \/ OpenOkFails(o)
      BY <3>1 DEF DialFails, OpenOkFails, OpenReturns, OpenerMoved, CloseLabels, ovars
    <3>2. CASE StoreStream(o) \/ CheckClosed(o)
      BY <3>2 DEF StoreStream, CheckClosed, OpenerMoved, CloseLabels, ovars
    <3>3. CASE RefuseDuplicate(o) \/ UndoStore(o)
      BY <3>3 DEF RefuseDuplicate, UndoStore, OpenReturns, OpenerMoved, CloseLabels
    <3>4. CASE SendOpenOk(o)
      BY <3>4 DEF SendOpenOk, OpenerMoved, CloseLabels, ovars
    <3> QED BY <1>5, <2>2, <3>1, <3>2, <3>3, <3>4 DEF HandleOpen
  <2> QED BY <2>1, <2>2
<1>6. ASSUME NEW u \in Opens, ReadUpstream(u) PROVE Still
  BY <1>6 DEF ReadUpstream, ReaderReads, ReaderEnds, ReaderForwards, ReaderCannotForward,
              ReaderGetsError, ovars
<1>7. ASSUME NEW u \in Opens, PumpUpstream(u) PROVE Still
  BY <1>7 DEF PumpUpstream, PumpWaits, PumpEnds, PumpTakes, PumpDelivers, PumpCannotCredit,
              PumpFails, ovars
<1>8. ASSUME NEW p \in Procs, CloseStream(p) PROVE OpenerMoved(o)
  <2>1. CASE CloseLoad(p) \/ CloseCas(p)
    BY <2>1 DEF CloseLoad, CloseCas, ovars, OpenerMoved, CloseLabels
  <2>2. CASE CloseMisses(p) \/ CloseLoses(p) \/ CloseReclaim(p)
    <3>1. upstream[o] # "none" => upstream'[o] # "none"
      BY <2>2 DEF CloseMisses, CloseLoses, CloseReclaim, CloseUpstreams
    <3>2. pc[p] \in CloseLabels
      BY <2>2 DEF CloseMisses, CloseLoses, CloseReclaim, CloseLabels
    <3> QED BY <2>2, <3>1, <3>2, CloserMoves DEF OpenerMoved, CloseLabels
  <2> QED BY <1>8, <2>1, <2>2 DEF CloseStream
<1>9. ASSUME Finished \/ UNCHANGED vars PROVE Still
  BY <1>9 DEF Finished, vars, ovars
<1> HIDE DEF Still
<1> QED
  BY <1>0, <1>1, <1>2, <1>3, <1>4, <1>5, <1>6, <1>7, <1>8, <1>9, Zenon DEF Next

\* A stream in the map was dialled by a handleOpen that is past its dial.
MapDialled ==
    \A s \in Sessions, i \in Ids, o \in Opens :
        streams[s][i] = o => pc[Opener(o)] \notin {"idle", "dial"} /\ upstream[o] # "none"

\* A handleOpen in closeStream could not write its OPEN_OK.
OpenersDown ==
    \A o \in Opens : pc[Opener(o)] \in CloseLabels => conn[SessOf[o]] # "up"

\* Only StoreStream puts a stream into the map.
LEMMA MapDialledStep ==
    ASSUME Shape, MapDialled, [Next]_vars
    PROVE  MapDialled'
<1> SUFFICES ASSUME NEW s \in Sessions, NEW i \in Ids, NEW o \in Opens, streams'[s][i] = o
             PROVE  pc'[Opener(o)] \notin {"idle", "dial"} /\ upstream'[o] # "none"
  BY DEF MapDialled
<1>1. CASE streams[s][i] = o
  BY <1>1, OpenerMoves DEF MapDialled, OpenerMoved
<1>2. CASE streams[s][i] # o
  <2>1. /\ streams \in [Sessions -> [Ids -> Opens \cup {None}]] /\ pc \in [Procs -> Labels]
        /\ upstream \in [Opens -> {"none", "open", "closed"}]
    BY DEF Shape, Types, SessionTypes, LocalTypes, StreamTypes
  <2>2. ASSUME NEW u \in OpensOf(s), IdOf[u] = i, StoreStream(u) PROVE u = o
    BY <2>1, <2>2, ConstTypes DEF StoreStream, OpensOf
  <2>3. ASSUME NEW u \in OpensOf(s), IdOf[u] = i, UndoStore(u) PROVE FALSE
    BY <2>1, <2>3, ConstTypes DEF UndoStore, OpensOf
  <2>4. ASSUME NEW p \in Procs, CloseLoad(p), SessionOf(p) = s, StreamId(p) = i PROVE FALSE
    BY <2>1, <2>4, ConstTypes DEF CloseLoad
  <2>5. ASSUME frameId[s] = i, AllLoses(s) \/ AllReclaim(s) PROVE FALSE
    <3>1. AllVisited(s)
      BY <2>5, Zenon DEF AllLoses, AllReclaim
    <3> QED BY <2>1, <2>5, <3>1, ConstTypes DEF AllVisited
  <2>6. StoreStream(o)
    BY <1>2, <2>2, <2>3, <2>4, <2>5, MapChanges
  <2> QED BY <2>1, <2>6, ProcNames DEF StoreStream, Goto
<1> QED BY <1>1, <1>2

\* The six ways a handleOpen ends, and what each has told the peer.
LEMMA OpenAnsweredStep ==
    ASSUME Shape, Sweep, MapDialled, OpenersDown, OpenAnswered, [Next]_vars
    PROVE  OpenAnswered'
<1> DEFINE Answered(o) == told[o] \cap {"OPEN_OK", "OPEN_ERR"} # {}
           Rival(o) == \E u \in Opens \ {o} :
                          SessOf[u] = SessOf[o] /\ IdOf[u] = IdOf[o] /\ upstream[u] # "none"
<1> SUFFICES ASSUME NEW o \in Opens, pc'[Opener(o)] = "exit", conn'[SessOf[o]] = "up",
                    ~sclosed'[SessOf[o]]
             PROVE  Answered(o)' \/ Rival(o)'
  BY DEF OpenAnswered, At
<1>a. SessOf[o] \in Sessions /\ IdOf[o] \in Ids /\ o # None
  BY ConstTypes
<1>b. conn[SessOf[o]] = "up" /\ ~sclosed[SessOf[o]]
  BY <1>a, Grows
<1>c. told \in [Opens -> SUBSET {"OPEN_OK", "OPEN_ERR", "CLOSE"}]
  BY DEF Shape, Types, HistoryTypes
<1>d. Answered(o) => Answered(o)'
  BY Grows
<1>e. Rival(o) => Rival(o)'
  BY OpenerMoves DEF OpenerMoved
<1>1. CASE pc[Opener(o)] = "exit"
  BY <1>1, <1>b, <1>d, <1>e DEF OpenAnswered, At
<1>2. CASE pc[Opener(o)] \in CloseLabels
  BY <1>2, <1>b DEF OpenersDown
<1>3. CASE RefuseOpen(o) \/ DialFails(o)
  <2>1. Notify(o, "OPEN_ERR")
    BY <1>3 DEF RefuseOpen, DialFails
  <2> QED BY <1>b, <1>c, <2>1 DEF Notify, Written, WriteFails, Kept
<1>4. CASE RefuseDuplicate(o)
  <2>1. PICK u \in Opens : streams[SessOf[o]][IdOf[o]] = u /\ SessOf[u] = SessOf[o]
    BY <1>4, <1>a DEF RefuseDuplicate, Shape, MapOwner, OpensOf
  <2>2. IdOf[u] = IdOf[o] /\ upstream[u] # "none" /\ u # o
    BY <1>4, <1>a, <2>1 DEF RefuseDuplicate, At, Sweep, MapKeys, MapDialled
  <2> QED BY <1>e, <2>1, <2>2
<1>5. CASE UndoStore(o)
  BY <1>5, <1>b DEF UndoStore
<1>6. CASE SendOpenOk(o)
  BY <1>6, <1>c DEF SendOpenOk, Written, Kept
<1> HIDE DEF Answered, Rival
<1> QED BY <1>1, <1>2, <1>3, <1>4, <1>5, <1>6, OpenerMoves DEF OpenerMoved

\* A handleOpen that has ended in a session that is up has answered its OPEN,
\* unless it met another stream under its id.
THEOREM OpenAnsweredHolds == Spec => []OpenAnswered
<1> DEFINE Answers == MapDialled /\ OpenersDown /\ OpenAnswered
<1>1. Init => Answers
  <2> SUFFICES ASSUME Init PROVE Answers
    OBVIOUS
  <2>1. \A o \in Opens : pc[Opener(o)] = "idle"
    BY ProcNames DEF Init, Opener
  <2>2. MapDialled
    BY ConstTypes DEF Init, MapDialled
  <2> QED BY <2>1, <2>2 DEF OpenersDown, OpenAnswered, At, CloseLabels
<1>2. Shape /\ Sweep /\ Answers /\ [Next]_vars => Answers'
  <2> SUFFICES ASSUME Shape, Sweep, Answers, [Next]_vars PROVE Answers'
    OBVIOUS
  <2>1. OpenersDown'
    <3> SUFFICES ASSUME NEW o \in Opens, pc'[Opener(o)] \in CloseLabels
                 PROVE  conn'[SessOf[o]] # "up"
      BY DEF OpenersDown
    <3>1. conn[SessOf[o]] # "up"
      BY OpenerMoves DEF OpenerMoved, OpenersDown, OpenOkFails, WriteFails
    <3> QED BY <3>1, ConstTypes, Grows
  <2> QED BY <2>1, MapDialledStep, OpenAnsweredStep
<1> QED BY <1>1, <1>2, ShapeHolds, SweepHolds, PTL DEF Spec
=============================================================================
