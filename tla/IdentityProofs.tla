--------------------------- MODULE IdentityProofs ---------------------------
(***************************************************************************)
(* Proofs about Identity, for any number of starts, kills, losses of power *)
(* and values drawn: a path never holds half a value (NeverTorn), and the  *)
(* PSK and the CN that a client was given outlive restarts (PskStable,     *)
(* CnStable).                                                              *)
(*                                                                         *)
(* The inductive invariant IdInv: what is being written is the value of    *)
(* the process (Writing); main() goes through the files in order, and the  *)
(* path of a file it has saved holds its value (Saved); a start with       *)
(* -rotate-cloak is remembered (Rotation); and the path of what a client   *)
(* holds on to is as it was given, so that main() never leaves "read" for  *)
(* it and resolves the same value (PskKept, CnKept).                       *)
(***************************************************************************)
EXTENDS Identity, TLAPS

Contents == {Missing, Empty, Invalid} \cup Picks

Types ==
    /\ pc \in {"down", "psk", "cloak", "cn", "listen", "serving"}
    /\ step \in {"read", "create", "fill", "rename"}
    /\ rotate \in BOOLEAN /\ rotated \in BOOLEAN
    /\ value \in [Files -> Contents]
    /\ disk \in [Files -> Contents]
    /\ durable \in [Files -> Contents]
    /\ drawn \in 0 .. MaxPicks
    /\ saved \subseteq Files
    /\ issued \subseteq [psk : Contents, cn : Contents, saved : SUBSET Files]

\* After the draw the value is a whole one, and so is the file to be renamed.
Writing ==
    /\ step # "read" => pc \in Files /\ value[pc] \in Picks
    /\ step = "rename" => tmp = value[pc]

\* The files that main() has resolved when it is at pc.
Resolved ==
    CASE pc = "cloak" -> {"psk"}
      [] pc = "cn" -> {"psk", "cloak"}
      [] pc \in {"listen", "serving"} -> Files
      [] OTHER -> {}

Saved ==
    pc # "down" =>
        /\ saved \subseteq Resolved
        /\ \A f \in saved : disk[f] = value[f] /\ value[f] \in Picks

\* Until it serves, a process with -rotate-cloak is remembered as such.
Rotation == rotate /\ pc \in Files \cup {"listen"} => rotated

\* File f of a client's identity, with the value v it was given: the path still
\* holds it, and the process at work reads it there.
Kept(f, v) ==
    /\ v \in Picks /\ disk[f] = v
    /\ pc = f => step = "read"
    /\ f \in Resolved => value[f] = v

PskKept == \A i \in issued : "psk" \in i.saved \ lost => Kept("psk", i.psk)

CnKept == \A i \in issued : "cn" \in i.saved \ lost /\ ~rotated => Kept("cn", i.cn)

IdInv == Types /\ Writing /\ Saved /\ Rotation /\ PskKept /\ CnKept

-----------------------------------------------------------------------------
(* The steps *)

\* None of the contents without a value is a value.
LEMMA NoPick == Missing \notin Picks /\ Empty \notin Picks /\ Invalid \notin Picks
BY IdentityAssumption DEF Picks

\* The invariant holds before the first start.
LEMMA IdInit == Init => IdInv
<1> SUFFICES ASSUME Init PROVE IdInv
  OBVIOUS
<1>1. Types
  <2>1. \A c \in {Missing, Empty, Invalid} : c \in Contents
    BY DEF Contents
  <2>2. value \in [Files -> Contents] /\ disk \in [Files -> Contents]
    BY <2>1 DEF Init
  <2>3. drawn \in 0 .. MaxPicks
    BY IdentityAssumption DEF Init
  <2> QED BY <2>2, <2>3 DEF Init, Types
<1>2. Writing /\ Saved /\ Rotation
  BY DEF Init, Writing, Saved, Rotation, Files
<1>3. PskKept /\ CnKept
  BY DEF Init, PskKept, CnKept
<1> QED BY <1>1, <1>2, <1>3 DEF IdInv

\* A start forgets what an earlier process resolved.
LEMMA StartStep ==
    ASSUME IdInv, Start
    PROVE  IdInv'
<1>1. Types'
  BY IdentityAssumption DEF IdInv, Types, Writing, Contents, Picks, Files, Start
<1>2. Writing'
  BY DEF IdInv, Types, Writing, Picks, Files, Start
<1>3. Saved'
  BY NoPick DEF IdInv, Types, Writing, Saved, Resolved, Files, Start
<1>4. Rotation'
  BY DEF IdInv, Types, Rotation, Files, Start
<1>5. PskKept'
  BY NoPick DEF IdInv, Types, Saved, PskKept, Kept, Resolved, Files, Start
<1>6. CnKept'
  BY NoPick DEF IdInv, Types, Saved, Rotation, CnKept, Kept, Resolved, Files, Start
<1> QED BY <1>1, <1>2, <1>3, <1>4, <1>5, <1>6 DEF IdInv

\* A usable value on disk is taken over.
LEMMA ReuseStep ==
    ASSUME IdInv, NEW f \in Files, Reuse(f)
    PROVE  IdInv'
<1>1. Types'
  BY IdentityAssumption DEF IdInv, Types, Writing, Contents, Picks, Files, Reuse, Proceed, Usable, Rotating, Sequel
<1>2. Writing'
  BY DEF IdInv, Types, Writing, Picks, Files, Reuse, Proceed, Usable, Rotating, Sequel
<1>3. Saved'
  BY NoPick DEF IdInv, Types, Writing, Saved, Resolved, Files, Reuse, Proceed, Usable, Rotating, Sequel
<1>4. Rotation'
  BY DEF IdInv, Types, Rotation, Files, Reuse, Proceed, Usable, Rotating, Sequel
<1>5. PskKept'
  BY NoPick DEF IdInv, Types, Saved, PskKept, Kept, Resolved, Files, Reuse, Proceed, Usable, Rotating, Sequel
<1>6. CnKept'
  BY NoPick DEF IdInv, Types, Saved, Rotation, CnKept, Kept, Resolved, Files, Reuse, Proceed, Usable, Rotating, Sequel
<1> QED BY <1>1, <1>2, <1>3, <1>4, <1>5, <1>6 DEF IdInv

\* A PSK file that is no PSK ends the start.
LEMMA PskIsBadStep ==
    ASSUME IdInv, PskIsBad
    PROVE  IdInv'
<1>1. Types'
  BY IdentityAssumption DEF IdInv, Types, Writing, Contents, Picks, Files, PskIsBad
<1>2. Writing'
  BY DEF IdInv, Types, Writing, Picks, Files, PskIsBad
<1>3. Saved'
  BY NoPick DEF IdInv, Types, Writing, Saved, Resolved, Files, PskIsBad
<1>4. Rotation'
  BY DEF IdInv, Types, Rotation, Files, PskIsBad
<1>5. PskKept'
  BY NoPick DEF IdInv, Types, Saved, PskKept, Kept, Resolved, Files, PskIsBad
<1>6. CnKept'
  BY NoPick DEF IdInv, Types, Saved, Rotation, CnKept, Kept, Resolved, Files, PskIsBad
<1> QED BY <1>1, <1>2, <1>3, <1>4, <1>5, <1>6 DEF IdInv

\* A fresh value is drawn only where there is none to keep, or the file is lost.
LEMMA PickStep ==
    ASSUME IdInv, NEW f \in Files, NEW readFails \in BOOLEAN, Pick(f, readFails)
    PROVE  IdInv'
<1>1. Types'
  BY IdentityAssumption DEF IdInv, Types, Writing, Contents, Picks, Files, Pick, NoValue, Rotating
<1>2. Writing'
  <2>1. drawn + 1 \in Picks
    BY IdentityAssumption DEF IdInv, Types, Picks, Pick
  <2>2. pc' = f /\ step' = "create" /\ value'[f] = drawn + 1
    BY DEF IdInv, Types, Pick
  <2> QED BY <2>1, <2>2 DEF Writing
<1>3. Saved'
  BY NoPick DEF IdInv, Types, Writing, Saved, Resolved, Files, Pick, NoValue, Rotating
<1>4. Rotation'
  BY DEF IdInv, Types, Rotation, Files, Pick, NoValue, Rotating
<1>5. PskKept'
  BY NoPick DEF IdInv, Types, Saved, PskKept, Kept, Resolved, Files, Pick, NoValue, Rotating
<1>6. CnKept'
  BY NoPick DEF IdInv, Types, Saved, Rotation, CnKept, Kept, Resolved, Files, Pick, NoValue, Rotating
<1> QED BY <1>1, <1>2, <1>3, <1>4, <1>5, <1>6 DEF IdInv

\* The temporary file leaves the path alone.
LEMMA CreateTmpStep ==
    ASSUME IdInv, NEW f \in Files, CreateTmp(f)
    PROVE  IdInv'
<1>1. Types'
  BY IdentityAssumption DEF IdInv, Types, Writing, Contents, Picks, Files, CreateTmp
<1>2. Writing'
  BY DEF IdInv, Types, Writing, Picks, Files, CreateTmp
<1>3. Saved'
  BY NoPick DEF IdInv, Types, Writing, Saved, Resolved, Files, CreateTmp
<1>4. Rotation'
  BY DEF IdInv, Types, Rotation, Files, CreateTmp
<1>5. PskKept'
  BY NoPick DEF IdInv, Types, Saved, PskKept, Kept, Resolved, Files, CreateTmp
<1>6. CnKept'
  BY NoPick DEF IdInv, Types, Saved, Rotation, CnKept, Kept, Resolved, Files, CreateTmp
<1> QED BY <1>1, <1>2, <1>3, <1>4, <1>5, <1>6 DEF IdInv

\* So does what is written to it.
LEMMA FillTmpStep ==
    ASSUME IdInv, NEW f \in Files, FillTmp(f)
    PROVE  IdInv'
<1>1. Types'
  BY IdentityAssumption DEF IdInv, Types, Writing, Contents, Picks, Files, FillTmp
<1>2. Writing'
  BY DEF IdInv, Types, Writing, Picks, Files, FillTmp
<1>3. Saved'
  BY NoPick DEF IdInv, Types, Writing, Saved, Resolved, Files, FillTmp
<1>4. Rotation'
  BY DEF IdInv, Types, Rotation, Files, FillTmp
<1>5. PskKept'
  BY NoPick DEF IdInv, Types, Saved, PskKept, Kept, Resolved, Files, FillTmp
<1>6. CnKept'
  BY NoPick DEF IdInv, Types, Saved, Rotation, CnKept, Kept, Resolved, Files, FillTmp
<1> QED BY <1>1, <1>2, <1>3, <1>4, <1>5, <1>6 DEF IdInv

\* The rename puts the value of the process at the path.
LEMMA RenameStep ==
    ASSUME IdInv, NEW f \in Files, Rename(f)
    PROVE  IdInv'
<1>1. Types'
  BY IdentityAssumption DEF IdInv, Types, Writing, Contents, Picks, Files, Rename, Proceed, Sequel
<1>2. Writing'
  BY DEF IdInv, Types, Writing, Picks, Files, Rename, Proceed, Sequel
<1>3. Saved'
  BY NoPick DEF IdInv, Types, Writing, Saved, Resolved, Files, Rename, Proceed, Sequel
<1>4. Rotation'
  BY DEF IdInv, Types, Rotation, Files, Rename, Proceed, Sequel
<1>5. PskKept'
  BY NoPick DEF IdInv, Types, Saved, PskKept, Kept, Resolved, Files, Rename, Proceed, Sequel
<1>6. CnKept'
  BY NoPick DEF IdInv, Types, Saved, Rotation, CnKept, Kept, Resolved, Files, Rename, Proceed, Sequel
<1> QED BY <1>1, <1>2, <1>3, <1>4, <1>5, <1>6 DEF IdInv

\* If that fails the path stays, and main() goes on.
LEMMA PersistFailsStep ==
    ASSUME IdInv, NEW f \in Files, PersistFails(f)
    PROVE  IdInv'
<1>1. Types'
  BY IdentityAssumption DEF IdInv, Types, Writing, Contents, Picks, Files, PersistFails, Proceed, Sequel
<1>2. Writing'
  BY DEF IdInv, Types, Writing, Picks, Files, PersistFails, Proceed, Sequel
<1>3. Saved'
  BY NoPick DEF IdInv, Types, Writing, Saved, Resolved, Files, PersistFails, Proceed, Sequel
<1>4. Rotation'
  BY DEF IdInv, Types, Rotation, Files, PersistFails, Proceed, Sequel
<1>5. PskKept'
  BY NoPick DEF IdInv, Types, Saved, PskKept, Kept, Resolved, Files, PersistFails, Proceed, Sequel
<1>6. CnKept'
  BY NoPick DEF IdInv, Types, Saved, Rotation, CnKept, Kept, Resolved, Files, PersistFails, Proceed, Sequel
<1> QED BY <1>1, <1>2, <1>3, <1>4, <1>5, <1>6 DEF IdInv

\* The directory reaches the disk.
LEMMA WriteBackStep ==
    ASSUME IdInv, NEW f \in Files, WriteBack(f)
    PROVE  IdInv'
<1>1. Types'
  BY IdentityAssumption DEF IdInv, Types, Writing, Contents, Picks, Files, WriteBack
<1>2. Writing'
  BY DEF IdInv, Types, Writing, Picks, Files, WriteBack
<1>3. Saved'
  BY NoPick DEF IdInv, Types, Writing, Saved, Resolved, Files, WriteBack
<1>4. Rotation'
  BY DEF IdInv, Types, Rotation, Files, WriteBack
<1>5. PskKept'
  BY NoPick DEF IdInv, Types, Saved, PskKept, Kept, Resolved, Files, WriteBack
<1>6. CnKept'
  BY NoPick DEF IdInv, Types, Saved, Rotation, CnKept, Kept, Resolved, Files, WriteBack
<1> QED BY <1>1, <1>2, <1>3, <1>4, <1>5, <1>6 DEF IdInv

\* Clients are given what the process resolved.
LEMMA ServeStep ==
    ASSUME IdInv, Serve
    PROVE  IdInv'
<1>1. Types'
  <2>1. value["psk"] \in Contents /\ value["cn"] \in Contents /\ saved \subseteq Files
    BY DEF IdInv, Types, Files
  <2>2. issued' \subseteq [psk : Contents, cn : Contents, saved : SUBSET Files]
    BY <2>1 DEF Serve
  <2> QED BY <2>2 DEF IdInv, Types, Serve, Contents
<1>2. Writing'
  BY DEF IdInv, Types, Writing, Picks, Files, Serve
<1>3. Saved'
  BY NoPick DEF IdInv, Types, Writing, Saved, Resolved, Files, Serve
<1>4. Rotation'
  BY DEF IdInv, Types, Rotation, Files, Serve
<1>5. PskKept'
  BY NoPick DEF IdInv, Types, Saved, PskKept, Kept, Resolved, Files, Serve
<1>6. CnKept'
  BY NoPick DEF IdInv, Types, Saved, Rotation, CnKept, Kept, Resolved, Files, Serve
<1> QED BY <1>1, <1>2, <1>3, <1>4, <1>5, <1>6 DEF IdInv

\* The process is killed.
LEMMA KillStep ==
    ASSUME IdInv, Kill
    PROVE  IdInv'
<1>1. Types'
  BY IdentityAssumption DEF IdInv, Types, Writing, Contents, Picks, Files, Kill
<1>2. Writing'
  BY DEF IdInv, Types, Writing, Picks, Files, Kill
<1>3. Saved'
  BY NoPick DEF IdInv, Types, Writing, Saved, Resolved, Files, Kill
<1>4. Rotation'
  BY DEF IdInv, Types, Rotation, Files, Kill
<1>5. PskKept'
  BY NoPick DEF IdInv, Types, Saved, PskKept, Kept, Resolved, Files, Kill
<1>6. CnKept'
  BY NoPick DEF IdInv, Types, Saved, Rotation, CnKept, Kept, Resolved, Files, Kill
<1> QED BY <1>1, <1>2, <1>3, <1>4, <1>5, <1>6 DEF IdInv

\* A loss of power undoes renames, which are then remembered as lost.
LEMMA PowerLossStep ==
    ASSUME IdInv, PowerLoss
    PROVE  IdInv'
<1>1. Types'
  BY IdentityAssumption DEF IdInv, Types, Writing, Contents, Picks, Files, PowerLoss
<1>2. Writing'
  BY DEF IdInv, Types, Writing, Picks, Files, PowerLoss
<1>3. Saved'
  BY NoPick DEF IdInv, Types, Writing, Saved, Resolved, Files, PowerLoss
<1>4. Rotation'
  BY DEF IdInv, Types, Rotation, Files, PowerLoss
<1>5. PskKept'
  BY NoPick DEF IdInv, Types, Saved, PskKept, Kept, Resolved, Files, PowerLoss
<1>6. CnKept'
  BY NoPick DEF IdInv, Types, Saved, Rotation, CnKept, Kept, Resolved, Files, PowerLoss
<1> QED BY <1>1, <1>2, <1>3, <1>4, <1>5, <1>6 DEF IdInv

-----------------------------------------------------------------------------
(* The theorems *)

\* In every reachable state, what clients hold on to is at its path unless it was
\* lost or rotated.
THEOREM IdInvHolds == Spec => []IdInv
<1>1. IdInv /\ [Next]_vars => IdInv'
  <2> SUFFICES ASSUME IdInv, [Next]_vars PROVE IdInv'
    OBVIOUS
  <2>1. CASE Next
    BY <2>1, StartStep, ReuseStep, PskIsBadStep, PickStep, CreateTmpStep, FillTmpStep,
       RenameStep, PersistFailsStep, WriteBackStep, ServeStep, KillStep, PowerLossStep DEF Next
  <2>2. CASE UNCHANGED vars
    BY <2>2 DEF vars, IdInv, Types, Writing, Saved, Rotation, PskKept, CnKept, Kept, Resolved,
       Contents
  <2> QED BY <2>1, <2>2
<1> QED BY <1>1, IdInit, PTL DEF Spec

\* Whenever the server serves, it serves the PSK it gave out, if that was saved
\* and not lost since, through any number of restarts and kills.
THEOREM PskStableHolds == Spec => PskStable
<1>1. IdInv /\ [Next]_vars =>
          [pc' = "serving" =>
              \A i \in issued : "psk" \in i.saved \ lost => value["psk"] = i.psk]_vars
  <2> SUFFICES ASSUME IdInv, Next, pc' = "serving",
                      NEW i \in issued, "psk" \in i.saved \ lost
               PROVE  value["psk"] = i.psk
    OBVIOUS
  <2>1. pc \in {"listen", "serving"}
    BY DEF Next, Start, Reuse, PskIsBad, Pick, CreateTmp, FillTmp, Rename, PersistFails,
       WriteBack, Serve, Kill, PowerLoss, Proceed, Sequel, Files
  <2> QED BY <2>1 DEF IdInv, PskKept, Kept, Resolved, Files
<1> QED BY <1>1, IdInvHolds, PTL DEF Spec, PskStable

\* Likewise the CN, unless a start with -rotate-cloak came between.
THEOREM CnStableHolds == Spec => CnStable
<1>1. IdInv /\ [Next]_vars =>
          [pc' = "serving" /\ pc # "serving" =>
              \A i \in issued : "cn" \in i.saved \ lost /\ ~rotated => value["cn"] = i.cn]_vars
  <2> SUFFICES ASSUME IdInv, Next, pc' = "serving", pc # "serving",
                      NEW i \in issued, "cn" \in i.saved \ lost, ~rotated
               PROVE  value["cn"] = i.cn
    OBVIOUS
  <2>1. pc = "listen"
    BY DEF Next, Start, Reuse, PskIsBad, Pick, CreateTmp, FillTmp, Rename, PersistFails,
       WriteBack, Serve, Kill, PowerLoss, Proceed, Sequel, Files
  <2> QED BY <2>1 DEF IdInv, CnKept, Kept, Resolved, Files
<1> QED BY <1>1, IdInvHolds, PTL DEF Spec, CnStable

\* No step of atomicReplaceSecure, no kill and no loss of power leaves anything at
\* a path but what was there, what was durable, or a whole value.
THEOREM NeverTornHolds == Spec => NeverTorn
<1>1. IdInv /\ [Next]_vars =>
          [\A f \in Files : disk'[f] # disk[f] => disk'[f] \in Picks \cup {durable[f]}]_vars
  <2> SUFFICES ASSUME IdInv, Next, NEW f \in Files, disk'[f] # disk[f]
               PROVE  disk'[f] \in Picks \cup {durable[f]}
    OBVIOUS
  <2>1. CASE PowerLoss
    BY <2>1 DEF PowerLoss
  <2>2. ASSUME NEW g \in Files, Rename(g) PROVE disk'[f] \in Picks
    BY <2>2 DEF IdInv, Types, Writing, Rename
  <2>3. PowerLoss \/ \E g \in Files : Rename(g)
    BY DEF Next, Start, Reuse, PskIsBad, Pick, CreateTmp, FillTmp, PersistFails,
       WriteBack, Serve, Kill
  <2> QED BY <2>1, <2>2, <2>3
<1> QED BY <1>1, IdInvHolds, PTL DEF Spec, NeverTorn
=============================================================================
