------------------------------ MODULE Identity ------------------------------
(***************************************************************************)
(* What a deployment is known by: its PSK, its camouflage family and the CN*)
(* of its self-signed certificate, each resolved at startup by main() from *)
(* a file of its own, or picked afresh and persisted with                  *)
(* atomicReplaceSecure (cmd/mxtr-server/main.go).  A client holds on to the*)
(* PSK and the CN it got in the share-string.                              *)
(*                                                                         *)
(* The process may be killed at any step, a read or a write of a file may  *)
(* fail, and the machine may lose power: the contents of a file survive    *)
(* that once it was synced, but the directory is never synced, so a rename *)
(* may be undone.  The temporary files have random names and are never met *)
(* again.  -psk, MXTR_PSK and -cert, which bypass a file, are left out.    *)
(***************************************************************************)
EXTENDS Naturals, Sequences

CONSTANTS
    Missing, Empty, \* a file that is not there, or has no content
    Invalid,        \* content that is not the value it should be
    MaxPicks        \* bound: random values drawn

ASSUME IdentityAssumption ==
    /\ MaxPicks \in Nat
    /\ Missing # Empty /\ Missing # Invalid /\ Empty # Invalid
    /\ {Missing, Empty, Invalid} \cap (1 .. MaxPicks) = {}

\* The files in the order main() resolves them.
Files == {"psk", "cloak", "cn"}
Sequel == [psk |-> "cloak", cloak |-> "cn", cn |-> "listen"]

\* The values drawn at random: no two of them alike.
Picks == 1 .. MaxPicks

VARIABLES
    pc,             \* "down", a file being resolved, "listen", "serving"
    step,           \* within a file: "read", "create", "fill", "rename"
    rotate,         \* -rotate-cloak on this start
    value,          \* what this process resolved for each file
    disk,           \* what the path holds
    durable,        \* what it holds after a loss of power
    tmp,            \* the content of the temporary file being written
    drawn,          \* history: values drawn so far
    saved,          \* history: the files that hold the value of this process
    issued,         \* history: the identity that clients got last, or {}
    rotated,        \* history: -rotate-cloak was given since
    lost            \* history: files that could not be read, or whose rename a
                    \* loss of power undid, since

vars == <<pc, step, rotate, value, disk, durable, tmp, drawn, saved, issued, rotated, lost>>

Init ==
    /\ pc = "down" /\ step = "read" /\ rotate = FALSE
    /\ value = [f \in Files |-> Missing]
    /\ disk \in [Files -> {Missing, Empty, Invalid}]
    /\ durable = disk
    /\ tmp = Missing
    /\ drawn = 0
    /\ saved = {}
    /\ issued = {} /\ rotated = FALSE /\ lost = {}

Start ==
    /\ pc = "down"
    /\ pc' = "psk" /\ step' = "read"
    /\ rotate' \in BOOLEAN
    /\ rotated' = (rotated \/ rotate')
    /\ value' = [f \in Files |-> Missing]
    /\ saved' = {}
    /\ UNCHANGED <<disk, durable, tmp, drawn, issued, lost>>

Proceed(f) == pc' = Sequel[f] /\ step' = "read"

\* Mutant: about the PSK as well.
RotatingAll(f) == rotate

\* -rotate-cloak is about the family and the CN.
Rotating(f) == rotate /\ f # "psk"

\* strconv.Atoi and the range, isValidHostname, hex.DecodeString and the length.
Usable(f) == disk[f] \in Picks

\* The file is read and holds a usable value.
Reuse(f) ==
    /\ pc = f /\ step = "read"
    /\ ~Rotating(f)
    /\ Usable(f)
    /\ value' = [value EXCEPT ![f] = disk[f]]
    /\ saved' = saved \cup {f}
    /\ Proceed(f)
    /\ UNCHANGED <<rotate, disk, durable, tmp, drawn, issued, rotated, lost>>

\* A PSK file with something else in it is no reason to make a new PSK.
PskIsBad ==
    /\ pc = "psk" /\ step = "read"
    /\ disk["psk"] = Invalid
    /\ pc' = "down"
    /\ UNCHANGED <<step, rotate, value, disk, durable, tmp, drawn, saved, issued, rotated, lost>>

\* Mutant: a new CN at every start.
NoValueForCn(f) == f = "cn" \/ disk[f] \in {Missing, Empty}

\* There is nothing in the file to be reused, or it is not to be reused.
NoValue(f) ==
    \/ Rotating(f)
    \/ disk[f] \in {Missing, Empty}
    \/ disk[f] = Invalid /\ f # "psk"

\* A fresh value is drawn.  Any failure of os.ReadFile, be the file missing or
\* not, counts as no value.
Pick(f, readFails) ==
    /\ pc = f /\ step = "read"
    /\ IF readFails THEN ~Rotating(f) ELSE NoValue(f)
    /\ drawn < MaxPicks
    /\ drawn' = drawn + 1
    /\ value' = [value EXCEPT ![f] = drawn + 1]
    /\ step' = "create"
    /\ lost' = IF readFails THEN lost \cup {f} ELSE lost
    /\ UNCHANGED <<pc, rotate, disk, durable, tmp, saved, issued, rotated>>

-----------------------------------------------------------------------------
(* atomicReplaceSecure and writeFileSecure *)

\* Mutant: the path itself is created, and filled by a later step.
CreateInPlace(f) ==
    /\ pc = f /\ step = "create"
    /\ tmp' = Empty
    /\ disk' = [disk EXCEPT ![f] = Invalid]
    /\ step' = "fill"
    /\ UNCHANGED <<pc, rotate, value, durable, drawn, saved, issued, rotated, lost>>

\* The new temporary file, created empty.
CreateTmp(f) ==
    /\ pc = f /\ step = "create"
    /\ tmp' = Empty
    /\ step' = "fill"
    /\ UNCHANGED <<pc, rotate, value, disk, durable, drawn, saved, issued, rotated, lost>>

\* f.Write and f.Sync
FillTmp(f) ==
    /\ pc = f /\ step = "fill"
    /\ tmp' = value[f]
    /\ step' = "rename"
    /\ UNCHANGED <<pc, rotate, value, disk, durable, drawn, saved, issued, rotated, lost>>

\* os.Rename
Rename(f) ==
    /\ pc = f /\ step = "rename"
    /\ disk' = [disk EXCEPT ![f] = tmp]
    /\ tmp' = Missing
    /\ saved' = saved \cup {f}
    /\ Proceed(f)
    /\ UNCHANGED <<rotate, value, durable, drawn, issued, rotated, lost>>

\* Any step of it fails: a warning, and the process goes on with its value.
PersistFails(f) ==
    /\ pc = f /\ step \in {"create", "fill", "rename"}
    /\ tmp' = Missing
    /\ Proceed(f)
    /\ UNCHANGED <<rotate, value, disk, durable, drawn, saved, issued, rotated, lost>>

\* The directory reaches the disk some time later.
WriteBack(f) ==
    /\ durable[f] # disk[f]
    /\ durable' = [durable EXCEPT ![f] = disk[f]]
    /\ UNCHANGED <<pc, step, rotate, value, disk, tmp, drawn, saved, issued, rotated, lost>>

-----------------------------------------------------------------------------
\* The share-string is printed, and connections are accepted.
Serve ==
    /\ pc = "listen"
    /\ pc' = "serving"
    /\ issued' = {[psk |-> value["psk"], cn |-> value["cn"], saved |-> saved]}
    /\ rotated' = FALSE /\ lost' = {}
    /\ UNCHANGED <<step, rotate, value, disk, durable, tmp, drawn, saved>>

Kill ==
    /\ pc # "down"
    /\ pc' = "down" /\ step' = "read" /\ tmp' = Missing
    /\ UNCHANGED <<rotate, value, disk, durable, drawn, saved, issued, rotated, lost>>

PowerLoss ==
    /\ pc' = "down" /\ step' = "read" /\ tmp' = Missing
    /\ disk' = durable
    /\ lost' = lost \cup {f \in Files : disk[f] # durable[f]}
    /\ UNCHANGED <<rotate, value, durable, drawn, saved, issued, rotated>>

Next ==
    \/ Start \/ PskIsBad \/ Serve \/ Kill \/ PowerLoss
    \/ \E f \in Files : \/ Reuse(f) \/ \E readFails \in BOOLEAN : Pick(f, readFails)
                        \/ CreateTmp(f) \/ FillTmp(f) \/ Rename(f) \/ PersistFails(f)
                        \/ WriteBack(f)

Spec == Init /\ [][Next]_vars

-----------------------------------------------------------------------------
(* Properties *)

\* "PSK is stable across reboots": a client that got a share-string whose PSK
\* was persisted still has the right PSK whenever the server serves again,
\* wherever starts in between were killed, with or without -rotate-cloak, unless
\* the file was lost to a failing read or to a loss of power.
PskStable ==
    [][pc' = "serving" =>
           \A i \in issued : "psk" \in i.saved \ lost => value["psk"] = i.psk]_vars

\* "restart keeps the same Subject the client's share-string SNI was issued for":
\* so does the CN, unless a start with -rotate-cloak, completed or not, came
\* between.
CnStable ==
    [][pc' = "serving" /\ pc # "serving" =>
           \A i \in issued : "cn" \in i.saved \ lost /\ ~rotated => value["cn"] = i.cn]_vars

\* atomicReplaceSecure: whenever the process is killed or the power fails, a path
\* holds what it held before or a whole new value.
NeverTorn ==
    [][\A f \in Files : disk'[f] # disk[f] => disk'[f] \in Picks \cup {durable[f]}]_vars
=============================================================================
