------------------------------- MODULE Upload -------------------------------
(***************************************************************************)
(* What windowed flow control promises of an upload, whatever carries it:  *)
(* the chunks of Plan[u] reach the upstream in order, each once, none      *)
(* skipped, and the bytes handed over but not delivered never exceed the   *)
(* window.  An upload may end early; then nothing more is delivered.       *)
(***************************************************************************)
EXTENDS Totals

CONSTANTS
    Uploads,
    Plan,           \* [Uploads -> Seq(Nat)]: the lengths of an upload's chunks
    Window          \* v2InitialWindow

VARIABLES
    sent,           \* how many chunks of each upload were handed over
    got,            \* the chunks the upstream received, in order of arrival
    over            \* uploads that have ended

uvars == <<sent, got, over>>

\* The length of the first n chunks of an upload.
Bytes(u, n) == TotalOn(1 .. n, Plan[u])

Init ==
    /\ sent = [u \in Uploads |-> 0]
    /\ got = [u \in Uploads |-> <<>>]
    /\ over = {}

Send(u) ==
    /\ sent[u] < Len(Plan[u])
    /\ Bytes(u, sent[u] + 1) - Bytes(u, Len(got[u])) <= Window
    /\ sent' = [sent EXCEPT ![u] = @ + 1]
    /\ UNCHANGED <<got, over>>

Deliver(u) ==
    /\ u \notin over
    /\ Len(got[u]) < sent[u]
    /\ got' = [got EXCEPT ![u] = Append(@, Len(@) + 1)]
    /\ UNCHANGED <<sent, over>>

End(u) ==
    /\ over' = over \cup {u}
    /\ UNCHANGED <<sent, got>>

Next == \E u \in Uploads : Send(u) \/ Deliver(u) \/ End(u)

Spec == Init /\ [][Next]_uvars
=============================================================================
