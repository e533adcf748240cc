--------------------------- MODULE MCFlowControl ----------------------------
(* Instances of FlowControl for TLC. *)
EXTENDS FlowControl, TLC

CONSTANTS a, b

Two == {a, b}
\* Two chunks that queue together, then one as large as the window; and a whole
\* window followed by one byte.
Mixed == a :> <<2, 1, 4>> @@ b :> <<4, 1>>
=============================================================================
