---------------------------- MODULE MCStreamMux -----------------------------
(***************************************************************************)
(* Small instances of StreamMux.                                           *)
(***************************************************************************)
EXTENDS StreamMux, TLC

CONSTANTS o1, o2, s1, s2, i1

\* Two streams of one session, each with its own id (ids are the OPENs).
OneSession == [o \in Opens |-> s1]
OwnId == [o \in Opens |-> o]

\* Two sessions with one stream each, which share the process-wide budget.
TwoSessions == [o \in Opens |-> IF o = o1 THEN s1 ELSE s2]

\* Every OPEN carries the same id.
SameId == [o \in Opens |-> i1]

OpenSymmetry == Permutations(Opens)
=============================================================================
