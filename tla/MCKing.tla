------------------------------- MODULE MCKing -------------------------------
(***************************************************************************)
(* Small instances of King: two requests in parallel, one with a single    *)
(* subtask and one with two, the second after the first.                   *)
(***************************************************************************)
EXTENDS King, TLC

CONSTANTS r1, r2, t1, t2

TwoAndOne == (r1 :> {t1, t2} @@ r2 :> {t1})
TwoAndOnePlans == (r1 :> {(t1 :> {} @@ t2 :> {t1})} @@ r2 :> {(t1 :> {})})

OneEach == [r \in Request |-> {t1}]
OneEachPlans == [r \in Request |-> {(t1 :> {})}]
=============================================================================
