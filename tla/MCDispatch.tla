----------------------------- MODULE MCDispatch -----------------------------
(***************************************************************************)
(* A small instance of Dispatch: two Soldiers of the Knowledge General,    *)
(* the first under one keyword and the second under two, behind its router *)
(* or that of the other Generals.                                          *)
(***************************************************************************)
EXTENDS Dispatch, TLC

CONSTANTS research, graph

TwoSoldiers == <<research, graph>>
ThreeKeywords == <<research, graph, graph>>
=============================================================================
