--------------------------- MODULE MCTaskManager ---------------------------
(***************************************************************************)
(* Small instances of TaskManager: every dependency function over three    *)
(* tasks, cyclic ones included.                                            *)
(***************************************************************************)
EXTENDS TaskManager, TLC

CONSTANTS t1, t2, t3

AllGraphs == [Task -> SUBSET Task]

\* One task that gets a single attempt beside one with two and one with the
\* default of three.
UnevenAttempts == (t1 :> 1 @@ t2 :> 2 @@ t3 :> 3)
=============================================================================
