---------------------------- MODULE DagExecution ----------------------------
(***************************************************************************)
(* What run_graph promises its caller, with no waves, retries or workers:  *)
(* a task is begun once, after all it depends on has succeeded, ends once, *)
(* and the run is declared finished only when nothing is active and        *)
(* nothing more can be begun.  A run may also be stopped for good, or      *)
(* abandoned by its caller while tasks it had begun go on.                 *)
(***************************************************************************)
EXTENDS Naturals

CONSTANTS Task,      \* the tasks of the graph
          Graphs     \* the dependency functions considered

VARIABLES deps,      \* deps[t]: the tasks t depends on
          phase,     \* phase[t]: how far t has come
          outcome    \* what the caller of the run has been told

vars == <<deps, phase, outcome>>

Phase == {"todo", "active", "succeeded", "failed", "withdrawn"}
Outcome == {"open", "finished", "abandoned", "stopped"}

Init == /\ deps \in Graphs
        /\ phase = [t \in Task |-> "todo"]
        /\ outcome = "open"

CanBegin(t) == /\ phase[t] = "todo"
               /\ \A u \in deps[t] : phase[u] = "succeeded"

Begin(t) == /\ outcome \in {"open", "abandoned"}
            /\ CanBegin(t)
            /\ phase' = [phase EXCEPT ![t] = "active"]
            /\ UNCHANGED <<deps, outcome>>

End(t) == /\ outcome \in {"open", "abandoned"}
          /\ phase[t] = "active"
          /\ \E p \in {"succeeded", "failed"} : phase' = [phase EXCEPT ![t] = p]
          /\ UNCHANGED <<deps, outcome>>

\* A task may be called off until it has ended, by whoever holds it.
Withdraw(t) == /\ phase[t] \in {"todo", "active"}
               /\ phase' = [phase EXCEPT ![t] = "withdrawn"]
               /\ UNCHANGED <<deps, outcome>>

Finish == /\ outcome = "open"
          /\ \A t \in Task : phase[t] # "active" /\ ~ CanBegin(t)
          /\ outcome' = "finished"
          /\ UNCHANGED <<deps, phase>>

GiveUp == /\ outcome = "open"
          /\ \E o \in {"abandoned", "stopped"} : outcome' = o
          /\ UNCHANGED <<deps, phase>>

Next == \/ \E t \in Task : Begin(t) \/ End(t) \/ Withdraw(t)
        \/ Finish
        \/ GiveUp

Spec == Init /\ [][Next]_vars
=============================================================================
