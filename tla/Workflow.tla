------------------------------ MODULE Workflow ------------------------------
(***************************************************************************)
(* The workflow engine (backend/core/workflow_engine/engine.py) on one run *)
(* of one workflow: run, and resume as often as anybody calls it.          *)
(*                                                                         *)
(* A pass is one execution of _execute; a step suspends it.  What a        *)
(* condition or a loop says of the state is left open.  The state is the   *)
(* set of the steps that have left their mark on it.                       *)
(***************************************************************************)
EXTENDS Naturals

CONSTANTS Pass,      \* the calls of run and resume
          Length,    \* how many steps the workflow has
          MaxLoops   \* Step.max_loops

ASSUME WorkflowAssumption == Length \in Nat \ {0} /\ MaxLoops \in Nat

VARIABLES status,   \* WorkflowRun.status
          cursor,   \* WorkflowRun.cursor, the steps numbered from 1
          marks,    \* WorkflowRun.state: the steps whose mark it bears
          error,    \* WorkflowRun.state: whether it bears _error
          pass,     \* where each pass stands
          over,     \* history: steps some pass has put behind it
          skipped,  \* history: steps some pass has skipped
          shared    \* history: two passes have been under way at once

workflowVars == <<status, cursor, marks, error, pass, over, skipped, shared>>

Step == 1 .. Length
Before(n) == 1 .. n - 1
Under == {p \in Pass : pass[p].at \in {"head", "await"}}

WorkflowInit ==
    /\ status = "pending" /\ cursor = 1 /\ marks = {} /\ error = FALSE
    /\ pass = [p \in Pass |-> [at |-> "new", step |-> 0, took |-> {}, loops |-> 0]]
    /\ over = {} /\ skipped = {} /\ shared = FALSE

\* run, the first time, and resume: neither looks at the status.
Execute(p) ==
    /\ pass[p].at = "new"
    /\ status' = "running"
    /\ pass' = [pass EXCEPT ![p].at = "head", ![p].step = cursor]
    /\ shared' = (shared \/ Under # {})
    /\ UNCHANGED <<cursor, marks, error, over, skipped>>

\* The next step of the range, or the end of it.
Advance(p) == [pass EXCEPT ![p] = [at |-> "head", step |-> @.step + 1, took |-> {}, loops |-> 0]]

\* The pass is over, and what it took with it is forgotten.
Leave(p, how) == [pass EXCEPT ![p] = [at |-> how, step |-> 0, took |-> {}, loops |-> 0]]

\* The cursor is moved past the step before the step is run.
BeginStepAhead(p) ==
    /\ pass[p].at = "head" /\ pass[p].step \in Step
    /\ cursor' = pass[p].step + 1
    /\ pass' = [pass EXCEPT ![p].at = "await", ![p].took = marks]
    /\ UNCHANGED <<status, marks, error, over, skipped, shared>>

\* The step hands itself the state there is, and awaits.
BeginStep(p) ==
    /\ pass[p].at = "head" /\ pass[p].step \in Step
    /\ cursor' = pass[p].step
    /\ pass' = [pass EXCEPT ![p].at = "await", ![p].took = marks]
    /\ UNCHANGED <<status, marks, error, over, skipped, shared>>

\* The condition says no.
SkipStep(p) ==
    /\ pass[p].at = "head" /\ pass[p].step \in Step
    /\ cursor' = pass[p].step
    /\ over' = over \cup {pass[p].step}
    /\ skipped' = skipped \cup {pass[p].step}
    /\ pass' = Advance(p)
    /\ UNCHANGED <<status, marks, error, shared>>

\* What a step returns: a new state made from the one it took, or the one object
\* it and everyone else has changed in place.
Returns(p) == {pass[p].took \cup {pass[p].step}, marks \cup {pass[p].step}}

\* The step is done and not to be repeated.
EndStep(p) ==
    /\ pass[p].at = "await"
    /\ marks' \in Returns(p)
    /\ over' = over \cup {pass[p].step}
    /\ pass' = Advance(p)
    /\ UNCHANGED <<status, cursor, error, skipped, shared>>

\* loop_while says yes.
Repeat(p) ==
    /\ pass[p].at = "await" /\ pass[p].loops < MaxLoops
    /\ marks' \in Returns(p)
    /\ pass' = [pass EXCEPT ![p].took = marks', ![p].loops = @ + 1]
    /\ UNCHANGED <<status, cursor, error, over, skipped, shared>>

Fail(p) == /\ status' = "failed"
           /\ error' = TRUE
           /\ pass' = Leave(p, "failed")

\* The step raises; what it has changed in place stays.
StepRaises(p) ==
    /\ pass[p].at = "await"
    /\ marks' \in {marks} \cup Returns(p)
    /\ Fail(p)
    /\ UNCHANGED <<cursor, over, skipped, shared>>

\* loop_while says yes once too often.
LoopsExceeded(p) ==
    /\ pass[p].at = "await" /\ pass[p].loops = MaxLoops
    /\ marks' \in Returns(p)
    /\ Fail(p)
    /\ UNCHANGED <<cursor, over, skipped, shared>>

Completed(p) ==
    /\ pass[p].at = "head" /\ pass[p].step > Length
    /\ cursor' = Length + 1
    /\ status' = "completed"
    /\ pass' = Leave(p, "completed")
    /\ UNCHANGED <<marks, error, over, skipped, shared>>

\* CancelledError is not an Exception: the status stays what it is.
CancelPass(p) ==
    /\ pass[p].at = "await"
    /\ marks' \in {marks} \cup Returns(p)
    /\ pass' = Leave(p, "cancelled")
    /\ UNCHANGED <<status, cursor, error, over, skipped, shared>>

WorkflowNext ==
    \E p \in Pass :
        \/ Execute(p) \/ BeginStep(p) \/ SkipStep(p) \/ EndStep(p) \/ Repeat(p)
        \/ StepRaises(p) \/ LoopsExceeded(p) \/ Completed(p) \/ CancelPass(p)

WorkflowSpec == WorkflowInit /\ [][WorkflowNext]_workflowVars

-----------------------------------------------------------------------------
WorkflowTypeOK ==
    /\ status \in {"pending", "running", "completed", "failed"}
    /\ cursor \in 1 .. Length + 1
    /\ marks \subseteq Step /\ over \subseteq Step /\ skipped \subseteq Step
    /\ error \in BOOLEAN /\ shared \in BOOLEAN
    /\ pass \in [Pass -> [at : {"new", "head", "await", "completed", "failed", "cancelled"},
                          step : 0 .. Length + 1, took : SUBSET Step, loops : 0 .. MaxLoops]]

\* No step is left out, however often the run failed, was cancelled or resumed,
\* even if two resumes walk it side by side: what stands before the cursor or
\* before a pass has been done or skipped.
NothingLeftOut ==
    /\ Before(cursor) \subseteq over
    /\ \A p \in Under : Before(pass[p].step) \subseteq over
    /\ status = "completed" => over = Step

\* And as long as nobody resumes a run that is still under way, no step that is
\* done is done again, the state bears the mark of every step that was not
\* skipped, and the status is that of the last pass.
ResumesWhereItStood ==
    ~ shared =>
        /\ \A p \in Pass : pass[p].at = "await" => pass[p].step \notin over
        /\ over \ skipped \subseteq marks
        /\ status = "failed" => error /\ Under = {}
        /\ status = "completed" => cursor = Length + 1 /\ Under = {}
        /\ status = "running" /\ Under = {} => \E p \in Pass : pass[p].at = "cancelled"

\* "Persisted after each step so a run can be resumed" (engine.py:4), as far as
\* the code bears it out.
StepsInOrder == NothingLeftOut /\ ResumesWhereItStood

=============================================================================
