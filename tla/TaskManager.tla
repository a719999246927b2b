----------------------------- MODULE TaskManager -----------------------------
(***************************************************************************)
(* TaskManager.run_graph over one TaskGraph                                *)
(* (backend/core/task_manager/tasks.py).                                   *)
(*                                                                         *)
(* asyncio runs one coroutine at a time and switches only where an await   *)
(* really suspends, so one action is one stretch of code between two such  *)
(* awaits: the gather of a wave, the executor call, the backoff sleep.     *)
(* EventBus.publish never suspends (its queues are unbounded), so an       *)
(* emitted event belongs to the step that emits it.                        *)
(*                                                                         *)
(* The executor is the environment: it answers or raises.  Two more        *)
(* environment steps matter: the coroutine awaiting run_graph is cancelled *)
(* (the client of a streamed request leaves), and somebody holding a Task  *)
(* moves it to CANCELLED with the public TaskManager.transition.           *)
(***************************************************************************)
EXTENDS Naturals, Sequences, FiniteSets

CONSTANTS Task,         \* the tasks of the graph (its dict of ids)
          Graphs,       \* the dependency functions considered
          MaxAttempts,  \* Task.max_attempts of each task
          Cancellable   \* tasks somebody may move to CANCELLED

ASSUME GraphsAssumption == Graphs \subseteq [Task -> SUBSET Task]
ASSUME MaxAttemptsAssumption == MaxAttempts \in [Task -> Nat \ {0}]
ASSUME CancellableAssumption == Cancellable \subseteq Task

VARIABLES dependsOn,  \* Task.depends_on
          status,     \* Task.status
          attempts,   \* Task.attempts
          worker,     \* where the _run_one coroutine of each task stands
          runner,     \* where run_graph stands
          emitted     \* history: the topics emitted for each task, in order

vars == <<dependsOn, status, attempts, worker, runner, emitted>>

Status == {"pending", "assigned", "running", "completed", "failed", "cancelled"}
Worker == {"none",       \* no coroutine yet
           "created",    \* wrapped in an asyncio task, first step not taken
           "executing",  \* suspended in the executor
           "backoff",    \* suspended in the backoff sleep
           "returned", "raised", "cancelled"}
Runner == {"called", "gathering", "returned", "rejected", "raised", "cancelled"}
Topic == {"task.assigned", "task.completed", "task.dead_letter"}

TypeOK ==
    /\ dependsOn \in [Task -> SUBSET Task]
    /\ status \in [Task -> Status]
    /\ attempts \in [Task -> Nat]
    /\ worker \in [Task -> Worker]
    /\ runner \in Runner
    /\ emitted \in [Task -> Seq(Topic)]

Live == {"created", "executing", "backoff"}

-----------------------------------------------------------------------------
(* The graph.                                                              *)

\* topological_order raises on a cycle: every non-empty set of tasks has one
\* that depends on nothing in the set.
Acyclic == \A S \in SUBSET Task :
              S # {} => \E t \in S : dependsOn[t] \cap S = {}

Done == {t \in Task : status[t] = "completed"}

\* Off by one level: a started dependency is taken for a finished one.
ReadyOnceStarted ==
    {t \in Task : /\ status[t] = "pending"
                  /\ \A u \in dependsOn[t] : status[u] # "pending"}

\* A failed task is offered again with the next wave.
ReadyWithFailed ==
    {t \in Task : /\ status[t] \in {"pending", "failed"}
                  /\ dependsOn[t] \subseteq Done}

Ready == {t \in Task : status[t] = "pending" /\ dependsOn[t] \subseteq Done}

Complete == \A t \in Task : status[t] \in {"completed", "cancelled"}

-----------------------------------------------------------------------------
(* The life cycle.                                                         *)

Transitions ==
    [pending   |-> {"assigned", "cancelled"},
     assigned  |-> {"running", "cancelled"},
     running   |-> {"completed", "failed", "cancelled"},
     failed    |-> {"assigned"},
     completed |-> {},
     cancelled |-> {}]

\* transition() lets the task through the statuses of path one after the other.
CanMove(t, path) ==
    LET at == <<status[t]>> \o path
    IN  \A i \in 1 .. Len(path) : at[i + 1] \in Transitions[at[i]]

Init == /\ dependsOn \in Graphs
        /\ status = [t \in Task |-> "pending"]
        /\ attempts = [t \in Task |-> 0]
        /\ worker = [t \in Task |-> "none"]
        /\ runner = "called"
        /\ emitted = [t \in Task |-> <<>>]

-----------------------------------------------------------------------------
(* run_graph.                                                              *)

Reject == /\ runner = "called"
          /\ ~ Acyclic
          /\ runner' = "rejected"
          /\ UNCHANGED <<dependsOn, status, attempts, worker, emitted>>

\* gather lets go of the wave as soon as one worker is through.
AtLoopHeadEarly == \/ runner = "called" /\ Acyclic
                   \/ /\ runner = "gathering"
                      /\ \E t \in Task : worker[t] = "returned"

\* The while test is evaluated: first after validation, then whenever the
\* gather of a wave has seen all its workers return.
AtLoopHead == \/ runner = "called" /\ Acyclic
              \/ /\ runner = "gathering"
                 /\ \A t \in Task : worker[t] \in {"none", "returned"}

\* gather wraps a coroutine around every ready task; none has run yet.
StartWave == /\ AtLoopHead
             /\ ~ Complete
             /\ Ready # {}
             /\ worker' = [t \in Task |->
                             IF t \in Ready THEN "created" ELSE worker[t]]
             /\ runner' = "gathering"
             /\ UNCHANGED <<dependsOn, status, attempts, emitted>>

\* All complete, or blocked behind a task that failed or was cancelled.
Return == /\ AtLoopHead
          /\ Complete \/ Ready = {}
          /\ runner' = "returned"
          /\ UNCHANGED <<dependsOn, status, attempts, worker, emitted>>

\* gather raises the first exception to its caller and leaves the other
\* workers running.
Raise == /\ runner = "gathering"
         /\ \E t \in Task : worker[t] = "raised"
         /\ runner' = "raised"
         /\ UNCHANGED <<dependsOn, status, attempts, worker, emitted>>

\* Cancellation reaches the caller only; the wave is left running.
CancelRunShielded ==
    /\ runner = "gathering"
    /\ runner' = "cancelled"
    /\ UNCHANGED <<dependsOn, status, attempts, worker, emitted>>

\* The coroutine awaiting run_graph is cancelled: gather cancels every
\* unfinished worker.  CancelledError is not an Exception, so _run_one does
\* not catch it: statuses stay as they are.  (Once a worker has raised, the
\* gather is over and cancels nobody: that case is Raise.)
CancelRun ==
    /\ runner = "gathering"
    /\ \A t \in Task : worker[t] # "raised"
    /\ runner' = "cancelled"
    /\ worker' = [t \in Task |->
                    IF worker[t] \in Live THEN "cancelled" ELSE worker[t]]
    /\ UNCHANGED <<dependsOn, status, attempts, emitted>>

-----------------------------------------------------------------------------
(* _run_one, one action per stretch between suspensions.                   *)

\* Each retry counts its attempts anew.
RunAttemptAnew(t) ==
    /\ status' = [status EXCEPT ![t] = "running"]
    /\ attempts' = [attempts EXCEPT ![t] = 1]
    /\ worker' = [worker EXCEPT ![t] = "executing"]

RunAttempt(t) ==
    /\ status' = [status EXCEPT ![t] = "running"]
    /\ attempts' = [attempts EXCEPT ![t] = @ + 1]
    /\ worker' = [worker EXCEPT ![t] = "executing"]

Emit(t, topic) == emitted' = [emitted EXCEPT ![t] = Append(@, topic)]

\* PENDING -> ASSIGNED, task.assigned, first attempt up to the executor call.
Start(t) == /\ worker[t] = "created"
            /\ CanMove(t, <<"assigned", "running">>)
            /\ RunAttempt(t)
            /\ Emit(t, "task.assigned")
            /\ UNCHANGED <<dependsOn, runner>>

\* The retry announces the task again.
RetryAnnounced(t) == /\ worker[t] = "backoff"
                     /\ CanMove(t, <<"assigned", "running">>)
                     /\ RunAttempt(t)
                     /\ Emit(t, "task.assigned")
                     /\ UNCHANGED <<dependsOn, runner>>

\* The backoff sleep is over: FAILED -> ASSIGNED, next attempt.  A retry
\* announces nothing.
Retry(t) == /\ worker[t] = "backoff"
            /\ CanMove(t, <<"assigned", "running">>)
            /\ RunAttempt(t)
            /\ UNCHANGED <<dependsOn, runner, emitted>>

\* The executor answers.
Succeed(t) == /\ worker[t] = "executing"
              /\ CanMove(t, <<"completed">>)
              /\ status' = [status EXCEPT ![t] = "completed"]
              /\ worker' = [worker EXCEPT ![t] = "returned"]
              /\ Emit(t, "task.completed")
              /\ UNCHANGED <<dependsOn, attempts, runner>>

ExhaustedLate(t) == attempts[t] > MaxAttempts[t]

Exhausted(t) == attempts[t] >= MaxAttempts[t]

\* The executor raises with attempts left: FAILED, then the backoff sleep.
FailAndBackOff(t) ==
    /\ worker[t] = "executing"
    /\ CanMove(t, <<"failed">>)
    /\ ~ Exhausted(t)
    /\ status' = [status EXCEPT ![t] = "failed"]
    /\ worker' = [worker EXCEPT ![t] = "backoff"]
    /\ UNCHANGED <<dependsOn, attempts, runner, emitted>>

\* The topic is taken for a status.
DeadLetterStatus(t) ==
    /\ worker[t] = "executing"
    /\ CanMove(t, <<"failed">>)
    /\ Exhausted(t)
    /\ status' = [status EXCEPT ![t] = "dead_letter"]
    /\ worker' = [worker EXCEPT ![t] = "returned"]
    /\ Emit(t, "task.dead_letter")
    /\ UNCHANGED <<dependsOn, attempts, runner>>

\* The executor raises on the last attempt: FAILED and task.dead_letter.
FailForGood(t) ==
    /\ worker[t] = "executing"
    /\ CanMove(t, <<"failed">>)
    /\ Exhausted(t)
    /\ status' = [status EXCEPT ![t] = "failed"]
    /\ worker' = [worker EXCEPT ![t] = "returned"]
    /\ Emit(t, "task.dead_letter")
    /\ UNCHANGED <<dependsOn, attempts, runner>>

\* transition refuses the move: of a created worker to ASSIGNED, of an
\* executing one to COMPLETED and then, in the except branch, to FAILED.
\* (A failed task cannot be cancelled, so a retry is never refused.)
InvalidTransition(t) ==
    /\ \/ worker[t] = "created" /\ ~ CanMove(t, <<"assigned">>)
       \/ /\ worker[t] = "executing"
          /\ ~ CanMove(t, <<"completed">>) \/ ~ CanMove(t, <<"failed">>)
    /\ worker' = [worker EXCEPT ![t] = "raised"]
    /\ UNCHANGED <<dependsOn, status, attempts, runner, emitted>>

\* Somebody calls transition(task, CANCELLED) between two steps.
CancelTask(t) == /\ t \in Cancellable
                 /\ CanMove(t, <<"cancelled">>)
                 /\ status' = [status EXCEPT ![t] = "cancelled"]
                 /\ UNCHANGED <<dependsOn, attempts, worker, runner, emitted>>

RunOne(t) == \/ Start(t)
             \/ Retry(t)
             \/ Succeed(t)
             \/ FailAndBackOff(t)
             \/ FailForGood(t)
             \/ InvalidTransition(t)

RunGraph == Reject \/ StartWave \/ Return \/ Raise

Next == \/ RunGraph
        \/ CancelRun
        \/ \E t \in Task : RunOne(t) \/ CancelTask(t)

\* The event loop runs what is ready: the run loop, a worker whose sleep is
\* over, an executor, which is bounded by the request timeout of the bus.
Fairness == /\ WF_vars(RunGraph)
            /\ \A t \in Task : WF_vars(RunOne(t))

Spec == Init /\ [][Next]_vars
FairSpec == Spec /\ Fairness

-----------------------------------------------------------------------------
(* Properties.                                                             *)

\* All t waits for, directly or not: what every set closed under dependsOn
\* that holds its dependencies holds.
Ancestors(t) ==
    {u \in Task : \A S \in SUBSET Task :
        (/\ dependsOn[t] \subseteq S
         /\ \A v \in S : dependsOn[v] \subseteq S) => u \in S}

DeadLettered(t) == status[t] = "failed" /\ worker[t] = "returned"

\* No executor is ever called for a task while anything the task waits for,
\* directly or through others, has not completed (ready, waves and retries).
DependenciesFirst ==
    \A t \in Task : attempts[t] > 0 => Ancestors(t) \subseteq Done

\* The executor is called at most max_attempts times for a task, and a task
\* is given up only when it has used them all (the retry loop).
AttemptBudget ==
    \A t \in Task : /\ attempts[t] <= MaxAttempts[t]
                    /\ DeadLettered(t) => attempts[t] = MaxAttempts[t]

\* What the bus has been told about a task is its story: one task.assigned
\* however often it is retried, then one terminal event, the one its final
\* status calls for, and none if it was cancelled (_emit in _run_one).
EventsTellTheStory ==
    \A t \in Task :
        emitted[t] =
            (IF attempts[t] = 0 THEN <<>> ELSE <<"task.assigned">>)
            \o (IF status[t] = "completed" THEN <<"task.completed">> ELSE <<>>)
            \o (IF DeadLettered(t) THEN <<"task.dead_letter">> ELSE <<>>)

\* _TRANSITIONS refuses a move of _run_one itself only when somebody else
\* cancelled the task: left alone, run_graph never raises InvalidTransition.
RaisesOnlyIfCancelled ==
    \A t \in Task : worker[t] = "raised" => status[t] = "cancelled"

\* When run_graph returns the task map nothing runs any more, and every task
\* that has not completed has its excuse: cancelled, out of attempts, or
\* waiting behind a task that is.
SettledOnReturn ==
    runner = "returned" =>
        \A t \in Task :
            /\ worker[t] \notin Live
            /\ \/ status[t] \in {"completed", "cancelled"}
               \/ DeadLettered(t)
               \/ /\ status[t] = "pending"
                  /\ \E u \in Ancestors(t) : \/ DeadLettered(u)
                                             \/ status[u] = "cancelled"

\* After run_graph has returned, been rejected or been cancelled, no executor
\* is called and no event emitted on its behalf.
StillAfterTheEnd ==
    [][(runner \in {"returned", "rejected", "cancelled"})
          => attempts' = attempts /\ emitted' = emitted]_vars

\* Completed, cancelled and dead-lettered are for ever: no later wave makes a
\* new coroutine for such a task, no late worker touches it again.
FinalIsFinal ==
    [][\A t \in Task :
          (status[t] \in {"completed", "cancelled"} \/ DeadLettered(t))
          => /\ status'[t] = status[t] /\ attempts'[t] = attempts[t]
             /\ worker[t] = "returned" => worker'[t] = "returned"]_vars

\* run_graph ends, whatever the executors answer and whoever cancels; and every
\* worker of a wave comes to its end, also when the gather it belonged to was
\* abandoned because a sibling raised.
RunTerminates ==
    /\ <>(runner \in {"returned", "rejected", "raised", "cancelled"})
    /\ \A t \in Task : worker[t] = "created" ~> worker[t] \notin Live

-----------------------------------------------------------------------------
(* The inductive invariant of the proofs (TaskManagerProofs).              *)

\* How the place of a task's worker, its status and its attempts go together.
WorkerInv(t) ==
    /\ worker[t] \in {"none", "created"} =>
          status[t] \in {"pending", "cancelled"} /\ attempts[t] = 0
    /\ worker[t] = "executing" =>
          /\ status[t] \in {"running", "cancelled"}
          /\ attempts[t] \in 1 .. MaxAttempts[t]
    /\ worker[t] = "backoff" =>
          /\ status[t] = "failed"
          /\ attempts[t] > 0 /\ attempts[t] < MaxAttempts[t]
    /\ worker[t] = "returned" =>
          \/ status[t] = "completed" /\ attempts[t] \in 1 .. MaxAttempts[t]
          \/ status[t] = "failed" /\ attempts[t] = MaxAttempts[t]
    /\ worker[t] = "raised" =>
          status[t] = "cancelled" /\ attempts[t] <= MaxAttempts[t]
    /\ worker[t] = "cancelled" =>
          status[t] # "completed" /\ attempts[t] <= MaxAttempts[t]
    /\ status[t] = "pending" => attempts[t] = 0

\* A task in a wave or past it has all its dependencies completed.
DependenciesDone(t) ==
    (worker[t] = "created" \/ attempts[t] > 0) => dependsOn[t] \subseteq Done

\* What run_graph knows of the workers where it stands.
RunnerInv ==
    /\ runner \in {"called", "rejected"} => \A t \in Task : worker[t] = "none"
    /\ runner = "returned" => /\ \A t \in Task : worker[t] \in {"none", "returned"}
                              /\ Complete \/ Ready = {}
    /\ runner = "cancelled" => \A t \in Task : worker[t] \notin Live
    /\ runner \notin {"called", "rejected"} => Acyclic

IInv == /\ TypeOK
        /\ \A t \in Task : WorkerInv(t) /\ DependenciesDone(t)
        /\ RunnerInv
        /\ EventsTellTheStory

-----------------------------------------------------------------------------
(* The abstract run this module implements.                                *)

PhaseOf(t) == CASE status[t] = "completed" -> "succeeded"
                [] status[t] = "cancelled" -> "withdrawn"
                [] status[t] = "pending" -> "todo"
                [] DeadLettered(t) -> "failed"
                [] OTHER -> "active"

OutcomeOf == CASE runner = "returned" -> "finished"
               [] runner = "raised" -> "abandoned"
               [] runner \in {"rejected", "cancelled"} -> "stopped"
               [] OTHER -> "open"

Dag == INSTANCE DagExecution WITH deps <- dependsOn,
                                  phase <- [t \in Task |-> PhaseOf(t)],
                                  outcome <- OutcomeOf

\* Waves, workers, retries and backoff only ever do what DagExecution allows.
DagSpec == Dag!Spec
=============================================================================
