-------------------------------- MODULE King --------------------------------
(***************************************************************************)
(* KingAgent.execute (backend/king/king.py) for several concurrent         *)
(* requests, with the parts it puts together: memory around the run, the   *)
(* Task Manager's run of the plan (through what DagExecution promises of   *)
(* it), the ProgressMonitor (backend/king/monitor.py) on the shared bus,   *)
(* drain, and the Aggregator.                                              *)
(*                                                                         *)
(* The bus is EventBus with the one kind of handler it has here: the       *)
(* monitor's counts and never raises or suspends.  A consumer that is      *)
(* resumed thus empties its queue in one step, nothing is in flight        *)
(* between steps.  A payload is abstracted to whose event it is, and a     *)
(* queue or a counter of a monitor to two numbers: all events, and those   *)
(* of the request the monitor was started for.                             *)
(*                                                                         *)
(* The stores of the memory are called synchronously: recall and remember  *)
(* never suspend, so what precedes the run is one step and so is what      *)
(* follows the drain.                                                      *)
(***************************************************************************)
EXTENDS Naturals, FiniteSets

CONSTANTS Request,
          TasksOf,  \* the subtasks of each request
          PlansOf   \* the dependency functions its plan may have

ASSUME PlansAssumption ==
    \A r \in Request : /\ IsFiniteSet(TasksOf[r])
                       /\ PlansOf[r] \subseteq [TasksOf[r] -> SUBSET TasksOf[r]]

VARIABLES wired,      \* the King was given a Task Manager (deps.tasks); fixed
          stage,      \* where execute(request) stands
          dependsOn,  \* the plan made for the request
          task,       \* the status of its tasks
          subscribed, \* requests whose monitor is subscribed (to all topics)
          queue,      \* queue[m][topic]: events waiting for the monitor of m
          seen,       \* seen[m][topic]: events it has counted (_counts)
          answer,     \* the Aggregator's counts in the final answer
          emitted,    \* history: events published for the request, per topic
          drained     \* history: whether its drain found the bus idle

vars == <<wired, stage, dependsOn, task, subscribed, queue, seen, answer,
          emitted, drained>>

Topic == {"task.assigned", "task.completed", "task.dead_letter"}
Stage == {"called", "running", "draining", "answered", "failed", "cancelled"}
Count == [all : Nat, own : Nat]
NoEvents == [topic \in Topic |-> [all |-> 0, own |-> 0]]
NoAnswer == [completed |-> 0, failed |-> 0]

TypeOK ==
    /\ wired \in BOOLEAN
    /\ stage \in [Request -> Stage]
    /\ \A r \in Request :
          /\ dependsOn[r] \in PlansOf[r]
          /\ task[r] \in [TasksOf[r] ->
                           {"pending", "running", "completed", "failed"}]
    /\ subscribed \subseteq Request
    /\ queue \in [Request -> [Topic -> Count]]
    /\ seen \in [Request -> [Topic -> Count]]
    /\ answer \in [Request -> [completed : Nat, failed : Nat]]
    /\ emitted \in [Request -> [Topic -> Nat]]
    /\ drained \in [Request -> BOOLEAN]

Init == /\ wired \in BOOLEAN
        /\ stage = [r \in Request |-> "called"]
        /\ dependsOn \in {d \in [Request -> UNION {PlansOf[r] : r \in Request}] :
                            \A r \in Request : d[r] \in PlansOf[r]}
        /\ task = [r \in Request |-> [t \in TasksOf[r] |-> "pending"]]
        /\ subscribed = {}
        /\ queue = [r \in Request |-> NoEvents]
        /\ seen = [r \in Request |-> NoEvents]
        /\ answer = [r \in Request |-> NoAnswer]
        /\ emitted = [r \in Request |-> [topic \in Topic |-> 0]]
        /\ drained = [r \in Request |-> FALSE]

Ended == {"answered", "failed", "cancelled"}

Move(r, from, to) == stage[r] = from /\ stage' = [stage EXCEPT ![r] = to]

-----------------------------------------------------------------------------
(* Before the run: memory.recall, plan, graph, monitor.start.              *)

\* The monitor is started before the memory is asked.
RecallFailsMonitored(r) ==
    /\ Move(r, "called", "failed")
    /\ subscribed' = subscribed \cup {r}
    /\ UNCHANGED <<wired, dependsOn, task, queue, seen, answer, emitted, drained>>

\* An exception of the memory is not caught: BaseAgent.run answers FAILED.
RecallFails(r) == /\ Move(r, "called", "failed")
                  /\ UNCHANGED <<wired, dependsOn, task, subscribed, queue, seen,
                                 answer, emitted, drained>>

\* Planning, subscribing and entering run_graph do not suspend.
Recalled(r) == /\ wired
               /\ Move(r, "called", "running")
               /\ subscribed' = subscribed \cup {r}
               /\ UNCHANGED <<wired, dependsOn, task, queue, seen, answer, emitted,
                              drained>>

\* Whether there is a Task Manager is asked after monitor.start: the request
\* fails and leaves its monitor behind.
NoTaskManager(r) == /\ ~ wired
                    /\ Move(r, "called", "failed")
                    /\ subscribed' = subscribed \cup {r}
                    /\ UNCHANGED <<wired, dependsOn, task, queue, seen, answer,
                                   emitted, drained>>

-----------------------------------------------------------------------------
(* The run and its events.                                                 *)

\* The publisher's own group is passed over.
PublishToOthers(r, topic) ==
    /\ emitted' = [emitted EXCEPT ![r][topic] = @ + 1]
    /\ queue' = [m \in Request |->
                   IF m \in subscribed \ {r}
                   THEN [queue[m] EXCEPT ![topic].all = @ + 1]
                   ELSE queue[m]]

\* _emit: a copy for every monitor that is subscribed.
Publish(r, topic) ==
    /\ emitted' = [emitted EXCEPT ![r][topic] = @ + 1]
    /\ queue' = [m \in Request |->
                   IF m \in subscribed
                   THEN [queue[m] EXCEPT
                           ![topic].all = @ + 1,
                           ![topic].own = IF m = r THEN @ + 1 ELSE @]
                   ELSE queue[m]]

CanBegin(r, t) == /\ task[r][t] = "pending"
                  /\ \A u \in dependsOn[r][t] : task[r][u] = "completed"

Assign(r, t) == /\ stage[r] = "running"
                /\ CanBegin(r, t)
                /\ task' = [task EXCEPT ![r][t] = "running"]
                /\ Publish(r, "task.assigned")
                /\ UNCHANGED <<wired, stage, dependsOn, subscribed, seen, answer, drained>>

\* The General answers, at once or after retries.
CompleteTask(r, t) ==
    /\ stage[r] = "running"
    /\ task[r][t] = "running"
    /\ task' = [task EXCEPT ![r][t] = "completed"]
    /\ Publish(r, "task.completed")
    /\ UNCHANGED <<wired, stage, dependsOn, subscribed, seen, answer, drained>>

\* The topic is taken for a status.
FailTaskDeadLetter(r, t) ==
    /\ stage[r] = "running"
    /\ task[r][t] = "running"
    /\ task' = [task EXCEPT ![r][t] = "dead_letter"]
    /\ Publish(r, "task.dead_letter")
    /\ UNCHANGED <<wired, stage, dependsOn, subscribed, seen, answer, drained>>

\* The attempts are used up.
FailTask(r, t) ==
    /\ stage[r] = "running"
    /\ task[r][t] = "running"
    /\ task' = [task EXCEPT ![r][t] = "failed"]
    /\ Publish(r, "task.dead_letter")
    /\ UNCHANGED <<wired, stage, dependsOn, subscribed, seen, answer, drained>>

\* run_graph returns while a task is still running.
RunReturnsEarly(r) ==
    /\ Move(r, "running", "draining")
    /\ \A t \in TasksOf[r] : ~ CanBegin(r, t)
    /\ UNCHANGED <<wired, dependsOn, task, subscribed, queue, seen, answer,
                   emitted, drained>>

\* run_graph waits for a failed task to complete after all.
RunReturnsIfAllCompleted(r) ==
    /\ Move(r, "running", "draining")
    /\ \A t \in TasksOf[r] : task[r][t] = "completed"
    /\ UNCHANGED <<wired, dependsOn, task, subscribed, queue, seen, answer,
                   emitted, drained>>

\* run_graph returns: nothing runs and nothing more can begin.
RunReturns(r) ==
    /\ Move(r, "running", "draining")
    /\ \A t \in TasksOf[r] : task[r][t] # "running" /\ ~ CanBegin(r, t)
    /\ UNCHANGED <<wired, dependsOn, task, subscribed, queue, seen, answer,
                   emitted, drained>>

\* A consumer of monitor m runs: every waiting event is counted, whichever
\* request it belongs to.
Observe(m, topic) ==
    /\ m \in subscribed
    /\ queue[m][topic].all > 0
    /\ seen' = [seen EXCEPT ![m][topic].all = @ + queue[m][topic].all,
                             ![m][topic].own = @ + queue[m][topic].own]
    /\ queue' = [queue EXCEPT ![m] = [@ EXCEPT ![topic] = NoEvents[topic]]]
    /\ UNCHANGED <<wired, stage, dependsOn, task, subscribed, answer, emitted,
                   drained>>

-----------------------------------------------------------------------------
(* After the run: drain, monitor.stop, merge, snapshot, memory.remember.   *)

\* Only one topic is looked at.
IdleOneTopic == \A m \in subscribed : queue[m]["task.assigned"].all = 0

Idle == \A m \in subscribed, topic \in Topic : queue[m][topic].all = 0

CountTasks(r, statuses) == Cardinality({t \in TasksOf[r] : task[r][t] \in statuses})

\* Aggregator.merge: every task that is not completed counts as failed, those
\* that never began included.
Merge(r) == [completed |-> CountTasks(r, {"completed"}),
             failed |-> CountTasks(r, {"pending", "running", "failed"})]

\* monitor.stop: the queues go with the subscriptions; the counts stay.
Stop(r) == /\ subscribed' = subscribed \ {r}
           /\ queue' = [queue EXCEPT ![r] = NoEvents]

\* The exchange is stored and the answer given, or it cannot be stored and
\* the answer is lost with it.
Respond(r) == \/ /\ Move(r, "draining", "answered")
                 /\ answer' = [answer EXCEPT ![r] = Merge(r)]
              \/ /\ Move(r, "draining", "failed")
                 /\ UNCHANGED answer

DrainIdle(r) == /\ Idle
                /\ drained' = [drained EXCEPT ![r] = TRUE]
                /\ Stop(r)
                /\ Respond(r)
                /\ UNCHANGED <<wired, dependsOn, task, seen, emitted>>

\* The bus was not seen idle within the timeout; execute goes on all the same.
DrainTimeout(r) == /\ Stop(r)
                   /\ Respond(r)
                   /\ UNCHANGED <<wired, dependsOn, task, seen, emitted, drained>>

\* The coroutine is cancelled wherever it is suspended (the client of a
\* streamed chat leaves).  There is no finally: the monitor stays subscribed.
Cancel(r) == /\ stage[r] \in {"called", "running", "draining"}
             /\ stage' = [stage EXCEPT ![r] = "cancelled"]
             /\ UNCHANGED <<wired, dependsOn, task, subscribed, queue, seen,
                            answer, emitted, drained>>

Run(r) == \/ \E t \in TasksOf[r] : Assign(r, t) \/ CompleteTask(r, t) \/ FailTask(r, t)
          \/ RunReturns(r)

Execute(r) == \/ RecallFails(r)
              \/ Recalled(r)
              \/ NoTaskManager(r)
              \/ Run(r)
              \/ DrainIdle(r)
              \/ DrainTimeout(r)

Next == \/ \E r \in Request : Execute(r) \/ Cancel(r)
        \/ \E m \in Request, topic \in Topic : Observe(m, topic)

\* A request goes on until it ends: executors answer or time out, the run is
\* RunTerminates of TaskManager, drain has a deadline.  Nothing is asked of
\* the monitors.
Fairness == \A r \in Request : WF_vars(Execute(r))

Spec == Init /\ [][Next]_vars
FairSpec == Spec /\ Fairness

-----------------------------------------------------------------------------
(* Properties.                                                             *)

\* Everything a request published is in its own monitor, counted or waiting,
\* from the first event of the run to the stop.
NoOwnEventMissed ==
    \A r \in Request, topic \in Topic :
        r \in subscribed =>
            seen[r][topic].own + queue[r][topic].own = emitted[r][topic]

\* The answer accounts for every task of the plan, none still running, and no
\* late worker changes what was merged; and after a drain that found the bus
\* idle the request's own events in the snapshot agree with the breakdown of
\* the answer: every completed task was seen to complete, and the tasks that
\* count as failed are those seen in the dead letter plus those never assigned.
ProgressAgreesWithAnswer ==
    \A r \in Request :
        stage[r] = "answered" =>
            /\ \A t \in TasksOf[r] : task[r][t] # "running"
            /\ answer[r] = Merge(r)
            /\ answer[r].completed + answer[r].failed = Cardinality(TasksOf[r])
            /\ drained[r] =>
                  /\ seen[r]["task.completed"].own = answer[r].completed
                  /\ seen[r]["task.dead_letter"].own + CountTasks(r, {"pending"})
                        = answer[r].failed
                  /\ seen[r]["task.assigned"].own + CountTasks(r, {"pending"})
                        = Cardinality(TasksOf[r])

\* Which requests end with their monitor still on the shared bus: those that
\* were cancelled and those a King without a Task Manager refused, no other.  A
\* request that fails under a Task Manager fails before its plan has begun or
\* when all of it is over, never with tasks that still run or could begin.
LeavesCleanly ==
    \A r \in Request :
        /\ (r \in subscribed /\ stage[r] \in Ended) =>
              stage[r] = "cancelled" \/ (stage[r] = "failed" /\ ~ wired)
        /\ (stage[r] = "failed" /\ \E t \in TasksOf[r] : task[r][t] # "pending") =>
              \A t \in TasksOf[r] : task[r][t] # "running" /\ ~ CanBegin(r, t)

\* No request waits for ever: each one is answered, failed or cancelled, for good,
\* and what it leaves on the bus and of its tasks is what LeavesCleanly says
\* (execute has no finally, and the memory may raise before and after the run).
EveryRequestEnds ==
    \A r \in Request : <>[](stage[r] \in Ended /\ LeavesCleanly)

\* "observes task lifecycle events for a request": with the bus drained, the
\* completed count of the snapshot is the number of the request's completed
\* subtasks.
SnapshotIsOfTheRequest ==
    \A r \in Request :
        (stage[r] = "answered" /\ drained[r]) =>
            seen[r]["task.completed"].all = answer[r].completed

-----------------------------------------------------------------------------
(* The run of each request, as the Task Manager's callers may see it.      *)

PhaseOf(r, t) == CASE task[r][t] = "pending" -> "todo"
                   [] task[r][t] = "running" -> "active"
                   [] task[r][t] = "completed" -> "succeeded"
                   [] OTHER -> "failed"

Settled(r) == \A t \in TasksOf[r] : task[r][t] # "running" /\ ~ CanBegin(r, t)

\* A request that failed or was cancelled did so after the run or before its
\* end: what its tasks look like tells.
OutcomeOf(r) ==
    CASE stage[r] \in {"called", "running"} -> "open"
      [] stage[r] \in {"draining", "answered"} -> "finished"
      [] OTHER -> IF Settled(r) THEN "finished" ELSE "stopped"

Dag(r) == INSTANCE DagExecution WITH Task <- TasksOf[r],
                                     Graphs <- PlansOf[r],
                                     deps <- dependsOn[r],
                                     phase <- [t \in TasksOf[r] |-> PhaseOf(r, t)],
                                     outcome <- OutcomeOf(r)

\* The King relies on nothing of run_graph that DagExecution does not state.
DagPerRequest ==
    /\ \A r \in Request : Dag(r)!Init
    /\ [][\A r \in Request : Dag(r)!Next \/ UNCHANGED Dag(r)!vars]_vars
=============================================================================
