-------------------------- MODULE TaskManagerProofs --------------------------
(***************************************************************************)
(* Proofs about TaskManager, for every finite or infinite set of tasks,    *)
(* every dependency function and every bound on the attempts.              *)
(***************************************************************************)
EXTENDS TaskManager, TLAPS

USE DEF Status, Worker, Runner, Topic, Live

\* transition() through one status: the move is one of _TRANSITIONS.
LEMMA MoveOne ==
    ASSUME NEW t \in Task, NEW s \in Status, status \in [Task -> Status]
    PROVE  CanMove(t, <<s>>) <=> s \in Transitions[status[t]]
  BY DEF CanMove

\* transition() through two statuses: the first move is one of _TRANSITIONS.
LEMMA MoveTwo ==
    ASSUME NEW t \in Task, NEW s \in Status, NEW u \in Status,
           status \in [Task -> Status], CanMove(t, <<s, u>>)
    PROVE  s \in Transitions[status[t]]
  <1> DEFINE at == <<status[t]>> \o <<s, u>>
  <1>1. \A i \in 1 .. 2 : at[i + 1] \in Transitions[at[i]]
    BY DEF CanMove
  <1>2. at[1] = status[t] /\ at[2] = s
    OBVIOUS
  <1> HIDE DEF at
  <1>3. at[1 + 1] \in Transitions[at[1]]
    BY <1>1
  <1> QED  BY <1>2, <1>3

\* Which statuses a task can be in when transition() lets it move to another.
LEMMA MoveFrom ==
    ASSUME NEW s \in Status
    PROVE  /\ "assigned" \in Transitions[s] => s \in {"pending", "failed"}
           /\ "completed" \in Transitions[s] => s = "running"
           /\ "failed" \in Transitions[s] => s = "running"
           /\ "cancelled" \in Transitions[s] => s \in {"pending", "assigned", "running"}
           /\ s = "running" => {"completed", "failed"} \subseteq Transitions[s]
           /\ s = "pending" => "assigned" \in Transitions[s]
  BY DEF Transitions

-----------------------------------------------------------------------------
(* Type correctness.                                                       *)

LEMMA TypeInit == Init => TypeOK
  BY GraphsAssumption DEF Init, TypeOK

LEMMA TypeStep == TypeOK /\ [Next]_vars => TypeOK'
  <1> SUFFICES ASSUME TypeOK, [Next]_vars PROVE TypeOK'
    OBVIOUS
  <1> USE DEF TypeOK
  <1>1. CASE RunGraph
    BY <1>1 DEF RunGraph, Reject, StartWave, Return, Raise
  <1>2. CASE CancelRun
    BY <1>2 DEF CancelRun
  <1>3. ASSUME NEW t \in Task, RunOne(t) PROVE TypeOK'
    <2>1. CASE Start(t)
      BY <2>1 DEF Start, RunAttempt, Emit
    <2>2. CASE Retry(t)
      BY <2>2 DEF Retry, RunAttempt
    <2>3. CASE Succeed(t)
      BY <2>3 DEF Succeed, Emit
    <2>4. CASE FailAndBackOff(t)
      BY <2>4 DEF FailAndBackOff
    <2>5. CASE FailForGood(t)
      BY <2>5 DEF FailForGood, Emit
    <2>6. CASE InvalidTransition(t)
      BY <2>6 DEF InvalidTransition
    <2> QED  BY <1>3, <2>1, <2>2, <2>3, <2>4, <2>5, <2>6 DEF RunOne
  <1>4. ASSUME NEW t \in Task, CancelTask(t) PROVE TypeOK'
    BY <1>4 DEF CancelTask
  <1>5. CASE UNCHANGED vars
    BY <1>5 DEF vars
  <1> QED  BY <1>1, <1>2, <1>3, <1>4, <1>5 DEF Next

\* Every variable keeps its type: statuses are TaskStatus values, topics the
\* three of the life cycle.
THEOREM TypeCorrect == Spec => []TypeOK
  BY TypeInit, TypeStep, PTL DEF Spec

-----------------------------------------------------------------------------
(* The inductive invariant.                                                *)

LEMMA IInvInit == Init => IInv
  <1> SUFFICES ASSUME Init PROVE IInv
    OBVIOUS
  <1>1. TypeOK
    BY TypeInit
  <1>2. \A t \in Task : WorkerInv(t) /\ DependenciesDone(t)
    BY MaxAttemptsAssumption DEF Init, WorkerInv, DependenciesDone
  <1>3. RunnerInv
    BY DEF Init, RunnerInv
  <1>4. EventsTellTheStory
    BY DEF Init, EventsTellTheStory, DeadLettered
  <1> QED  BY <1>1, <1>2, <1>3, <1>4 DEF IInv

\* What is completed stays completed, so what it allowed stays allowed.
LEMMA DoneGrows ==
    ASSUME TypeOK, TypeOK', dependsOn' = dependsOn,
           \A u \in Task : status[u] = "completed" => status'[u] = "completed",
           NEW t \in Task, DependenciesDone(t),
           (worker'[t] = "created" \/ attempts'[t] > 0)
              => (worker[t] = "created" \/ attempts[t] > 0)
    PROVE  DependenciesDone(t)'
  BY DEF DependenciesDone, Done, TypeOK

\* A step of a worker leaves run_graph where it is: in the gather, or past an
\* exception.
LEMMA RunnerDuringWork ==
    ASSUME IInv, NEW t \in Task, worker[t] \in Live,
           runner' = runner, dependsOn' = dependsOn
    PROVE  RunnerInv'
  BY DEF IInv, TypeOK, RunnerInv, Acyclic

\* A worker's step, action by action.
LEMMA RunOneStep ==
    ASSUME IInv, TypeOK', NEW t \in Task, RunOne(t)
    PROVE  IInv'
  <1> USE DEF IInv
  <1>t. /\ status \in [Task -> Status] /\ attempts \in [Task -> Nat]
        /\ worker \in [Task -> Worker] /\ emitted \in [Task -> Seq(Topic)]
        /\ MaxAttempts \in [Task -> Nat \ {0}]
    BY MaxAttemptsAssumption DEF TypeOK
  <1>w. \A u \in Task : WorkerInv(u)
    OBVIOUS
  <1>e. \A u \in Task : emitted[u] =
            (IF attempts[u] = 0 THEN <<>> ELSE <<"task.assigned">>)
            \o (IF status[u] = "completed" THEN <<"task.completed">> ELSE <<>>)
            \o (IF DeadLettered(u) THEN <<"task.dead_letter">> ELSE <<>>)
    BY DEF EventsTellTheStory
  <1>1. CASE Start(t)
    <2>1. status[t] = "pending" /\ attempts[t] = 0 /\ worker[t] = "created"
      <3>1. "assigned" \in Transitions[status[t]]
        BY <1>1, <1>t, MoveTwo DEF Start
      <3> QED  BY <3>1, <1>1, <1>t, <1>w, MoveFrom DEF Start, WorkerInv
    <2>2. \A u \in Task : WorkerInv(u)'
      BY <1>1, <1>t, <1>w, <2>1 DEF Start, RunAttempt, WorkerInv
    <2>3. \A u \in Task : DependenciesDone(u)'
      BY <1>1, <1>t, <2>1, DoneGrows DEF Start, RunAttempt
    <2>4. RunnerInv'
      BY <1>1, <2>1, RunnerDuringWork DEF Start
    <2>5. EventsTellTheStory'
      BY <1>1, <1>t, <1>e, <2>1
         DEF Start, RunAttempt, Emit, EventsTellTheStory, DeadLettered
    <2> QED  BY <2>2, <2>3, <2>4, <2>5
  <1>2. CASE Retry(t)
    <2>1. /\ status[t] = "failed" /\ worker[t] = "backoff"
          /\ attempts[t] > 0 /\ attempts[t] < MaxAttempts[t]
      BY <1>2, <1>w DEF Retry, WorkerInv
    <2>2. \A u \in Task : WorkerInv(u)'
      BY <1>2, <1>t, <1>w, <2>1 DEF Retry, RunAttempt, WorkerInv
    <2>3. \A u \in Task : DependenciesDone(u)'
      BY <1>2, <1>t, <2>1, DoneGrows DEF Retry, RunAttempt
    <2>4. RunnerInv'
      BY <1>2, <2>1, RunnerDuringWork DEF Retry
    <2>5. EventsTellTheStory'
      BY <1>2, <1>t, <1>e, <2>1
         DEF Retry, RunAttempt, EventsTellTheStory, DeadLettered
    <2> QED  BY <2>2, <2>3, <2>4, <2>5
  <1>3. CASE Succeed(t)
    <2>1. /\ status[t] = "running" /\ worker[t] = "executing"
          /\ attempts[t] \in 1 .. MaxAttempts[t]
      <3>1. "completed" \in Transitions[status[t]]
        BY <1>3, <1>t, MoveOne DEF Succeed
      <3> QED  BY <3>1, <1>3, <1>t, <1>w, MoveFrom DEF Succeed, WorkerInv
    <2>2. \A u \in Task : WorkerInv(u)'
      BY <1>3, <1>t, <1>w, <2>1 DEF Succeed, WorkerInv
    <2>3. \A u \in Task : DependenciesDone(u)'
      BY <1>3, <1>t, <2>1, DoneGrows DEF Succeed
    <2>4. RunnerInv'
      BY <1>3, <2>1, RunnerDuringWork DEF Succeed
    <2>5. EventsTellTheStory'
      BY <1>3, <1>t, <1>e, <2>1
         DEF Succeed, Emit, EventsTellTheStory, DeadLettered
    <2> QED  BY <2>2, <2>3, <2>4, <2>5
  <1>4. CASE FailAndBackOff(t)
    <2>1. /\ status[t] = "running" /\ worker[t] = "executing"
          /\ attempts[t] > 0 /\ attempts[t] < MaxAttempts[t]
      <3>1. "failed" \in Transitions[status[t]]
        BY <1>4, <1>t, MoveOne DEF FailAndBackOff
      <3> QED  BY <3>1, <1>4, <1>t, <1>w, MoveFrom
               DEF FailAndBackOff, Exhausted, WorkerInv
    <2>2. \A u \in Task : WorkerInv(u)'
      BY <1>4, <1>t, <1>w, <2>1 DEF FailAndBackOff, WorkerInv
    <2>3. \A u \in Task : DependenciesDone(u)'
      BY <1>4, <1>t, <2>1, DoneGrows DEF FailAndBackOff
    <2>4. RunnerInv'
      BY <1>4, <2>1, RunnerDuringWork DEF FailAndBackOff
    <2>5. EventsTellTheStory'
      BY <1>4, <1>t, <1>e, <2>1
         DEF FailAndBackOff, EventsTellTheStory, DeadLettered
    <2> QED  BY <2>2, <2>3, <2>4, <2>5
  <1>5. CASE FailForGood(t)
    <2>1. /\ status[t] = "running" /\ worker[t] = "executing"
          /\ attempts[t] > 0 /\ attempts[t] = MaxAttempts[t]
      <3>1. "failed" \in Transitions[status[t]]
        BY <1>5, <1>t, MoveOne DEF FailForGood
      <3> QED  BY <3>1, <1>5, <1>t, <1>w, MoveFrom
               DEF FailForGood, Exhausted, WorkerInv
    <2>2. \A u \in Task : WorkerInv(u)'
      BY <1>5, <1>t, <1>w, <2>1 DEF FailForGood, WorkerInv
    <2>3. \A u \in Task : DependenciesDone(u)'
      BY <1>5, <1>t, <2>1, DoneGrows DEF FailForGood
    <2>4. RunnerInv'
      BY <1>5, <2>1, RunnerDuringWork DEF FailForGood
    <2>5. EventsTellTheStory'
      BY <1>5, <1>t, <1>e, <2>1
         DEF FailForGood, Emit, EventsTellTheStory, DeadLettered
    <2> QED  BY <2>2, <2>3, <2>4, <2>5
  <1>6. CASE InvalidTransition(t)
    <2>1. /\ status[t] = "cancelled" /\ worker[t] \in {"created", "executing"}
          /\ attempts[t] <= MaxAttempts[t]
      <3>1. CASE worker[t] = "created" /\ ~ CanMove(t, <<"assigned">>)
        <4>1. "assigned" \notin Transitions[status[t]]
          BY <3>1, <1>t, MoveOne
        <4> QED  BY <3>1, <4>1, <1>t, <1>w, MoveFrom DEF WorkerInv
      <3>2. CASE /\ worker[t] = "executing"
                 /\ ~ CanMove(t, <<"completed">>) \/ ~ CanMove(t, <<"failed">>)
        <4>1. \/ "completed" \notin Transitions[status[t]]
              \/ "failed" \notin Transitions[status[t]]
          BY <3>2, <1>t, MoveOne
        <4> QED  BY <3>2, <4>1, <1>t, <1>w, MoveFrom DEF WorkerInv
      <3> QED  BY <1>6, <3>1, <3>2 DEF InvalidTransition
    <2>2. \A u \in Task : WorkerInv(u)'
      BY <1>6, <1>t, <1>w, <2>1 DEF InvalidTransition, WorkerInv
    <2>3. \A u \in Task : DependenciesDone(u)'
      BY <1>6, <1>t, <2>1, DoneGrows DEF InvalidTransition
    <2>4. RunnerInv'
      BY <1>6, <2>1, RunnerDuringWork DEF InvalidTransition
    <2>5. EventsTellTheStory'
      BY <1>6, <1>t, <1>e, <2>1
         DEF InvalidTransition, EventsTellTheStory, DeadLettered
    <2> QED  BY <2>2, <2>3, <2>4, <2>5
  <1> QED  BY <1>1, <1>2, <1>3, <1>4, <1>5, <1>6 DEF RunOne

\* run_graph's own steps.
LEMMA RunGraphStep ==
    ASSUME IInv, TypeOK', RunGraph
    PROVE  IInv'
  <1> USE DEF IInv
  <1>t. /\ status \in [Task -> Status] /\ attempts \in [Task -> Nat]
        /\ worker \in [Task -> Worker]
    BY DEF TypeOK
  <1>1. CASE StartWave
    <2>1. Acyclic /\ \A u \in Task : worker[u] \in {"none", "returned"}
      BY <1>1, <1>t DEF StartWave, AtLoopHead, RunnerInv
    <2>2. \A u \in Ready : worker[u] = "none" /\ attempts[u] = 0
      BY <2>1, <1>t DEF Ready, WorkerInv
    <2>3. \A u \in Task : WorkerInv(u)'
      BY <1>1, <1>t, <2>2 DEF StartWave, Ready, WorkerInv
    <2>4. \A u \in Task : DependenciesDone(u)'
      BY <1>1, <1>t DEF StartWave, Ready, DependenciesDone, Done
    <2>5. RunnerInv'
      BY <1>1, <2>1 DEF StartWave, RunnerInv, Acyclic
    <2>6. EventsTellTheStory'
      BY <1>1, <1>t, <2>2 DEF StartWave, Ready, EventsTellTheStory, DeadLettered
    <2> QED  BY <2>3, <2>4, <2>5, <2>6
  <1>2. CASE Reject \/ Return \/ Raise
    <2>1. UNCHANGED <<dependsOn, status, attempts, worker, emitted>>
      BY <1>2 DEF Reject, Return, Raise
    <2>2. /\ \A u \in Task : WorkerInv(u)' /\ DependenciesDone(u)'
          /\ EventsTellTheStory'
      BY <2>1 DEF WorkerInv, DependenciesDone, Done, EventsTellTheStory,
                  DeadLettered
    <2>3. RunnerInv'
      <3>1. CASE Reject
        BY <3>1 DEF Reject, RunnerInv
      <3>2. CASE Return
        BY <3>2 DEF Return, AtLoopHead, RunnerInv, Acyclic, Complete, Ready, Done
      <3>3. CASE Raise
        BY <3>3 DEF Raise, RunnerInv, Acyclic
      <3> QED  BY <1>2, <3>1, <3>2, <3>3
    <2> QED  BY <2>2, <2>3
  <1> QED  BY <1>1, <1>2 DEF RunGraph

\* The two steps from outside: the caller is cancelled, a task is cancelled.
LEMMA CancelStep ==
    ASSUME IInv, TypeOK', CancelRun \/ \E t \in Task : CancelTask(t)
    PROVE  IInv'
  <1> USE DEF IInv
  <1>t. /\ status \in [Task -> Status] /\ attempts \in [Task -> Nat]
        /\ worker \in [Task -> Worker] /\ MaxAttempts \in [Task -> Nat \ {0}]
    BY MaxAttemptsAssumption DEF TypeOK
  <1>1. CASE CancelRun
    <2>1. \A u \in Task : WorkerInv(u)'
      BY <1>1, <1>t DEF CancelRun, WorkerInv
    <2>2. \A u \in Task : DependenciesDone(u)'
      BY <1>1, <1>t, DoneGrows DEF CancelRun
    <2>3. RunnerInv'
      BY <1>1, <1>t DEF CancelRun, RunnerInv, Acyclic
    <2>4. EventsTellTheStory'
      BY <1>1, <1>t DEF CancelRun, WorkerInv, EventsTellTheStory, DeadLettered
    <2> QED  BY <2>1, <2>2, <2>3, <2>4
  <1>2. ASSUME NEW t \in Task, CancelTask(t) PROVE IInv'
    <2>1. status[t] \in {"pending", "assigned", "running"}
      <3>1. "cancelled" \in Transitions[status[t]]
        BY <1>2, <1>t, MoveOne DEF CancelTask
      <3> QED  BY <3>1, <1>t, MoveFrom
    <2>2. \A u \in Task : WorkerInv(u)'
      BY <1>2, <1>t, <2>1 DEF CancelTask, WorkerInv
    <2>3. \A u \in Task : DependenciesDone(u)'
      BY <1>2, <1>t, <2>1, DoneGrows DEF CancelTask
    <2>4. RunnerInv'
      <3>1. Done' = Done
        BY <1>2, <1>t, <2>1 DEF CancelTask, Done
      <3>2. Ready' \subseteq Ready
        BY <1>2, <1>t, <3>1 DEF CancelTask, Ready
      <3>3. Complete => Complete'
        BY <1>2, <1>t DEF CancelTask, Complete
      <3> QED  BY <1>2, <3>2, <3>3 DEF CancelTask, RunnerInv, Acyclic
    <2>5. EventsTellTheStory'
      BY <1>2, <1>t, <2>1 DEF CancelTask, EventsTellTheStory, DeadLettered
    <2> QED  BY <2>2, <2>3, <2>4, <2>5
  <1> QED  BY <1>1, <1>2

LEMMA IInvStep == IInv /\ [Next]_vars => IInv'
  <1> SUFFICES ASSUME IInv, [Next]_vars PROVE IInv'
    OBVIOUS
  <1>1. TypeOK'
    BY TypeStep DEF IInv
  <1>2. CASE RunGraph
    BY <1>1, <1>2, RunGraphStep
  <1>3. CASE CancelRun
    BY <1>1, <1>3, CancelStep
  <1>4. ASSUME NEW t \in Task, RunOne(t) PROVE IInv'
    BY <1>1, <1>4, RunOneStep
  <1>5. ASSUME NEW t \in Task, CancelTask(t) PROVE IInv'
    BY <1>1, <1>5, CancelStep
  <1>6. CASE UNCHANGED vars
    <2>1. UNCHANGED <<dependsOn, status, attempts, worker, runner, emitted>>
      BY <1>6 DEF vars
    <2>2. \A u \in Task : WorkerInv(u)' /\ DependenciesDone(u)'
      BY <2>1 DEF IInv, WorkerInv, DependenciesDone, Done
    <2>3. RunnerInv'
      BY <2>1 DEF IInv, RunnerInv, Acyclic, Complete, Ready, Done
    <2>4. EventsTellTheStory'
      BY <2>1 DEF IInv, EventsTellTheStory, DeadLettered
    <2> QED  BY <1>1, <2>2, <2>3, <2>4 DEF IInv
  <1> QED  BY <1>2, <1>3, <1>4, <1>5, <1>6 DEF Next

\* Worker, status, attempts, events and the place of run_graph always go
\* together as IInv says.
THEOREM Invariance == Spec => []IInv
  BY IInvInit, IInvStep, PTL DEF Spec

-----------------------------------------------------------------------------
(* What follows from it.                                                   *)

\* An executor is called only for a task whose direct and indirect
\* dependencies have all completed: Done is closed under dependsOn.
THEOREM DependenciesFirstHolds == Spec => []DependenciesFirst
  <1>1. IInv => DependenciesFirst
    <2> SUFFICES ASSUME IInv, NEW t \in Task, attempts[t] > 0
                 PROVE  Ancestors(t) \subseteq Done
      BY DEF DependenciesFirst
    <2>1. dependsOn[t] \subseteq Done
      BY DEF IInv, DependenciesDone
    <2>2. \A v \in Done : dependsOn[v] \subseteq Done
      <3> SUFFICES ASSUME NEW v \in Done PROVE dependsOn[v] \subseteq Done
        OBVIOUS
      <3>1. v \in Task /\ attempts[v] > 0
        <4>1. v \in Task /\ status[v] = "completed"
          BY DEF Done
        <4>2. WorkerInv(v) /\ worker[v] \in Worker /\ MaxAttempts[v] \in Nat
          BY <4>1, MaxAttemptsAssumption DEF IInv, TypeOK
        <4> QED  BY <4>1, <4>2 DEF WorkerInv
      <3> QED  BY <3>1 DEF IInv, DependenciesDone
    <2>3. Done \in SUBSET Task
      BY DEF Done
    <2> QED  BY <2>1, <2>2, <2>3 DEF Ancestors
  <1> QED  BY <1>1, Invariance, PTL

\* The executor is called at most max_attempts times, and exactly that often
\* for a task that is given up.
THEOREM AttemptBudgetHolds == Spec => []AttemptBudget
  <1>1. IInv => AttemptBudget
    <2> SUFFICES ASSUME IInv, NEW t \in Task
                 PROVE  /\ attempts[t] <= MaxAttempts[t]
                        /\ DeadLettered(t) => attempts[t] = MaxAttempts[t]
      BY DEF AttemptBudget
    <2>1. /\ WorkerInv(t) /\ worker[t] \in Worker
          /\ attempts[t] \in Nat /\ MaxAttempts[t] \in Nat \ {0}
      BY MaxAttemptsAssumption DEF IInv, TypeOK
    <2> QED  BY <2>1 DEF WorkerInv, DeadLettered
  <1> QED  BY <1>1, Invariance, PTL

\* The events of a task are one task.assigned and at most one terminal event,
\* the one its status calls for.
THEOREM EventsHold == Spec => []EventsTellTheStory
  <1>1. IInv => EventsTellTheStory
    BY DEF IInv
  <1> QED  BY <1>1, Invariance, PTL

\* InvalidTransition is raised only for a task somebody cancelled.
THEOREM RaisesOnlyIfCancelledHolds == Spec => []RaisesOnlyIfCancelled
  <1>1. IInv => RaisesOnlyIfCancelled
    BY DEF IInv, WorkerInv, RaisesOnlyIfCancelled
  <1> QED  BY <1>1, Invariance, PTL

\* Ancestors(t) is itself closed under dependsOn and holds the dependencies
\* of t.
LEMMA AncestorsClosed ==
    ASSUME TypeOK, NEW t \in Task
    PROVE  /\ Ancestors(t) \subseteq Task
           /\ dependsOn[t] \subseteq Ancestors(t)
           /\ \A v \in Ancestors(t) : dependsOn[v] \subseteq Ancestors(t)
  <1>1. Ancestors(t) \subseteq Task
    BY DEF Ancestors
  <1>2. \A v \in Task : dependsOn[v] \subseteq Task
    BY DEF TypeOK
  <1>3. dependsOn[t] \subseteq Ancestors(t)
    BY <1>2 DEF Ancestors
  <1>4. ASSUME NEW v \in Ancestors(t), NEW u \in dependsOn[v]
        PROVE  u \in Ancestors(t)
    <2>1. u \in Task
      BY <1>1, <1>2
    <2>2. ASSUME NEW S \in SUBSET Task, dependsOn[t] \subseteq S,
                 \A w \in S : dependsOn[w] \subseteq S
          PROVE  u \in S
      BY <2>2 DEF Ancestors
    <2> QED  BY <2>1, <2>2 DEF Ancestors
  <1> QED  BY <1>1, <1>3, <1>4

\* When run_graph returns, nothing runs and every task that is not completed
\* has its excuse.  A pending one has an ancestor that is dead-lettered or
\* cancelled: otherwise take, among the pending tasks at or above it, one
\* that depends on no other of them (the graph is acyclic); everything it
\* depends on has completed, so it is ready, which contradicts the return.
THEOREM SettledOnReturnHolds == Spec => []SettledOnReturn
  <1>1. IInv => SettledOnReturn
    <2> SUFFICES ASSUME IInv, runner = "returned", NEW t \in Task
                 PROVE  /\ worker[t] \notin Live
                        /\ \/ status[t] \in {"completed", "cancelled"}
                           \/ DeadLettered(t)
                           \/ /\ status[t] = "pending"
                              /\ \E u \in Ancestors(t) :
                                    DeadLettered(u) \/ status[u] = "cancelled"
      BY DEF SettledOnReturn
    <2>1. /\ TypeOK /\ Acyclic
          /\ \A u \in Task : WorkerInv(u) /\ worker[u] \in {"none", "returned"}
          /\ Complete \/ Ready = {}
      BY DEF IInv, RunnerInv
    <2>2. \A u \in Task : \/ status[u] \in {"completed", "cancelled", "pending"}
                          \/ DeadLettered(u)
      BY <2>1 DEF WorkerInv, DeadLettered
    <2>3. ASSUME status[t] = "pending"
          PROVE  \E u \in Ancestors(t) : DeadLettered(u) \/ status[u] = "cancelled"
      <3> SUFFICES ASSUME \A u \in Ancestors(t) :
                             ~ DeadLettered(u) /\ status[u] # "cancelled"
                   PROVE  FALSE
        OBVIOUS
      <3> DEFINE S == {u \in Ancestors(t) \cup {t} : status[u] = "pending"}
      <3>1. S \in SUBSET Task /\ S # {}
        BY <2>1, <2>3, AncestorsClosed
      <3>2. PICK u \in S : dependsOn[u] \cap S = {}
        BY <2>1, <3>1 DEF Acyclic
      <3>3. dependsOn[u] \subseteq Ancestors(t)
        BY <2>1, <3>2, AncestorsClosed
      <3>4. dependsOn[u] \subseteq Done
        BY <2>1, <2>2, <3>2, <3>3, AncestorsClosed DEF Done
      <3>5. u \in Ready
        BY <3>1, <3>2, <3>4 DEF Ready
      <3> QED  BY <2>1, <2>3, <3>5 DEF Complete
    <2> QED  BY <2>1, <2>2, <2>3
  <1> QED  BY <1>1, Invariance, PTL

-----------------------------------------------------------------------------
(* Action properties.                                                      *)

\* After run_graph has returned, been rejected or been cancelled there is no
\* worker left that could call an executor or emit.
THEOREM StillAfterTheEndHolds == Spec => StillAfterTheEnd
  <1>1. ASSUME IInv, [Next]_vars, runner \in {"returned", "rejected", "cancelled"}
        PROVE  attempts' = attempts /\ emitted' = emitted
    <2>1. \A t \in Task : worker[t] \notin Live
      BY <1>1 DEF IInv, RunnerInv
    <2>2. CASE RunGraph
      BY <2>2 DEF RunGraph, Reject, StartWave, Return, Raise
    <2>3. CASE CancelRun
      BY <2>3 DEF CancelRun
    <2>4. ASSUME NEW t \in Task, RunOne(t)
          PROVE  attempts' = attempts /\ emitted' = emitted
      BY <2>1, <2>4 DEF RunOne, Start, Retry, Succeed, FailAndBackOff,
                        FailForGood, InvalidTransition
    <2>5. ASSUME NEW t \in Task, CancelTask(t)
          PROVE  attempts' = attempts /\ emitted' = emitted
      BY <2>5 DEF CancelTask
    <2>6. CASE UNCHANGED vars
      BY <2>6 DEF vars
    <2> QED  BY <1>1, <2>2, <2>3, <2>4, <2>5, <2>6 DEF Next
  <1> QED  BY <1>1, Invariance, PTL DEF Spec, StillAfterTheEnd

\* No step moves a task that is completed, cancelled or dead-lettered.
THEOREM FinalIsFinalHolds == Spec => FinalIsFinal
  <1> DEFINE Final(t) == status[t] \in {"completed", "cancelled"} \/ DeadLettered(t)
             Kept(t) == /\ status'[t] = status[t] /\ attempts'[t] = attempts[t]
                        /\ worker[t] = "returned" => worker'[t] = "returned"
  <1>1. ASSUME IInv, [Next]_vars, NEW t \in Task, Final(t)
        PROVE  Kept(t)
    <2>t. /\ status \in [Task -> Status] /\ attempts \in [Task -> Nat]
          /\ worker \in [Task -> Worker] /\ WorkerInv(t)
      BY <1>1 DEF IInv, TypeOK
    <2>1. CASE RunGraph \/ CancelRun
      <3>1. t \notin Ready
        BY <1>1 DEF Ready, DeadLettered
      <3> QED  BY <2>1, <3>1 DEF RunGraph, Reject, StartWave, Return, Raise,
                                  CancelRun, Live
    <2>2. ASSUME NEW u \in Task, RunOne(u) PROVE Kept(t)
      <3>1. CASE u # t
        BY <2>2, <2>t, <3>1 DEF RunOne, Start, Retry, RunAttempt, Succeed,
              FailAndBackOff, FailForGood, InvalidTransition
      <3>2. CASE u = t
        <4>1. status[t] \in {"completed", "cancelled"} \/ worker[t] = "returned"
          BY <1>1 DEF DeadLettered
        <4>2. CASE Start(t) \/ Retry(t)
          <5>1. "assigned" \in Transitions[status[t]]
            BY <4>2, <2>t, MoveTwo DEF Start, Retry
          <5> QED  BY <4>1, <4>2, <5>1, <2>t, MoveFrom DEF Start, Retry
        <4>3. CASE Succeed(t)
          <5>1. "completed" \in Transitions[status[t]]
            BY <4>3, <2>t, MoveOne DEF Succeed
          <5> QED  BY <4>1, <4>3, <5>1, <2>t, MoveFrom DEF Succeed
        <4>4. CASE FailAndBackOff(t) \/ FailForGood(t)
          <5>1. "failed" \in Transitions[status[t]]
            BY <4>4, <2>t, MoveOne DEF FailAndBackOff, FailForGood
          <5> QED  BY <4>1, <4>4, <5>1, <2>t, MoveFrom DEF FailAndBackOff, FailForGood
        <4>5. CASE InvalidTransition(t)
          BY <4>5 DEF InvalidTransition
        <4> QED  BY <2>2, <3>2, <4>2, <4>3, <4>4, <4>5 DEF RunOne
      <3> QED  BY <3>1, <3>2
    <2>3. ASSUME NEW u \in Task, CancelTask(u) PROVE Kept(t)
      <3>1. "cancelled" \in Transitions[status[u]]
        BY <2>3, <2>t, MoveOne DEF CancelTask
      <3>2. u # t
        BY <1>1, <2>t, <3>1, MoveFrom DEF DeadLettered
      <3> QED  BY <2>3, <2>t, <3>2 DEF CancelTask
    <2>4. CASE UNCHANGED vars
      BY <2>4 DEF vars
    <2> QED  BY <1>1, <2>1, <2>2, <2>3, <2>4 DEF Next
  <1>2. IInv /\ [Next]_vars => [\A t \in Task : Final(t) => Kept(t)]_vars
    BY <1>1
  <1> QED  BY <1>2, Invariance, PTL DEF Spec, FinalIsFinal

-----------------------------------------------------------------------------
(* TaskManager implements DagExecution.                                    *)

LEMMA DagInit == Init => Dag!Init
  <1> SUFFICES ASSUME Init PROVE Dag!Init
    OBVIOUS
  <1>1. \A t \in Task : PhaseOf(t) = "todo"
    BY DEF Init, PhaseOf, DeadLettered
  <1>2. OutcomeOf = "open"
    BY DEF Init, OutcomeOf
  <1> QED  BY <1>1, <1>2 DEF Init, Dag!Init

\* A worker's step that leaves every task's phase alone is a stutter, one that
\* moves t from one phase to another is the abstract step of t.
LEMMA PhasesMove ==
    ASSUME TypeOK, TypeOK', NEW t \in Task,
           \A u \in Task \ {t} : status'[u] = status[u] /\ worker'[u] = worker[u]
    PROVE  [u \in Task |-> PhaseOf(u)'] = [[u \in Task |-> PhaseOf(u)]
                                            EXCEPT ![t] = PhaseOf(t)']
  <1>1. \A u \in Task \ {t} : PhaseOf(u)' = PhaseOf(u)
    BY DEF PhaseOf, DeadLettered
  <1> QED  BY <1>1

LEMMA DagStep == IInv /\ IInv' /\ [Next]_vars => [Dag!Next]_(Dag!vars)
  <1> SUFFICES ASSUME IInv, IInv', [Next]_vars
               PROVE  Dag!Next \/ UNCHANGED Dag!vars
    OBVIOUS
  <1> DEFINE phase == [u \in Task |-> PhaseOf(u)]
             phaseP == [u \in Task |-> PhaseOf(u)']
  <1>t. /\ TypeOK /\ TypeOK'
        /\ status \in [Task -> Status] /\ worker \in [Task -> Worker]
        /\ \A u \in Task : WorkerInv(u) /\ DependenciesDone(u)
    BY DEF IInv, TypeOK
  <1>1. CASE Reject \/ Raise
    <2>1. UNCHANGED <<dependsOn, status, worker>> /\ OutcomeOf = "open"
          /\ OutcomeOf' \in {"abandoned", "stopped"}
      BY <1>1 DEF Reject, Raise, OutcomeOf
    <2>2. phaseP = phase
      BY <2>1 DEF PhaseOf, DeadLettered
    <2> QED  BY <2>1, <2>2 DEF Dag!Next, Dag!GiveUp
  <1>2. CASE Return
    <2>1. UNCHANGED <<dependsOn, status, worker>> /\ OutcomeOf = "open"
          /\ OutcomeOf' = "finished"
      BY <1>2 DEF Return, AtLoopHead, OutcomeOf
    <2>2. phaseP = phase
      BY <2>1 DEF PhaseOf, DeadLettered
    <2>3. \A u \in Task : PhaseOf(u) # "active"
      <3>1. \A u \in Task : worker[u] \in {"none", "returned"}
        BY <1>2 DEF Return, AtLoopHead, IInv, RunnerInv
      <3> QED  BY <3>1, <1>t DEF WorkerInv, PhaseOf, DeadLettered
    <2>4. ASSUME NEW u \in Task, PhaseOf(u) = "todo",
                 \A v \in dependsOn[u] : phase[v] = "succeeded"
          PROVE  FALSE
      <3>1. status[u] = "pending"
        BY <2>4 DEF PhaseOf
      <3>2. dependsOn[u] \subseteq Task
        BY <1>t DEF TypeOK
      <3>3. dependsOn[u] \subseteq Done
        BY <2>4, <3>2 DEF PhaseOf, Done
      <3> QED  BY <1>2, <3>1, <3>3 DEF Return, Complete, Ready
    <2> QED  BY <2>1, <2>2, <2>3, <2>4 DEF Dag!Next, Dag!Finish, Dag!CanBegin
  <1>3. CASE StartWave
    <2>1. UNCHANGED <<dependsOn, status>> /\ OutcomeOf' = OutcomeOf
      BY <1>3 DEF StartWave, AtLoopHead, OutcomeOf
    <2>2. \A u \in Task : DeadLettered(u)' = DeadLettered(u)
      BY <1>3, <1>t DEF StartWave, Ready, DeadLettered
    <2>3. phaseP = phase
      BY <2>1, <2>2 DEF PhaseOf
    <2> QED  BY <2>1, <2>3 DEF Dag!vars
  <1>4. CASE CancelRun
    <2>1. UNCHANGED <<dependsOn, status>> /\ OutcomeOf = "open"
          /\ OutcomeOf' = "stopped"
      BY <1>4 DEF CancelRun, OutcomeOf
    <2>2. \A u \in Task : DeadLettered(u)' = DeadLettered(u)
      BY <1>4, <1>t DEF CancelRun, DeadLettered
    <2>3. phaseP = phase
      BY <2>1, <2>2 DEF PhaseOf
    <2> QED  BY <2>1, <2>3 DEF Dag!Next, Dag!GiveUp
  <1>5. ASSUME NEW t \in Task, RunOne(t)
        PROVE  Dag!Next \/ UNCHANGED Dag!vars
    <2>0. /\ dependsOn' = dependsOn /\ runner' = runner /\ OutcomeOf' = OutcomeOf
          /\ \A u \in Task \ {t} : status'[u] = status[u] /\ worker'[u] = worker[u]
      BY <1>5, <1>t DEF RunOne, Start, Retry, RunAttempt, Succeed, FailAndBackOff,
                        FailForGood, InvalidTransition, OutcomeOf
    <2>1. phaseP = [phase EXCEPT ![t] = PhaseOf(t)']
      BY <2>0, <1>t, PhasesMove
    <2>2. worker[t] \in Live
      BY <1>5 DEF RunOne, Start, Retry, Succeed, FailAndBackOff, FailForGood,
                  InvalidTransition
    <2>3. OutcomeOf \in {"open", "abandoned"}
      BY <2>2, <1>t DEF IInv, TypeOK, RunnerInv, OutcomeOf
    <2>4. CASE PhaseOf(t)' = PhaseOf(t)
      <3>1. phaseP = phase
        BY <2>1, <2>4
      <3> QED  BY <2>0, <3>1 DEF Dag!vars
    <2>5. CASE Start(t)
      <3>1. "assigned" \in Transitions[status[t]]
        BY <2>5, <1>t, MoveTwo DEF Start
      <3>2. status[t] = "pending" /\ worker[t] = "created"
        BY <2>5, <3>1, <1>t, MoveFrom DEF Start, WorkerInv
      <3>3. phase[t] = "todo" /\ PhaseOf(t)' = "active"
        BY <2>5, <3>2, <1>t DEF Start, RunAttempt, PhaseOf, DeadLettered
      <3>4. \A v \in dependsOn[t] : phase[v] = "succeeded"
        <4>1. dependsOn[t] \subseteq Done /\ Done \subseteq Task
          BY <3>2, <1>t DEF DependenciesDone, Done
        <4>2. \A v \in Done : PhaseOf(v) = "succeeded"
          BY DEF Done, PhaseOf, DeadLettered
        <4> QED  BY <4>1, <4>2
      <3> QED  BY <2>0, <2>1, <2>3, <3>3, <3>4 DEF Dag!Next, Dag!Begin, Dag!CanBegin
    <2>6. CASE Retry(t)
      BY <2>4, <2>6, <1>t DEF Retry, RunAttempt, WorkerInv, PhaseOf, DeadLettered
    <2>7. CASE Succeed(t)
      <3>1. "completed" \in Transitions[status[t]]
        BY <2>7, <1>t, MoveOne DEF Succeed
      <3>2. phase[t] = "active" /\ PhaseOf(t)' = "succeeded"
        BY <2>7, <3>1, <1>t, MoveFrom DEF Succeed, PhaseOf, DeadLettered
      <3> QED  BY <2>0, <2>1, <2>3, <3>2 DEF Dag!Next, Dag!End
    <2>8. CASE FailAndBackOff(t)
      <3>1. "failed" \in Transitions[status[t]]
        BY <2>8, <1>t, MoveOne DEF FailAndBackOff
      <3> QED  BY <2>4, <2>8, <3>1, <1>t, MoveFrom
               DEF FailAndBackOff, PhaseOf, DeadLettered
    <2>9. CASE FailForGood(t)
      <3>1. "failed" \in Transitions[status[t]]
        BY <2>9, <1>t, MoveOne DEF FailForGood
      <3>2. phase[t] = "active" /\ PhaseOf(t)' = "failed"
        BY <2>9, <3>1, <1>t, MoveFrom DEF FailForGood, PhaseOf, DeadLettered
      <3> QED  BY <2>0, <2>1, <2>3, <3>2 DEF Dag!Next, Dag!End
    <2>10. CASE InvalidTransition(t)
      <3>1. PhaseOf(t)' = PhaseOf(t)
        BY <2>10, <2>2, <1>t DEF InvalidTransition, PhaseOf, DeadLettered
      <3> QED  BY <2>4, <3>1
    <2> QED  BY <1>5, <2>5, <2>6, <2>7, <2>8, <2>9, <2>10 DEF RunOne
  <1>6. ASSUME NEW t \in Task, CancelTask(t)
        PROVE  Dag!Next \/ UNCHANGED Dag!vars
    <2>1. /\ UNCHANGED <<dependsOn, worker, runner>> /\ OutcomeOf' = OutcomeOf
          /\ \A u \in Task \ {t} : status'[u] = status[u]
          /\ status'[t] = "cancelled"
      BY <1>6, <1>t DEF CancelTask, OutcomeOf
    <2>2. "cancelled" \in Transitions[status[t]]
      BY <1>6, <1>t, MoveOne DEF CancelTask
    <2>3. phase[t] \in {"todo", "active"} /\ PhaseOf(t)' = "withdrawn"
      BY <2>1, <2>2, <1>t, MoveFrom DEF PhaseOf, DeadLettered
    <2>4. phaseP = [phase EXCEPT ![t] = PhaseOf(t)']
      BY <2>1, <1>t, PhasesMove
    <2> QED  BY <2>1, <2>3, <2>4 DEF Dag!Next, Dag!Withdraw
  <1>7. CASE UNCHANGED vars
    BY <1>7 DEF vars, Dag!vars, PhaseOf, DeadLettered, OutcomeOf
  <1> QED  BY <1>1, <1>2, <1>3, <1>4, <1>5, <1>6, <1>7 DEF Next, RunGraph

\* Every behaviour of the Task Manager, seen through PhaseOf and OutcomeOf, is
\* one DagExecution allows.
THEOREM ImplementsDag == Spec => DagSpec
  <1>1. IInv /\ IInv' /\ [Next]_vars => [Dag!Next]_(Dag!vars)
    BY DagStep
  <1> QED  BY DagInit, <1>1, Invariance, PTL DEF Spec, DagSpec, Dag!Spec
=============================================================================
