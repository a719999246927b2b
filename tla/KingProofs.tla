------------------------------ MODULE KingProofs ------------------------------
(***************************************************************************)
(* Proofs about King: for any number of concurrent requests, any plans and *)
(* any interleaving of runs, monitors, drains and cancellations.           *)
(***************************************************************************)
EXTENDS King, FiniteSetTheorems, TLAPS

Status == {"pending", "running", "completed", "failed"}

\* The state has its type, and the families of plans are families.
TypeInv == /\ TypeOK
           /\ task = [r \in Request |-> task[r]]

\* A monitor is subscribed from the start of a run to the end of the drain, or for
\* good if the request was cancelled or there is no Task Manager; a run that has
\* returned is settled, and so is one that failed, unless it never began.
StageInv(r) ==
    /\ stage[r] = "called" =>
          /\ r \notin subscribed
          /\ \A t \in TasksOf[r] : task[r][t] = "pending"
          /\ \A topic \in Topic : seen[r][topic].own = 0 /\ emitted[r][topic] = 0
    /\ stage[r] \in {"running", "draining"} => r \in subscribed
    /\ r \in subscribed => \/ stage[r] \in {"running", "draining", "cancelled"}
                          \/ (stage[r] = "failed" /\ ~ wired)
    /\ stage[r] \in {"draining", "answered"} => Settled(r)
    /\ stage[r] = "failed" =>
          (\A t \in TasksOf[r] : task[r][t] = "pending") \/ Settled(r)

\* A queue goes with its subscription, and a request's own events are some of all.
QueueInv(r) ==
    /\ r \notin subscribed => queue[r] = NoEvents
    /\ \A topic \in Topic : queue[r][topic].own <= queue[r][topic].all

\* One event was published for each step a task has made.
BooksInv(r) ==
    /\ emitted[r]["task.assigned"] = CountTasks(r, {"running", "completed", "failed"})
    /\ emitted[r]["task.completed"] = CountTasks(r, {"completed"})
    /\ emitted[r]["task.dead_letter"] = CountTasks(r, {"failed"})

\* Nothing of the request is missing from its monitor.
OwnInv(r) ==
    r \in subscribed =>
        \A topic \in Topic :
            seen[r][topic].own + queue[r][topic].own = emitted[r][topic]

\* The answer is that of the tasks as they are, and after an idle drain the monitor
\* had seen everything.
AnswerInv(r) ==
    /\ drained[r] => stage[r] \in {"answered", "failed"}
    /\ stage[r] = "answered" => answer[r] = Merge(r)
    /\ stage[r] = "answered" /\ drained[r] =>
          \A topic \in Topic : seen[r][topic].own = emitted[r][topic]

RequestInv(r) == /\ StageInv(r)
                 /\ QueueInv(r)
                 /\ BooksInv(r)
                 /\ OwnInv(r)
                 /\ AnswerInv(r)

\* The inductive invariant.
IInv == TypeInv /\ \A r \in Request : RequestInv(r)


-----------------------------------------------------------------------------
(* Counting tasks by status.                                               *)

Among(r, Q) == {t \in TasksOf[r] : task[r][t] \in Q}

LEMMA AmongFinite ==
    ASSUME NEW r \in Request, NEW Q
    PROVE  /\ IsFiniteSet(Among(r, Q))
           /\ CountTasks(r, Q) = Cardinality(Among(r, Q))
           /\ CountTasks(r, Q) \in Nat
  <1>1. IsFiniteSet(TasksOf[r]) /\ Among(r, Q) \subseteq TasksOf[r]
    BY PlansAssumption DEF Among
  <1>2. IsFiniteSet(Among(r, Q))
    BY <1>1, FS_Subset
  <1>3. CountTasks(r, Q) = Cardinality(Among(r, Q))
    BY DEF CountTasks, Among
  <1> QED  BY <1>2, <1>3, FS_CardinalityType

\* The tasks of two kinds are those of the one and those of the other.
LEMMA CountSplit ==
    ASSUME NEW r \in Request, NEW A, NEW B, A \cap B = {}
    PROVE  CountTasks(r, A \cup B) = CountTasks(r, A) + CountTasks(r, B)
  <1>1. /\ Among(r, A \cup B) = Among(r, A) \cup Among(r, B)
        /\ Among(r, A) \cap Among(r, B) = {}
    BY DEF Among
  <1>2. /\ IsFiniteSet(Among(r, A)) /\ IsFiniteSet(Among(r, B))
        /\ CountTasks(r, A) = Cardinality(Among(r, A)) /\ CountTasks(r, A) \in Nat
        /\ CountTasks(r, B) = Cardinality(Among(r, B)) /\ CountTasks(r, B) \in Nat
        /\ CountTasks(r, A \cup B) = Cardinality(Among(r, A \cup B))
    BY AmongFinite
  <1>3. Cardinality(Among(r, A) \cup Among(r, B))
          = Cardinality(Among(r, A)) + Cardinality(Among(r, B))
                - Cardinality(Among(r, A) \cap Among(r, B))
    BY <1>2, FS_Union
  <1>4. Cardinality(Among(r, A) \cap Among(r, B)) = 0
    BY <1>1, FS_EmptySet
  <1>5. CountTasks(r, A \cup B) = CountTasks(r, A) + CountTasks(r, B) - 0
    BY <1>1, <1>2, <1>3, <1>4
  <1> QED  BY <1>2, <1>5

\* Every task has one of the four statuses.
LEMMA CountAll ==
    ASSUME TypeOK, NEW r \in Request, NEW Q, NEW R, Q \cup R = Status, Q \cap R = {}
    PROVE  CountTasks(r, Q) + CountTasks(r, R) = Cardinality(TasksOf[r])
  <1>1. Among(r, Status) = TasksOf[r]
    BY DEF Among, Status, TypeOK
  <1>2. CountTasks(r, Status) = Cardinality(TasksOf[r])
    BY <1>1, AmongFinite
  <1> QED  BY <1>2, CountSplit

\* No task of a status.
LEMMA CountNone ==
    ASSUME NEW r \in Request, NEW Q, \A t \in TasksOf[r] : task[r][t] \notin Q
    PROVE  CountTasks(r, Q) = 0
  <1>1. Among(r, Q) = {}
    BY DEF Among
  <1> QED  BY <1>1, AmongFinite, FS_EmptySet

\* A task takes a step.
Steps(r, t, from, to) == /\ task[r][t] = from
                         /\ task' = [task EXCEPT ![r][t] = to]

LEMMA StepFacts ==
    ASSUME TypeInv, NEW r \in Request, NEW t \in TasksOf[r],
           NEW from, NEW to, Steps(r, t, from, to)
    PROVE  /\ task' = [q \in Request |-> task'[q]]
           /\ \A q \in Request \ {r} : task'[q] = task[q]
           /\ task'[r][t] = to
           /\ \A u \in TasksOf[r] \ {t} : task'[r][u] = task[r][u]
           /\ to \in Status => task'[r] \in [TasksOf[r] -> Status]
  <1>1. task[r] \in [TasksOf[r] -> Status] /\ task = [q \in Request |-> task[q]]
    BY DEF TypeInv, TypeOK, Status
  <1>2. task' = [q \in Request |->
                   IF q = r THEN [task[r] EXCEPT ![t] = to] ELSE task[q]]
    BY <1>1 DEF Steps
  <1>3. task'[r] = [task[r] EXCEPT ![t] = to] /\ \A q \in Request \ {r} : task'[q] = task[q]
    BY <1>2
  <1>4. task' = [q \in Request |-> task'[q]]
    BY <1>2
  <1> QED  BY <1>1, <1>3, <1>4

LEMMA CountStep ==
    ASSUME TypeInv, NEW r \in Request, NEW t \in TasksOf[r],
           NEW from, NEW to, Steps(r, t, from, to), NEW Q
    PROVE  /\ from \in Q <=> to \in Q => CountTasks(r, Q)' = CountTasks(r, Q)
           /\ from \notin Q /\ to \in Q => CountTasks(r, Q)' = CountTasks(r, Q) + 1
  <1>1. /\ task[r][t] = from /\ task'[r][t] = to
        /\ \A u \in TasksOf[r] \ {t} : task'[r][u] = task[r][u]
    <2>1. task[r][t] = from
      BY DEF Steps
    <2>2. task'[r][t] = to /\ \A u \in TasksOf[r] \ {t} : task'[r][u] = task[r][u]
      BY StepFacts
    <2> QED  BY <2>1, <2>2
  <1>2. /\ IsFiniteSet(Among(r, Q))
        /\ CountTasks(r, Q) = Cardinality(Among(r, Q))
        /\ CountTasks(r, Q)' = Cardinality(Among(r, Q)')
    BY AmongFinite DEF CountTasks, Among
  <1>3. ASSUME from \in Q <=> to \in Q  PROVE  CountTasks(r, Q)' = CountTasks(r, Q)
    <2>1. Among(r, Q)' = Among(r, Q)
      BY <1>1, <1>3 DEF Among
    <2> QED  BY <1>2, <2>1
  <1>4. ASSUME from \notin Q, to \in Q
        PROVE  CountTasks(r, Q)' = CountTasks(r, Q) + 1
    <2>1. Among(r, Q)' = Among(r, Q) \cup {t} /\ t \notin Among(r, Q)
      BY <1>1, <1>4 DEF Among
    <2>2. Cardinality(Among(r, Q) \cup {t}) = Cardinality(Among(r, Q)) + 1
      BY <1>2, <2>1, FS_AddElement
    <2> QED  BY <1>2, <2>1, <2>2
  <1> QED  BY <1>3, <1>4

-----------------------------------------------------------------------------
(* Publishing.                                                             *)

\* What one more event of request r in a topic makes of a monitor's queue.
Grown(m, r, count) == [all |-> count.all + 1,
                       own |-> IF m = r THEN count.own + 1 ELSE count.own]

LEMMA PublishFacts ==
    ASSUME TypeOK, NEW r \in Request, NEW topic \in Topic, Publish(r, topic)
    PROVE  /\ emitted' \in [Request -> [Topic -> Nat]]
           /\ queue' \in [Request -> [Topic -> Count]]
           /\ emitted'[r][topic] = emitted[r][topic] + 1
           /\ \A k \in Topic \ {topic} : emitted'[r][k] = emitted[r][k]
           /\ \A q \in Request \ {r} : emitted'[q] = emitted[q]
           /\ \A m \in Request : m \notin subscribed => queue'[m] = queue[m]
           /\ \A m \in subscribed, k \in Topic \ {topic} : queue'[m][k] = queue[m][k]
           /\ \A m \in subscribed : queue'[m][topic] = Grown(m, r, queue[m][topic])
  <1>1. /\ emitted \in [Request -> [Topic -> Nat]] /\ queue \in [Request -> [Topic -> Count]]
        /\ subscribed \subseteq Request
    BY DEF TypeOK
  <1>2. emitted' = [emitted EXCEPT ![r][topic] = emitted[r][topic] + 1]
    BY DEF Publish
  <1>3. queue' = [m \in Request |->
                    IF m \in subscribed
                    THEN [queue[m] EXCEPT ![topic] = Grown(m, r, queue[m][topic])]
                    ELSE queue[m]]
    <2>1. \A m \in Request :
             [queue[m] EXCEPT ![topic].all = @ + 1,
                              ![topic].own = IF m = r THEN @ + 1 ELSE @]
                = [queue[m] EXCEPT ![topic] = Grown(m, r, queue[m][topic])]
      <3> TAKE m \in Request
      <3>1. queue[m] \in [Topic -> Count] /\ queue[m][topic] \in Count
        BY <1>1
      <3> QED  BY <3>1 DEF Grown, Count
    <2>2. queue' = [m \in Request |->
                      IF m \in subscribed
                      THEN [queue[m] EXCEPT ![topic].all = @ + 1,
                                            ![topic].own = IF m = r THEN @ + 1 ELSE @]
                      ELSE queue[m]]
      BY DEF Publish
    <2> QED  BY <2>1, <2>2
  <1>4. \A m \in Request, k \in Topic : queue[m][k] \in Count
    BY <1>1
  <1>5. \A m \in Request : Grown(m, r, queue[m][topic]) \in Count
    BY <1>4 DEF Grown, Count
  <1>6. queue' \in [Request -> [Topic -> Count]]
    BY <1>1, <1>3, <1>5
  <1> QED  BY <1>1, <1>2, <1>3, <1>6


-----------------------------------------------------------------------------
(* What leaves the tasks of a request alone.                               *)

LEMMA SameTasks ==
    ASSUME NEW r \in Request, task'[r] = task[r], dependsOn' = dependsOn
    PROVE  /\ \A Q : CountTasks(r, Q)' = CountTasks(r, Q)
           /\ Merge(r)' = Merge(r)
           /\ Settled(r)' <=> Settled(r)
           /\ BooksInv(r) /\ emitted'[r] = emitted[r] => BooksInv(r)'
  <1>1. \A Q : CountTasks(r, Q)' = CountTasks(r, Q)
    BY DEF CountTasks
  <1>2. Merge(r)' = Merge(r)
    BY DEF Merge, CountTasks
  <1>3. Settled(r)' <=> Settled(r)
    BY DEF Settled, CanBegin
  <1>4. BooksInv(r) /\ emitted'[r] = emitted[r] => BooksInv(r)'
    BY DEF BooksInv, CountTasks
  <1> QED  BY <1>1, <1>2, <1>3, <1>4

\* Nothing happens to request r but that others' events may join its queue.
Elsewhere(r) ==
    /\ wired' = wired
    /\ stage'[r] = stage[r] /\ task'[r] = task[r] /\ dependsOn' = dependsOn
    /\ seen'[r] = seen[r] /\ answer'[r] = answer[r]
    /\ emitted'[r] = emitted[r] /\ drained'[r] = drained[r]
    /\ r \in subscribed' <=> r \in subscribed
    /\ r \notin subscribed => queue'[r] = queue[r]
    /\ \A topic \in Topic : /\ queue'[r][topic].own = queue[r][topic].own
                            /\ queue'[r][topic].all >= queue[r][topic].all

LEMMA ElsewhereFrame ==
    ASSUME TypeOK, TypeOK', NEW r \in Request, RequestInv(r), Elsewhere(r)
    PROVE  RequestInv(r)'
  <1>1. /\ Merge(r)' = Merge(r)
        /\ Settled(r)' <=> Settled(r)
        /\ BooksInv(r)'
    BY SameTasks DEF RequestInv, Elsewhere
  <1>2. StageInv(r)'
    BY <1>1 DEF RequestInv, StageInv, Elsewhere
  <1>3. QueueInv(r)'
    <2>1. r \notin subscribed' => queue'[r] = NoEvents
      BY DEF RequestInv, QueueInv, Elsewhere
    <2>2. ASSUME NEW topic \in Topic
          PROVE  queue'[r][topic].own <= queue'[r][topic].all
      <3>1. queue[r][topic] \in Count /\ queue'[r][topic] \in Count
        BY DEF TypeOK
      <3>2. /\ queue[r][topic].own <= queue[r][topic].all
            /\ queue'[r][topic].own = queue[r][topic].own
            /\ queue'[r][topic].all >= queue[r][topic].all
        BY DEF RequestInv, QueueInv, Elsewhere
      <3> QED  BY <3>1, <3>2 DEF Count
    <2> QED  BY <2>1, <2>2 DEF QueueInv
  <1>4. OwnInv(r)'
    BY DEF RequestInv, OwnInv, Elsewhere
  <1>5. AnswerInv(r)'
    BY <1>1 DEF RequestInv, AnswerInv, Elsewhere
  <1> QED  BY <1>1, <1>2, <1>3, <1>4, <1>5 DEF RequestInv

-----------------------------------------------------------------------------
(* The start of a request, its cancellation, and the return of its run.    *)

LEMMA InitInv == Init => IInv
  <1> SUFFICES ASSUME Init  PROVE  IInv
    OBVIOUS
  <1>1. /\ wired \in BOOLEAN
        /\ stage = [r \in Request |-> "called"]
        /\ task = [r \in Request |-> [t \in TasksOf[r] |-> "pending"]]
        /\ subscribed = {}
        /\ queue = [r \in Request |-> NoEvents]
        /\ seen = [r \in Request |-> NoEvents]
        /\ answer = [r \in Request |-> NoAnswer]
        /\ emitted = [r \in Request |-> [topic \in Topic |-> 0]]
        /\ drained = [r \in Request |-> FALSE]
    BY DEF Init
  <1>2. \A r \in Request : dependsOn[r] \in PlansOf[r]
    BY DEF Init
  <1>3. NoEvents \in [Topic -> Count] /\ NoAnswer \in [completed : Nat, failed : Nat]
    BY DEF NoEvents, Count, NoAnswer
  <1>4. TypeInv
    BY <1>1, <1>2, <1>3 DEF TypeInv, TypeOK, Stage
  <1>5. ASSUME NEW r \in Request  PROVE  RequestInv(r)
    <2>1. \A topic \in Topic : /\ queue[r][topic].own = 0 /\ queue[r][topic].all = 0
                               /\ seen[r][topic].own = 0 /\ emitted[r][topic] = 0
      BY <1>1 DEF NoEvents
    <2>2. StageInv(r) /\ QueueInv(r) /\ OwnInv(r) /\ AnswerInv(r)
      BY <1>1, <2>1 DEF StageInv, QueueInv, OwnInv, AnswerInv
    <2>3. \A t \in TasksOf[r] : task[r][t] = "pending"
      BY <1>1
    <2>4. /\ CountTasks(r, {"running", "completed", "failed"}) = 0
          /\ CountTasks(r, {"completed"}) = 0 /\ CountTasks(r, {"failed"}) = 0
      BY <2>3, CountNone
    <2>5. BooksInv(r)
      BY <2>1, <2>4 DEF BooksInv, Topic
    <2> QED  BY <2>2, <2>5 DEF RequestInv
  <1> QED  BY <1>4, <1>5 DEF IInv

\* Steps of one request that its tasks, events and counts have no part in.
LEMMA StageStep ==
    ASSUME IInv, NEW r \in Request,
           UNCHANGED <<wired, dependsOn, task, queue, seen, answer, emitted, drained>>,
           stage' \in [Request -> Stage], subscribed' \subseteq Request,
           \A q \in Request \ {r} : stage'[q] = stage[q],
           subscribed' \ {r} = subscribed \ {r},
           StageInv(r)', QueueInv(r)', OwnInv(r)', AnswerInv(r)'
    PROVE  IInv'
  <1>1. TypeInv' /\ TypeOK /\ TypeOK'
    BY DEF IInv, TypeInv, TypeOK
  <1>2. ASSUME NEW q \in Request \ {r}  PROVE  RequestInv(q)'
    <2>1. \A topic \in Topic : queue[q][topic] \in Count
      BY <1>1 DEF TypeOK
    <2>2. \A topic \in Topic : queue'[q][topic].all >= queue[q][topic].all
      BY <2>1 DEF Count
    <2>3. Elsewhere(q)
      BY <2>2 DEF Elsewhere
    <2> QED  BY <1>1, <2>3, ElsewhereFrame DEF IInv
  <1>3. BooksInv(r)'
    BY SameTasks DEF IInv, RequestInv
  <1> QED  BY <1>1, <1>2, <1>3 DEF IInv, RequestInv

LEMMA RecallFailsInv ==
    ASSUME IInv, NEW r \in Request, RecallFails(r)  PROVE  IInv'
  <1>1. /\ stage[r] = "called" /\ stage' = [stage EXCEPT ![r] = "failed"]
        /\ stage \in [Request -> Stage] /\ subscribed \subseteq Request
        /\ UNCHANGED <<wired, dependsOn, task, subscribed, queue, seen, answer, emitted, drained>>
    BY DEF RecallFails, Move, IInv, TypeInv, TypeOK
  <1>2. stage' \in [Request -> Stage] /\ stage'[r] = "failed"
        /\ \A q \in Request \ {r} : stage'[q] = stage[q]
    BY <1>1 DEF Stage
  <1>3. StageInv(r) /\ QueueInv(r) /\ OwnInv(r) /\ AnswerInv(r)
    BY DEF IInv, RequestInv
  <1>4. StageInv(r)'
    BY <1>1, <1>2, <1>3 DEF StageInv
  <1>5. QueueInv(r)' /\ OwnInv(r)' /\ AnswerInv(r)'
    BY <1>1, <1>2, <1>3 DEF QueueInv, OwnInv, AnswerInv
  <1> QED  BY <1>1, <1>2, <1>4, <1>5, StageStep

LEMMA RecalledInv ==
    ASSUME IInv, NEW r \in Request, Recalled(r)  PROVE  IInv'
  <1>1. /\ stage[r] = "called" /\ stage' = [stage EXCEPT ![r] = "running"]
        /\ stage \in [Request -> Stage] /\ subscribed \subseteq Request
        /\ subscribed' = subscribed \cup {r}
        /\ UNCHANGED <<wired, dependsOn, task, queue, seen, answer, emitted, drained>>
    BY DEF Recalled, Move, IInv, TypeInv, TypeOK
  <1>2. stage' \in [Request -> Stage] /\ stage'[r] = "running"
        /\ \A q \in Request \ {r} : stage'[q] = stage[q]
    BY <1>1 DEF Stage
  <1>3. StageInv(r) /\ QueueInv(r) /\ OwnInv(r) /\ AnswerInv(r)
    BY DEF IInv, RequestInv
  <1>4. StageInv(r)'
    BY <1>1, <1>2, <1>3 DEF StageInv
  <1>5. QueueInv(r)' /\ AnswerInv(r)'
    BY <1>1, <1>2, <1>3 DEF QueueInv, AnswerInv
  <1>6. OwnInv(r)'
    <2>1. queue[r] = NoEvents
      BY <1>1, <1>3 DEF StageInv, QueueInv
    <2>2. \A topic \in Topic : /\ seen[r][topic].own = 0 /\ emitted[r][topic] = 0
                               /\ queue[r][topic].own = 0
      BY <1>1, <1>3, <2>1 DEF StageInv, NoEvents
    <2>3. \A topic \in Topic : seen[r][topic].own + queue[r][topic].own = emitted[r][topic]
      BY <2>2
    <2> QED  BY <1>1, <2>3 DEF OwnInv
  <1> QED  BY <1>1, <1>2, <1>4, <1>5, <1>6, StageStep

\* Without a Task Manager: the monitor stays, the request is over.
LEMMA NoTaskManagerInv ==
    ASSUME IInv, NEW r \in Request, NoTaskManager(r)  PROVE  IInv'
  <1>1. /\ ~ wired /\ stage[r] = "called" /\ stage' = [stage EXCEPT ![r] = "failed"]
        /\ stage \in [Request -> Stage] /\ subscribed \subseteq Request
        /\ subscribed' = subscribed \cup {r}
        /\ UNCHANGED <<wired, dependsOn, task, queue, seen, answer, emitted, drained>>
    BY DEF NoTaskManager, Move, IInv, TypeInv, TypeOK
  <1>2. stage' \in [Request -> Stage] /\ stage'[r] = "failed"
        /\ \A q \in Request \ {r} : stage'[q] = stage[q]
    BY <1>1 DEF Stage
  <1>3. StageInv(r) /\ QueueInv(r) /\ OwnInv(r) /\ AnswerInv(r)
    BY DEF IInv, RequestInv
  <1>4. StageInv(r)'
    BY <1>1, <1>2, <1>3 DEF StageInv
  <1>5. QueueInv(r)' /\ AnswerInv(r)'
    BY <1>1, <1>2, <1>3 DEF QueueInv, AnswerInv
  <1>6. OwnInv(r)'
    <2>1. queue[r] = NoEvents
      BY <1>1, <1>3 DEF StageInv, QueueInv
    <2>2. \A topic \in Topic : /\ seen[r][topic].own = 0 /\ emitted[r][topic] = 0
                               /\ queue[r][topic].own = 0
      BY <1>1, <1>3, <2>1 DEF StageInv, NoEvents
    <2>3. \A topic \in Topic : seen[r][topic].own + queue[r][topic].own = emitted[r][topic]
      BY <2>2
    <2> QED  BY <1>1, <2>3 DEF OwnInv
  <1> QED  BY <1>1, <1>2, <1>4, <1>5, <1>6, StageStep

LEMMA RunReturnsInv ==
    ASSUME IInv, NEW r \in Request, RunReturns(r)  PROVE  IInv'
  <1>1. /\ stage[r] = "running" /\ stage' = [stage EXCEPT ![r] = "draining"]
        /\ stage \in [Request -> Stage] /\ subscribed \subseteq Request
        /\ UNCHANGED <<wired, dependsOn, task, subscribed, queue, seen, answer, emitted, drained>>
    BY DEF RunReturns, Move, IInv, TypeInv, TypeOK
  <1>2. stage' \in [Request -> Stage] /\ stage'[r] = "draining"
        /\ \A q \in Request \ {r} : stage'[q] = stage[q]
    BY <1>1 DEF Stage
  <1>3. StageInv(r) /\ QueueInv(r) /\ OwnInv(r) /\ AnswerInv(r)
    BY DEF IInv, RequestInv
  <1>4. Settled(r)'
    BY <1>1 DEF RunReturns, Settled, CanBegin
  <1>5. StageInv(r)'
    BY <1>1, <1>2, <1>3, <1>4 DEF StageInv
  <1>6. QueueInv(r)' /\ OwnInv(r)' /\ AnswerInv(r)'
    BY <1>1, <1>2, <1>3 DEF QueueInv, OwnInv, AnswerInv
  <1> QED  BY <1>1, <1>2, <1>5, <1>6, StageStep

LEMMA CancelInv ==
    ASSUME IInv, NEW r \in Request, Cancel(r)  PROVE  IInv'
  <1>1. /\ stage[r] \in {"called", "running", "draining"}
        /\ stage' = [stage EXCEPT ![r] = "cancelled"]
        /\ stage \in [Request -> Stage] /\ subscribed \subseteq Request
        /\ UNCHANGED <<wired, dependsOn, task, subscribed, queue, seen, answer, emitted, drained>>
    BY DEF Cancel, IInv, TypeInv, TypeOK
  <1>2. stage' \in [Request -> Stage] /\ stage'[r] = "cancelled"
        /\ \A q \in Request \ {r} : stage'[q] = stage[q]
    BY <1>1 DEF Stage
  <1>3. StageInv(r) /\ QueueInv(r) /\ OwnInv(r) /\ AnswerInv(r)
    BY DEF IInv, RequestInv
  <1>4. StageInv(r)'
    BY <1>1, <1>2, <1>3 DEF StageInv
  <1>5. QueueInv(r)' /\ OwnInv(r)' /\ AnswerInv(r)'
    BY <1>1, <1>2, <1>3 DEF QueueInv, OwnInv, AnswerInv
  <1> QED  BY <1>1, <1>2, <1>4, <1>5, StageStep


-----------------------------------------------------------------------------
(* The steps of a run.                                                     *)

LEMMA TopicStatus == /\ "task.assigned" \in Topic /\ "task.completed" \in Topic
                     /\ "task.dead_letter" \in Topic
  BY DEF Topic

\* The step of a task and the event that tells of it.
TaskStep(r, t, from, to, topic) ==
    /\ stage[r] = "running"
    /\ Steps(r, t, from, to)
    /\ Publish(r, topic)
    /\ UNCHANGED <<wired, stage, dependsOn, subscribed, seen, answer, drained>>

LEMMA TaskStepType ==
    ASSUME TypeInv, NEW r \in Request, NEW t \in TasksOf[r], NEW from, NEW to \in Status,
           NEW topic \in Topic, TaskStep(r, t, from, to, topic)
    PROVE  TypeInv'
  <1>1. Steps(r, t, from, to) /\ Publish(r, topic)
        /\ UNCHANGED <<wired, stage, dependsOn, subscribed, seen, answer, drained>>
    BY DEF TaskStep
  <1>2. /\ task' = [q \in Request |-> task'[q]]
        /\ \A q \in Request \ {r} : task'[q] = task[q]
        /\ task'[r] \in [TasksOf[r] -> Status]
    BY <1>1, StepFacts
  <1>3. \A q \in Request : task'[q] \in [TasksOf[q] -> Status]
    BY <1>2 DEF TypeInv, TypeOK, Status
  <1>4. /\ emitted' \in [Request -> [Topic -> Nat]]
        /\ queue' \in [Request -> [Topic -> Count]]
    BY <1>1, PublishFacts DEF TypeInv
  <1> QED  BY <1>1, <1>2, <1>3, <1>4 DEF TypeInv, TypeOK, Status

\* The monitors of the others see the event pass.
LEMMA TaskStepOthers ==
    ASSUME IInv, NEW r \in Request, NEW t \in TasksOf[r], NEW from, NEW to \in Status,
           NEW topic \in Topic, TaskStep(r, t, from, to, topic), NEW q \in Request \ {r}
    PROVE  RequestInv(q)'
  <1>1. /\ Steps(r, t, from, to) /\ Publish(r, topic)
        /\ UNCHANGED <<wired, stage, dependsOn, subscribed, seen, answer, drained>>
    BY DEF TaskStep
  <1>2. TypeInv /\ TypeInv' /\ TypeOK /\ TypeOK' /\ RequestInv(q)
    BY TaskStepType DEF IInv, TypeInv
  <1>3. task'[q] = task[q]
    BY <1>1, <1>2, StepFacts
  <1>4. /\ emitted'[q] = emitted[q]
        /\ q \notin subscribed => queue'[q] = queue[q]
        /\ q \in subscribed =>
              /\ \A k \in Topic \ {topic} : queue'[q][k] = queue[q][k]
              /\ queue'[q][topic] = Grown(q, r, queue[q][topic])
    BY <1>1, <1>2, PublishFacts
  <1>5. \A k \in Topic : queue[q][k] \in Count
    BY <1>2 DEF TypeOK
  <1>6. ASSUME NEW k \in Topic
        PROVE  /\ queue'[q][k].own = queue[q][k].own
               /\ queue'[q][k].all >= queue[q][k].all
    <2>1. \/ queue'[q][k] = queue[q][k]
          \/ queue'[q][k] = Grown(q, r, queue[q][k])
      BY <1>4
    <2>2. /\ Grown(q, r, queue[q][k]).own = queue[q][k].own
          /\ Grown(q, r, queue[q][k]).all = queue[q][k].all + 1
      BY DEF Grown
    <2> QED  BY <1>5, <2>1, <2>2 DEF Count
  <1>7. Elsewhere(q)
    BY <1>1, <1>3, <1>4, <1>6 DEF Elsewhere
  <1> QED  BY <1>2, <1>7, ElsewhereFrame

\* Its own monitor has the event in its queue.
LEMMA TaskStepOwn ==
    ASSUME IInv, NEW r \in Request, NEW t \in TasksOf[r], NEW from, NEW to \in Status,
           NEW topic \in Topic, TaskStep(r, t, from, to, topic)
    PROVE  StageInv(r)' /\ QueueInv(r)' /\ OwnInv(r)' /\ AnswerInv(r)'
  <1>1. /\ stage[r] = "running" /\ Publish(r, topic)
        /\ UNCHANGED <<wired, stage, dependsOn, subscribed, seen, answer, drained>>
    BY DEF TaskStep
  <1>2. TypeOK /\ StageInv(r) /\ QueueInv(r) /\ OwnInv(r) /\ AnswerInv(r)
    BY DEF IInv, TypeInv, RequestInv
  <1>3. r \in subscribed
    BY <1>1, <1>2 DEF StageInv
  <1>4. /\ emitted'[r][topic] = emitted[r][topic] + 1
        /\ \A k \in Topic \ {topic} : emitted'[r][k] = emitted[r][k]
        /\ \A k \in Topic \ {topic} : queue'[r][k] = queue[r][k]
        /\ queue'[r][topic] = Grown(r, r, queue[r][topic])
    BY <1>1, <1>2, <1>3, PublishFacts
  <1>5. /\ queue'[r][topic].own = queue[r][topic].own + 1
        /\ queue'[r][topic].all = queue[r][topic].all + 1
    BY <1>4 DEF Grown
  <1>6. \A k \in Topic : /\ queue[r][k].own \in Nat /\ queue[r][k].all \in Nat
                         /\ seen[r][k].own \in Nat /\ emitted[r][k] \in Nat
    BY <1>2 DEF TypeOK, Count
  <1>7. StageInv(r)' /\ AnswerInv(r)'
    BY <1>1, <1>2, <1>3 DEF StageInv, AnswerInv
  <1>8. QueueInv(r)'
    <2>1. \A k \in Topic : queue[r][k].own <= queue[r][k].all
      BY <1>2 DEF QueueInv
    <2>2. \A k \in Topic : queue'[r][k].own <= queue'[r][k].all
      BY <1>4, <1>5, <1>6, <2>1
    <2> QED  BY <1>1, <1>3, <2>2 DEF QueueInv
  <1>9. OwnInv(r)'
    <2>1. \A k \in Topic : seen[r][k].own + queue[r][k].own = emitted[r][k]
      BY <1>2, <1>3 DEF OwnInv
    <2>2. \A k \in Topic : seen[r][k].own + queue'[r][k].own = emitted'[r][k]
      BY <1>4, <1>5, <1>6, <2>1
    <2> QED  BY <1>1, <2>2 DEF OwnInv
  <1> QED  BY <1>7, <1>8, <1>9

LEMMA TaskStepInv ==
    ASSUME IInv, NEW r \in Request, NEW t \in TasksOf[r], NEW from, NEW to \in Status,
           NEW topic \in Topic, TaskStep(r, t, from, to, topic), BooksInv(r)'
    PROVE  IInv'
  <1>1. TypeInv'
    BY TaskStepType DEF IInv
  <1>2. RequestInv(r)'
    BY TaskStepOwn DEF RequestInv
  <1>3. \A q \in Request \ {r} : RequestInv(q)'
    BY TaskStepOthers
  <1> QED  BY <1>1, <1>2, <1>3 DEF IInv

\* One more event of request r in a topic, and in no other.
OneMore(r, topic) ==
    /\ emitted'[r][topic] = emitted[r][topic] + 1
    /\ \A k \in Topic \ {topic} : emitted'[r][k] = emitted[r][k]

\* What the books say of a task step.
LEMMA TaskStepBooks ==
    ASSUME IInv, NEW r \in Request, NEW t \in TasksOf[r], NEW from, NEW to \in Status,
           NEW topic \in Topic, TaskStep(r, t, from, to, topic)
    PROVE  /\ BooksInv(r) /\ TypeInv
           /\ Steps(r, t, from, to)
           /\ OneMore(r, topic)
  <1>1. Steps(r, t, from, to) /\ Publish(r, topic)
    BY DEF TaskStep
  <1>2. TypeInv /\ TypeOK /\ BooksInv(r)
    BY DEF IInv, TypeInv, RequestInv
  <1>3. OneMore(r, topic)
    BY <1>1, <1>2, PublishFacts DEF OneMore
  <1> QED  BY <1>1, <1>2, <1>3

LEMMA AssignInv ==
    ASSUME IInv, NEW r \in Request, NEW t \in TasksOf[r], Assign(r, t)
    PROVE  IInv'
  <1>1. TaskStep(r, t, "pending", "running", "task.assigned")
    BY DEF Assign, CanBegin, TaskStep, Steps
  <1>2. BooksInv(r)'
    <2>0. "running" \in Status
      BY DEF Status
    <2>1. /\ BooksInv(r) /\ TypeInv /\ Steps(r, t, "pending", "running")
          /\ OneMore(r, "task.assigned")
      BY <1>1, <2>0, TaskStepBooks, TopicStatus
    <2>2. /\ emitted'[r]["task.completed"] = emitted[r]["task.completed"]
          /\ emitted'[r]["task.dead_letter"] = emitted[r]["task.dead_letter"]
      BY <2>1, TopicStatus DEF OneMore
    <2>3. CountTasks(r, {"running", "completed", "failed"})' = CountTasks(r, {"running", "completed", "failed"}) + 1
      BY <2>1, CountStep
    <2>4. CountTasks(r, {"completed"})' = CountTasks(r, {"completed"})
      BY <2>1, CountStep
    <2>5. CountTasks(r, {"failed"})' = CountTasks(r, {"failed"})
      BY <2>1, CountStep
    <2> QED  BY <2>1, <2>2, <2>3, <2>4, <2>5 DEF BooksInv, OneMore
  <1> QED  BY <1>1, <1>2, TaskStepInv, TopicStatus DEF Status

LEMMA CompleteTaskInv ==
    ASSUME IInv, NEW r \in Request, NEW t \in TasksOf[r], CompleteTask(r, t)
    PROVE  IInv'
  <1>1. TaskStep(r, t, "running", "completed", "task.completed")
    BY DEF CompleteTask, TaskStep, Steps
  <1>2. BooksInv(r)'
    <2>0. "completed" \in Status
      BY DEF Status
    <2>1. /\ BooksInv(r) /\ TypeInv /\ Steps(r, t, "running", "completed")
          /\ OneMore(r, "task.completed")
      BY <1>1, <2>0, TaskStepBooks, TopicStatus
    <2>2. /\ emitted'[r]["task.assigned"] = emitted[r]["task.assigned"]
          /\ emitted'[r]["task.dead_letter"] = emitted[r]["task.dead_letter"]
      BY <2>1, TopicStatus DEF OneMore
    <2>3. CountTasks(r, {"running", "completed", "failed"})' = CountTasks(r, {"running", "completed", "failed"})
      BY <2>1, CountStep
    <2>4. CountTasks(r, {"completed"})' = CountTasks(r, {"completed"}) + 1
      BY <2>1, CountStep
    <2>5. CountTasks(r, {"failed"})' = CountTasks(r, {"failed"})
      BY <2>1, CountStep
    <2> QED  BY <2>1, <2>2, <2>3, <2>4, <2>5 DEF BooksInv, OneMore
  <1> QED  BY <1>1, <1>2, TaskStepInv, TopicStatus DEF Status

LEMMA FailTaskInv ==
    ASSUME IInv, NEW r \in Request, NEW t \in TasksOf[r], FailTask(r, t)
    PROVE  IInv'
  <1>1. TaskStep(r, t, "running", "failed", "task.dead_letter")
    BY DEF FailTask, TaskStep, Steps
  <1>2. BooksInv(r)'
    <2>0. "failed" \in Status
      BY DEF Status
    <2>1. /\ BooksInv(r) /\ TypeInv /\ Steps(r, t, "running", "failed")
          /\ OneMore(r, "task.dead_letter")
      BY <1>1, <2>0, TaskStepBooks, TopicStatus
    <2>2. /\ emitted'[r]["task.assigned"] = emitted[r]["task.assigned"]
          /\ emitted'[r]["task.completed"] = emitted[r]["task.completed"]
      BY <2>1, TopicStatus DEF OneMore
    <2>3. CountTasks(r, {"running", "completed", "failed"})' = CountTasks(r, {"running", "completed", "failed"})
      BY <2>1, CountStep
    <2>4. CountTasks(r, {"completed"})' = CountTasks(r, {"completed"})
      BY <2>1, CountStep
    <2>5. CountTasks(r, {"failed"})' = CountTasks(r, {"failed"}) + 1
      BY <2>1, CountStep
    <2> QED  BY <2>1, <2>2, <2>3, <2>4, <2>5 DEF BooksInv, OneMore
  <1> QED  BY <1>1, <1>2, TaskStepInv, TopicStatus DEF Status


-----------------------------------------------------------------------------
(* The end of a request, and the monitors.                                 *)

\* A request that ends after its drain, idle or not.
LEMMA EndInv ==
    ASSUME IInv, NEW r \in Request, Stop(r), Respond(r),
           UNCHANGED <<wired, dependsOn, task, seen, emitted>>,
           drained' \in [Request -> BOOLEAN],
           \A q \in Request \ {r} : drained'[q] = drained[q],
           drained'[r] => \A topic \in Topic : queue[r][topic].all = 0
    PROVE  IInv'
  <1>1. /\ TypeOK /\ TypeInv
        /\ stage \in [Request -> Stage] /\ subscribed \subseteq Request
        /\ queue \in [Request -> [Topic -> Count]]
        /\ answer \in [Request -> [completed : Nat, failed : Nat]]
    BY DEF IInv, TypeInv, TypeOK
  <1>2. /\ subscribed' = subscribed \ {r}
        /\ queue' = [queue EXCEPT ![r] = NoEvents]
        /\ stage[r] = "draining"
    BY DEF Stop, Respond, Move
  <1>3. Merge(r) \in [completed : Nat, failed : Nat]
    BY AmongFinite DEF Merge
  <1>4. /\ stage' \in [Request -> Stage]
        /\ stage'[r] \in {"answered", "failed"}
        /\ \A q \in Request \ {r} : stage'[q] = stage[q]
    BY <1>1 DEF Respond, Move, Stage
  <1>5. /\ answer' \in [Request -> [completed : Nat, failed : Nat]]
        /\ stage'[r] = "answered" => answer'[r] = Merge(r)
        /\ \A q \in Request \ {r} : answer'[q] = answer[q]
    BY <1>1, <1>3 DEF Respond, Move
  <1>6. /\ queue' \in [Request -> [Topic -> Count]]
        /\ queue'[r] = NoEvents
        /\ \A q \in Request \ {r} : queue'[q] = queue[q]
    <2>1. NoEvents \in [Topic -> Count]
      BY DEF NoEvents, Count
    <2> QED  BY <1>1, <1>2, <2>1
  <1>7. TypeInv' /\ TypeOK'
    BY <1>1, <1>2, <1>4, <1>5, <1>6 DEF TypeInv, TypeOK
  <1>8. StageInv(r) /\ QueueInv(r) /\ OwnInv(r) /\ BooksInv(r)
    BY DEF IInv, RequestInv
  <1>9. Merge(r)' = Merge(r) /\ (Settled(r)' <=> Settled(r)) /\ BooksInv(r)'
    BY <1>8, SameTasks
  <1>10. StageInv(r)'
    BY <1>2, <1>4, <1>8, <1>9 DEF StageInv
  <1>11. QueueInv(r)'
    <2>1. \A topic \in Topic : queue'[r][topic].own <= queue'[r][topic].all
      BY <1>6 DEF NoEvents
    <2> QED  BY <1>6, <2>1 DEF QueueInv
  <1>12. OwnInv(r)'
    BY <1>2 DEF OwnInv
  <1>13. AnswerInv(r)'
    <2>1. ASSUME drained'[r], NEW topic \in Topic
          PROVE  seen[r][topic].own = emitted[r][topic]
      <3>1. /\ seen[r][topic].own \in Nat /\ queue[r][topic].own \in Nat
            /\ emitted[r][topic] \in Nat
        BY <1>1 DEF TypeOK, Count
      <3>2. queue[r][topic].all = 0 /\ queue[r][topic].own <= queue[r][topic].all
        BY <1>8, <2>1 DEF QueueInv
      <3>3. seen[r][topic].own + queue[r][topic].own = emitted[r][topic]
        BY <1>2, <1>8 DEF StageInv, OwnInv
      <3> QED  BY <3>1, <3>2, <3>3
    <2>2. drained'[r] => \A topic \in Topic : seen'[r][topic].own = emitted'[r][topic]
      BY <2>1
    <2>3. stage'[r] = "answered" => answer'[r] = Merge(r)'
      BY <1>5, <1>9
    <2> QED  BY <1>4, <2>2, <2>3 DEF AnswerInv
  <1>14. ASSUME NEW q \in Request \ {r}  PROVE  RequestInv(q)'
    <2>1. \A topic \in Topic : queue[q][topic] \in Count
      BY <1>1
    <2>2. \A topic \in Topic : queue'[q][topic].all >= queue[q][topic].all
      BY <1>6, <2>1 DEF Count
    <2>3. Elsewhere(q)
      BY <1>2, <1>4, <1>5, <1>6, <2>2 DEF Elsewhere
    <2> QED  BY <1>1, <1>7, <2>3, ElsewhereFrame DEF IInv
  <1>15. RequestInv(r)'
    BY <1>9, <1>10, <1>11, <1>12, <1>13 DEF RequestInv
  <1> QED  BY <1>7, <1>14, <1>15 DEF IInv

LEMMA DrainIdleInv ==
    ASSUME IInv, NEW r \in Request, DrainIdle(r)  PROVE  IInv'
  <1>1. r \in subscribed
    BY DEF DrainIdle, Respond, Move, IInv, RequestInv, StageInv
  <1>2. \A topic \in Topic : queue[r][topic].all = 0
    BY <1>1 DEF DrainIdle, Idle
  <1>3. drained' = [drained EXCEPT ![r] = TRUE] /\ drained \in [Request -> BOOLEAN]
    BY DEF DrainIdle, IInv, TypeInv, TypeOK
  <1>4. /\ drained' \in [Request -> BOOLEAN]
        /\ \A q \in Request \ {r} : drained'[q] = drained[q]
    BY <1>3
  <1>5. Stop(r) /\ Respond(r) /\ UNCHANGED <<wired, dependsOn, task, seen, emitted>>
    BY DEF DrainIdle
  <1> QED  BY <1>2, <1>4, <1>5, EndInv

LEMMA DrainTimeoutInv ==
    ASSUME IInv, NEW r \in Request, DrainTimeout(r)  PROVE  IInv'
  <1>1. ~ drained[r] /\ drained \in [Request -> BOOLEAN]
    BY DEF DrainTimeout, Respond, Move, IInv, RequestInv, AnswerInv, TypeInv, TypeOK
  <1>2. /\ Stop(r) /\ Respond(r) /\ drained' = drained
        /\ UNCHANGED <<wired, dependsOn, task, seen, emitted>>
    BY DEF DrainTimeout
  <1> QED  BY <1>1, <1>2, EndInv

\* The two fields of a count, one after the other.
LEMMA BothFields ==
    ASSUME NEW c \in Count, NEW a, NEW b
    PROVE  [c EXCEPT !.all = a, !.own = b] = [all |-> a, own |-> b]
  <1> DEFINE d == [c EXCEPT !.all = a, !.own = b]
  <1>1. DOMAIN d = {"all", "own"}
    BY DEF Count
  <1>2. d = [field \in {"all", "own"} |-> d[field]]
    BY DEF Count
  <1>3. d.all = a /\ d.own = b
    BY DEF Count
  <1> HIDE DEF d
  <1>4. d = [all |-> a, own |-> b]
    BY <1>1, <1>2, <1>3
  <1> QED  BY <1>4 DEF d

LEMMA TwoFields ==
    ASSUME NEW f \in [Topic -> Count], NEW k \in Topic, NEW a, NEW b
    PROVE  [f EXCEPT ![k].all = @ + a, ![k].own = @ + b]
             = [f EXCEPT ![k] = [all |-> f[k].all + a, own |-> f[k].own + b]]
  <1>1. [f EXCEPT ![k].all = @ + a, ![k].own = @ + b]
           = [f EXCEPT ![k] = [f[k] EXCEPT !.all = f[k].all + a, !.own = f[k].own + b]]
    BY DEF Count
  <1>2. \A c \in Count : [c EXCEPT !.all = c.all + a, !.own = c.own + b]
                           = [all |-> c.all + a, own |-> c.own + b]
    BY BothFields
  <1>3. f[k] \in Count
    OBVIOUS
  <1> QED  BY <1>1, <1>2, <1>3

LEMMA ObserveInv ==
    ASSUME IInv, NEW m \in Request, NEW topic \in Topic, Observe(m, topic)
    PROVE  IInv'
  <1>1. /\ TypeOK /\ TypeInv
        /\ queue \in [Request -> [Topic -> Count]] /\ seen \in [Request -> [Topic -> Count]]
    BY DEF IInv, TypeInv, TypeOK
  <1>2. /\ m \in subscribed
        /\ UNCHANGED <<wired, stage, dependsOn, task, subscribed, answer, emitted, drained>>
    BY DEF Observe
  <1>3. queue[m][topic] \in Count /\ seen[m][topic] \in Count
    BY <1>1
  <1> DEFINE More == [all |-> seen[m][topic].all + queue[m][topic].all,
                      own |-> seen[m][topic].own + queue[m][topic].own]
             None == [all |-> 0, own |-> 0]
  <1>4. More \in Count /\ None \in Count
    BY <1>3 DEF Count
  <1>5. seen' = [seen EXCEPT ![m] = [seen[m] EXCEPT ![topic] = More]]
    <2>1. [seen[m] EXCEPT ![topic].all = @ + queue[m][topic].all,
                          ![topic].own = @ + queue[m][topic].own]
            = [seen[m] EXCEPT ![topic] = More]
      <3>1. seen[m] \in [Topic -> Count]
        BY <1>1
      <3> QED  BY <3>1, TwoFields
    <2>2. seen' = [seen EXCEPT ![m] =
                     [seen[m] EXCEPT ![topic].all = @ + queue[m][topic].all,
                                     ![topic].own = @ + queue[m][topic].own]]
      BY <1>1 DEF Observe
    <2> QED  BY <2>1, <2>2
  <1>6. queue' = [queue EXCEPT ![m] = [queue[m] EXCEPT ![topic] = None]]
    BY <1>1 DEF Observe, NoEvents
  <1>7. /\ More.own = seen[m][topic].own + queue[m][topic].own
        /\ None.own = 0 /\ None.all = 0
    OBVIOUS
  <1> HIDE DEF More, None
  <1>8. /\ seen' \in [Request -> [Topic -> Count]] /\ queue' \in [Request -> [Topic -> Count]]
        /\ \A q \in Request \ {m} : seen'[q] = seen[q] /\ queue'[q] = queue[q]
        /\ \A k \in Topic \ {topic} : seen'[m][k] = seen[m][k] /\ queue'[m][k] = queue[m][k]
        /\ seen'[m][topic] = More /\ queue'[m][topic] = None
    BY <1>1, <1>4, <1>5, <1>6
  <1>9. TypeOK' /\ TypeInv'
    BY <1>1, <1>2, <1>8 DEF TypeOK, TypeInv
  <1>10. ASSUME NEW q \in Request \ {m}  PROVE  RequestInv(q)'
    <2>1. \A k \in Topic : queue[q][k] \in Count
      BY <1>1
    <2>2. \A k \in Topic : queue'[q][k].all >= queue[q][k].all
      BY <1>8, <2>1 DEF Count
    <2>3. Elsewhere(q)
      BY <1>2, <1>8, <2>2 DEF Elsewhere
    <2> QED  BY <1>1, <1>9, <2>3, ElsewhereFrame DEF IInv
  <1>11. StageInv(m) /\ QueueInv(m) /\ OwnInv(m) /\ BooksInv(m) /\ AnswerInv(m)
    BY DEF IInv, RequestInv
  <1>12. BooksInv(m)' /\ Merge(m)' = Merge(m) /\ (Settled(m)' <=> Settled(m))
    BY <1>2, <1>11, SameTasks
  <1>13. stage[m] \in {"running", "draining", "cancelled", "failed"}
    BY <1>2, <1>11 DEF StageInv
  <1>14. StageInv(m)' /\ AnswerInv(m)'
    BY <1>2, <1>11, <1>12, <1>13 DEF StageInv, AnswerInv
  <1>15. QueueInv(m)'
    <2>1. \A k \in Topic : queue'[m][k].own <= queue'[m][k].all
      BY <1>7, <1>8, <1>11 DEF QueueInv
    <2> QED  BY <1>2, <2>1 DEF QueueInv
  <1>16. OwnInv(m)'
    <2>1. \A k \in Topic : seen[m][k].own + queue[m][k].own = emitted[m][k]
      BY <1>2, <1>11 DEF OwnInv
    <2>2. \A k \in Topic : seen'[m][k].own + queue'[m][k].own = emitted[m][k]
      <3>1. emitted[m][topic] \in Nat
        BY <1>1 DEF TypeOK
      <3>2. More.own + 0 = emitted[m][topic]
        BY <1>7, <2>1, <3>1
      <3> QED  BY <1>7, <1>8, <2>1, <3>2
    <2> QED  BY <1>2, <2>2 DEF OwnInv
  <1>17. RequestInv(m)'
    BY <1>12, <1>14, <1>15, <1>16 DEF RequestInv
  <1> QED  BY <1>9, <1>10, <1>17 DEF IInv


-----------------------------------------------------------------------------
(* The theorems.                                                           *)

LEMMA StutterInv == IInv /\ UNCHANGED vars => IInv'
  <1> SUFFICES ASSUME IInv, UNCHANGED vars  PROVE  IInv'
    OBVIOUS
  <1>1. /\ UNCHANGED <<stage, dependsOn, task, subscribed, queue, seen, answer, emitted>>
        /\ UNCHANGED <<wired, drained>>
    BY DEF vars
  <1>2. TypeOK /\ TypeOK' /\ TypeInv'
    BY <1>1 DEF IInv, TypeInv, TypeOK
  <1>3. ASSUME NEW r \in Request  PROVE  RequestInv(r)'
    <2>1. \A topic \in Topic : queue[r][topic] \in Count
      BY <1>2 DEF TypeOK
    <2>2. \A topic \in Topic : queue'[r][topic].all >= queue[r][topic].all
      BY <1>1, <2>1 DEF Count
    <2>3. Elsewhere(r)
      BY <1>1, <2>2 DEF Elsewhere
    <2> QED  BY <1>2, <2>3, ElsewhereFrame DEF IInv
  <1> QED  BY <1>2, <1>3 DEF IInv

\* Each step of the next-state relation, by the actions.
LEMMA StepInv == IInv /\ [Next]_vars => IInv'
  <1> SUFFICES ASSUME IInv, [Next]_vars  PROVE  IInv'
    OBVIOUS
  <1>1. CASE UNCHANGED vars
    BY <1>1, StutterInv
  <1>2. ASSUME NEW r \in Request, Execute(r) \/ Cancel(r)  PROVE  IInv'
    <2>1. CASE Run(r)
      BY <2>1, AssignInv, CompleteTaskInv, FailTaskInv, RunReturnsInv DEF Run
    <2>2. CASE RecallFails(r)
      BY <2>2, RecallFailsInv
    <2>3. CASE Recalled(r)
      BY <2>3, RecalledInv
    <2>4. CASE DrainIdle(r)
      BY <2>4, DrainIdleInv
    <2>5. CASE DrainTimeout(r)
      BY <2>5, DrainTimeoutInv
    <2>6. CASE Cancel(r)
      BY <2>6, CancelInv
    <2>7. CASE NoTaskManager(r)
      BY <2>7, NoTaskManagerInv
    <2> QED  BY <1>2, <2>1, <2>2, <2>3, <2>4, <2>5, <2>6, <2>7 DEF Execute
  <1> QED  BY <1>1, <1>2, ObserveInv DEF Next

LEMMA Invariance == Spec => []IInv
  BY InitInv, StepInv, PTL DEF Spec

\* The type of the state, whatever the plans and the number of requests.
THEOREM TypeCorrect == Spec => []TypeOK
  <1>1. IInv => TypeOK
    BY DEF IInv, TypeInv
  <1> QED  BY <1>1, Invariance, PTL

\* ProgressMonitor: while it is subscribed, what the request has published is counted by
\* its own monitor or waits in its queue, none of it lost to other monitors' consumers,
\* other requests' drains or cancellations.
THEOREM NoOwnEventMissedHolds == Spec => []NoOwnEventMissed
  <1>1. IInv => NoOwnEventMissed
    BY DEF IInv, RequestInv, OwnInv, NoOwnEventMissed
  <1> QED  BY <1>1, Invariance, PTL

\* Aggregator.merge and the snapshot: the answer of a request accounts for every task of
\* its plan, none runs on or changes afterwards, and after an idle drain the monitor's
\* counts of the request's own events agree with it.
THEOREM ProgressAgreesWithAnswerHolds == Spec => []ProgressAgreesWithAnswer
  <1>1. IInv => ProgressAgreesWithAnswer
    <2> SUFFICES ASSUME IInv, NEW r \in Request, stage[r] = "answered"
                 PROVE  /\ \A t \in TasksOf[r] : task[r][t] # "running"
                        /\ answer[r] = Merge(r)
                        /\ answer[r].completed + answer[r].failed = Cardinality(TasksOf[r])
                        /\ drained[r] =>
                              /\ seen[r]["task.completed"].own = answer[r].completed
                              /\ seen[r]["task.dead_letter"].own
                                    + CountTasks(r, {"pending"}) = answer[r].failed
                              /\ seen[r]["task.assigned"].own
                                    + CountTasks(r, {"pending"}) = Cardinality(TasksOf[r])
      BY DEF ProgressAgreesWithAnswer
    <2>1. TypeOK /\ StageInv(r) /\ BooksInv(r) /\ AnswerInv(r)
      BY DEF IInv, TypeInv, RequestInv
    <2>2. \A t \in TasksOf[r] : task[r][t] # "running"
      BY <2>1 DEF StageInv, Settled
    <2>3. answer[r] = Merge(r)
      BY <2>1 DEF AnswerInv
    <2>4. /\ answer[r].completed = CountTasks(r, {"completed"})
          /\ answer[r].failed = CountTasks(r, {"pending", "running", "failed"})
      BY <2>3 DEF Merge
    <2>5. CountTasks(r, {"completed"}) + CountTasks(r, {"pending", "running", "failed"})
            = Cardinality(TasksOf[r])
      BY <2>1, CountAll DEF Status
    <2>6. CountTasks(r, {"running"}) = 0
      BY <2>2, CountNone
    <2>7. CountTasks(r, {"failed", "pending"} \cup {"running"})
            = CountTasks(r, {"failed", "pending"}) + CountTasks(r, {"running"})
      BY CountSplit
    <2>8. CountTasks(r, {"failed"} \cup {"pending"})
            = CountTasks(r, {"failed"}) + CountTasks(r, {"pending"})
      BY CountSplit
    <2>9. /\ {"failed", "pending"} \cup {"running"} = {"pending", "running", "failed"}
          /\ {"failed"} \cup {"pending"} = {"failed", "pending"}
      OBVIOUS
    <2>10. /\ CountTasks(r, {"failed"}) \in Nat
           /\ CountTasks(r, {"pending"}) \in Nat
      BY AmongFinite
    <2>11. CountTasks(r, {"failed"}) + CountTasks(r, {"pending"})
             = CountTasks(r, {"pending", "running", "failed"})
      BY <2>6, <2>7, <2>8, <2>9, <2>10
    <2>12. CountTasks(r, {"running", "completed", "failed"}) + CountTasks(r, {"pending"})
             = Cardinality(TasksOf[r])
      BY <2>1, CountAll DEF Status
    <2>13. ASSUME drained[r], NEW topic \in Topic
           PROVE  seen[r][topic].own = emitted[r][topic]
      BY <2>1, <2>13 DEF AnswerInv
    <2>14. ASSUME drained[r]
           PROVE  /\ seen[r]["task.completed"].own = CountTasks(r, {"completed"})
                  /\ seen[r]["task.dead_letter"].own = CountTasks(r, {"failed"})
                  /\ seen[r]["task.assigned"].own
                        = CountTasks(r, {"running", "completed", "failed"})
      BY <2>1, <2>13, <2>14, TopicStatus DEF BooksInv
    <2> QED  BY <2>2, <2>3, <2>4, <2>5, <2>11, <2>12, <2>14
  <1> QED  BY <1>1, Invariance, PTL

\* KingAgent.execute has no finally: the requests that end with their monitor still on
\* the bus are those that were cancelled and those a King without a Task Manager refused,
\* and a request that fails does so before its plan has begun or when all of it is over.
THEOREM LeavesCleanlyHolds == Spec => []LeavesCleanly
  <1>1. IInv => LeavesCleanly
    <2> SUFFICES ASSUME IInv, NEW r \in Request
                 PROVE  /\ (r \in subscribed /\ stage[r] \in Ended) =>
                              stage[r] = "cancelled" \/ (stage[r] = "failed" /\ ~ wired)
                        /\ (stage[r] = "failed"
                              /\ \E t \in TasksOf[r] : task[r][t] # "pending") =>
                              Settled(r)
      BY DEF LeavesCleanly, Settled
    <2>1. StageInv(r)
      BY DEF IInv, RequestInv
    <2> QED  BY <2>1 DEF StageInv, Ended
  <1> QED  BY <1>1, Invariance, PTL


-----------------------------------------------------------------------------
(* Each request's run is one DagExecution allows.                          *)

LEMMA PhaseFacts ==
    ASSUME NEW r, NEW t
    PROVE  /\ PhaseOf(r, t) = "todo" <=> task[r][t] = "pending"
           /\ PhaseOf(r, t) = "active" <=> task[r][t] = "running"
           /\ PhaseOf(r, t) = "succeeded" <=> task[r][t] = "completed"
  BY DEF PhaseOf

LEMMA DagInit == Init => \A r \in Request : Dag(r)!Init
  <1> SUFFICES ASSUME Init, NEW r \in Request  PROVE  Dag(r)!Init
    OBVIOUS
  <1>1. IInv /\ dependsOn[r] \in PlansOf[r] /\ stage[r] = "called"
    BY InitInv DEF IInv, TypeInv, TypeOK, Init
  <1>2. \A t \in TasksOf[r] : PhaseOf(r, t) = "todo"
    BY <1>1, PhaseFacts DEF IInv, RequestInv, StageInv
  <1> QED  BY <1>1, <1>2 DEF Dag!Init, OutcomeOf


\* A task of the King can begin when one of DagExecution can.
LEMMA CanBeginView ==
    ASSUME TypeOK, NEW r \in Request, NEW t \in TasksOf[r]
    PROVE  Dag(r)!CanBegin(t) <=> CanBegin(r, t)
  <1>1. dependsOn[r][t] \subseteq TasksOf[r]
    <2>1. dependsOn[r] \in PlansOf[r]
      BY DEF TypeOK
    <2>2. dependsOn[r] \in [TasksOf[r] -> SUBSET TasksOf[r]]
      BY <2>1, PlansAssumption
    <2> QED  BY <2>2
  <1> QED  BY <1>1, PhaseFacts DEF Dag!CanBegin, CanBegin

LEMMA OutcomeFacts ==
    ASSUME NEW r
    PROVE  /\ stage[r] \in {"called", "running"} => OutcomeOf(r) = "open"
           /\ stage[r] \in {"draining", "answered"} => OutcomeOf(r) = "finished"
           /\ stage[r] \in {"failed", "cancelled"} /\ Settled(r) => OutcomeOf(r) = "finished"
           /\ stage[r] \in {"failed", "cancelled"} /\ ~ Settled(r) => OutcomeOf(r) = "stopped"
  BY DEF OutcomeOf

\* The view of a request whose tasks do not move.
LEMMA SameView ==
    ASSUME NEW r \in Request, dependsOn' = dependsOn, task'[r] = task[r]
    PROVE  /\ Settled(r)' <=> Settled(r)
           /\ [t \in TasksOf[r] |-> PhaseOf(r, t)]' = [t \in TasksOf[r] |-> PhaseOf(r, t)]
  <1>1. Settled(r)' <=> Settled(r)
    BY SameTasks
  <1>2. \A t \in TasksOf[r] : PhaseOf(r, t)' = PhaseOf(r, t)
    BY DEF PhaseOf
  <1> QED  BY <1>1, <1>2

LEMMA DagStutter ==
    ASSUME NEW r \in Request, dependsOn' = dependsOn, task'[r] = task[r],
           OutcomeOf(r)' = OutcomeOf(r)
    PROVE  UNCHANGED Dag(r)!vars
  BY SameView DEF Dag!vars

\* A run that is left is finished if it was settled, else stopped.
LEMMA DagLeave ==
    ASSUME TypeOK, NEW r \in Request, dependsOn' = dependsOn, task'[r] = task[r],
           stage[r] \in {"called", "running"},
           \/ stage'[r] = "draining" /\ Settled(r)
           \/ stage'[r] \in {"failed", "cancelled"}
    PROVE  Dag(r)!Next
  <1>1. OutcomeOf(r) = "open"
    BY OutcomeFacts
  <1>2. /\ stage'[r] = "draining" => OutcomeOf(r)' = "finished"
        /\ stage'[r] \in {"failed", "cancelled"} /\ Settled(r)' => OutcomeOf(r)' = "finished"
        /\ stage'[r] \in {"failed", "cancelled"} /\ ~ Settled(r)' => OutcomeOf(r)' = "stopped"
    BY DEF OutcomeOf
  <1>3. \/ Settled(r) /\ OutcomeOf(r)' = "finished"
        \/ OutcomeOf(r)' = "stopped"
    BY <1>2, SameView
  <1>4. ASSUME Settled(r), OutcomeOf(r)' = "finished"  PROVE  Dag(r)!Finish
    <2>1. \A t \in TasksOf[r] : PhaseOf(r, t) # "active" /\ ~ Dag(r)!CanBegin(t)
      BY <1>4, CanBeginView, PhaseFacts DEF Settled
    <2> QED  BY <1>1, <1>4, <2>1, SameView DEF Dag!Finish
  <1>5. ASSUME OutcomeOf(r)' = "stopped"  PROVE  Dag(r)!GiveUp
    BY <1>1, <1>5, SameView DEF Dag!GiveUp
  <1> QED  BY <1>3, <1>4, <1>5 DEF Dag!Next

\* The phase of the one task that takes a step.
LEMMA PhaseStep ==
    ASSUME TypeInv, NEW r \in Request, NEW t \in TasksOf[r],
           NEW from, NEW to, Steps(r, t, from, to)
    PROVE  \A u \in TasksOf[r] \ {t} : PhaseOf(r, u)' = PhaseOf(r, u)
  <1>1. \A u \in TasksOf[r] \ {t} : task'[r][u] = task[r][u]
    BY StepFacts
  <1> QED  BY <1>1 DEF PhaseOf


LEMMA DagTask ==
    ASSUME IInv, NEW r \in Request, NEW t \in TasksOf[r],
           Assign(r, t) \/ CompleteTask(r, t) \/ FailTask(r, t)
    PROVE  Dag(r)!Next
  <1> DEFINE ph == [u \in TasksOf[r] |-> PhaseOf(r, u)]
  <1>1. TypeInv /\ TypeOK /\ stage[r] = "running" /\ stage' = stage /\ dependsOn' = dependsOn
    BY DEF IInv, TypeInv, Assign, CompleteTask, FailTask
  <1>2. OutcomeOf(r) = "open" /\ OutcomeOf(r)' = "open"
    BY <1>1 DEF OutcomeOf
  <1>3. ASSUME NEW from, NEW to, Steps(r, t, from, to), NEW p, PhaseOf(r, t)' = p
        PROVE  ph' = [ph EXCEPT ![t] = p]
    <2>1. \A u \in TasksOf[r] \ {t} : PhaseOf(r, u)' = PhaseOf(r, u)
      BY <1>1, <1>3, PhaseStep
    <2> QED  BY <1>3, <2>1
  <1>4. CASE Assign(r, t)
    <2>1. Steps(r, t, "pending", "running")
      BY <1>4 DEF Assign, CanBegin, Steps
    <2>2. PhaseOf(r, t)' = "active"
      BY <1>1, <2>1, StepFacts DEF PhaseOf
    <2>3. ph' = [ph EXCEPT ![t] = "active"]
      BY <1>3, <2>1, <2>2
    <2>4. Dag(r)!CanBegin(t)
      BY <1>1, <1>4, CanBeginView DEF Assign
    <2>5. Dag(r)!Begin(t)
      BY <1>1, <1>2, <2>3, <2>4 DEF Dag!Begin
    <2> QED  BY <2>5 DEF Dag!Next
  <1>5. CASE CompleteTask(r, t) \/ FailTask(r, t)
    <2>1. PICK to \in {"completed", "failed"} : Steps(r, t, "running", to)
      BY <1>5 DEF CompleteTask, FailTask, Steps
    <2>2. PICK p \in {"succeeded", "failed"} : PhaseOf(r, t)' = p
      BY <1>1, <2>1, StepFacts DEF PhaseOf
    <2>3. ph' = [ph EXCEPT ![t] = p]
      BY <1>3, <2>1, <2>2
    <2>4. PhaseOf(r, t) = "active"
      BY <2>1, PhaseFacts DEF Steps
    <2>5. Dag(r)!End(t)
      BY <1>1, <1>2, <2>3, <2>4 DEF Dag!End
    <2> QED  BY <2>5 DEF Dag!Next
  <1> QED  BY <1>4, <1>5

\* What a step of request r is to another request.
LEMMA DagOther ==
    ASSUME TypeInv, NEW r \in Request, Execute(r) \/ Cancel(r), NEW q \in Request \ {r}
    PROVE  UNCHANGED Dag(q)!vars
  <1>1. dependsOn' = dependsOn /\ stage \in [Request -> Stage]
    BY DEF TypeInv, TypeOK, Execute, RecallFails, Recalled, NoTaskManager, Run, Assign, CompleteTask,
           FailTask, RunReturns, DrainIdle, DrainTimeout, Cancel
  <1>2. task'[q] = task[q]
    <2>1. CASE task' = task
      BY <2>1
    <2>2. ASSUME NEW t \in TasksOf[r], NEW to, task' = [task EXCEPT ![r][t] = to]
          PROVE  task'[q] = task[q]
      <3>1. Steps(r, t, task[r][t], to)
        BY <2>2 DEF Steps
      <3> QED  BY <3>1, StepFacts
    <2>3. \/ task' = task
          \/ \E t \in TasksOf[r] :
                \/ task' = [task EXCEPT ![r][t] = "running"]
                \/ task' = [task EXCEPT ![r][t] = "completed"]
                \/ task' = [task EXCEPT ![r][t] = "failed"]
      BY DEF Execute, RecallFails, Recalled, NoTaskManager, Run, Assign, CompleteTask,
             FailTask, RunReturns, DrainIdle, DrainTimeout, Cancel
    <2> QED  BY <2>1, <2>2, <2>3
  <1>3. stage'[q] = stage[q]
    BY <1>1 DEF Execute, RecallFails, Recalled, NoTaskManager, Run, Assign, CompleteTask, FailTask,
                RunReturns, DrainIdle, DrainTimeout, Respond, Cancel, Move
  <1>4. OutcomeOf(q)' = OutcomeOf(q)
    <2>1. Settled(q)' <=> Settled(q)
      BY <1>1, <1>2, SameView
    <2> QED  BY <1>3, <2>1 DEF OutcomeOf
  <1> QED  BY <1>1, <1>2, <1>4, DagStutter

\* What a step of request r is to request r.
LEMMA DagOwn ==
    ASSUME IInv, NEW r \in Request, Execute(r) \/ Cancel(r)
    PROVE  Dag(r)!Next \/ UNCHANGED Dag(r)!vars
  <1>1. TypeOK /\ stage \in [Request -> Stage] /\ StageInv(r)
    BY DEF IInv, TypeInv, TypeOK, RequestInv
  <1>2. CASE \E t \in TasksOf[r] : Assign(r, t) \/ CompleteTask(r, t) \/ FailTask(r, t)
    BY <1>2, DagTask
  <1>3. CASE Recalled(r)
    <2>1. /\ stage[r] = "called" /\ stage'[r] = "running"
          /\ dependsOn' = dependsOn /\ task' = task
      BY <1>1, <1>3 DEF Recalled, Move
    <2>2. OutcomeOf(r)' = OutcomeOf(r)
      BY <2>1 DEF OutcomeOf
    <2> QED  BY <2>1, <2>2, DagStutter
  <1>4. CASE \/ RunReturns(r) \/ RecallFails(r) \/ NoTaskManager(r)
             \/ (Cancel(r) /\ stage[r] # "draining")
    <2>1. /\ dependsOn' = dependsOn /\ task' = task
          /\ stage[r] \in {"called", "running"}
      BY <1>4 DEF RunReturns, RecallFails, NoTaskManager, Cancel, Move
    <2>2. \/ stage'[r] = "draining" /\ Settled(r)
          \/ stage'[r] \in {"failed", "cancelled"}
      BY <1>1, <1>4 DEF RunReturns, RecallFails, NoTaskManager, Cancel, Move, Settled
    <2> QED  BY <1>1, <2>1, <2>2, DagLeave
  <1>5. CASE DrainIdle(r) \/ DrainTimeout(r) \/ (Cancel(r) /\ stage[r] = "draining")
    <2>1. /\ dependsOn' = dependsOn /\ task' = task /\ stage[r] = "draining"
          /\ stage'[r] \in {"answered", "failed", "cancelled"}
      BY <1>1, <1>5 DEF DrainIdle, DrainTimeout, Respond, Cancel, Move
    <2>2. Settled(r) /\ (Settled(r)' <=> Settled(r))
      BY <1>1, <2>1, SameView DEF StageInv
    <2>3. OutcomeOf(r)' = OutcomeOf(r)
      BY <2>1, <2>2 DEF OutcomeOf
    <2> QED  BY <2>1, <2>3, DagStutter
  <1>6. CASE Run(r)
    BY <1>2, <1>4, <1>6 DEF Run
  <1>7. CASE Cancel(r)
    BY <1>4, <1>5, <1>7
  <1> QED  BY <1>3, <1>4, <1>5, <1>6, <1>7 DEF Execute

LEMMA DagStep ==
    IInv /\ [Next]_vars => \A r \in Request : Dag(r)!Next \/ UNCHANGED Dag(r)!vars
  <1> SUFFICES ASSUME IInv, [Next]_vars, NEW r \in Request
               PROVE  Dag(r)!Next \/ UNCHANGED Dag(r)!vars
    OBVIOUS
  <1>1. TypeInv
    BY DEF IInv
  <1>2. ASSUME UNCHANGED <<stage, dependsOn, task>>  PROVE  UNCHANGED Dag(r)!vars
    <2>1. OutcomeOf(r)' = OutcomeOf(r)
      BY <1>2 DEF OutcomeOf, Settled, CanBegin
    <2> QED  BY <1>2, <2>1, DagStutter
  <1>3. CASE UNCHANGED vars
    BY <1>2, <1>3 DEF vars
  <1>4. ASSUME NEW q \in Request, Execute(q) \/ Cancel(q)
        PROVE  Dag(r)!Next \/ UNCHANGED Dag(r)!vars
    BY <1>1, <1>4, DagOwn, DagOther
  <1>5. ASSUME NEW m \in Request, NEW topic \in Topic, Observe(m, topic)
        PROVE  UNCHANGED Dag(r)!vars
    BY <1>2, <1>5 DEF Observe
  <1> QED  BY <1>3, <1>4, <1>5 DEF Next

\* KingAgent.execute relies on nothing of run_graph that DagExecution does not state: of
\* every request, whatever the others do, tasks begin once after what they depend on,
\* end once, and the run is over only when nothing is active and nothing can begin.
THEOREM DagPerRequestHolds == Spec => DagPerRequest
  <1>1. IInv /\ [Next]_vars
          => [\A r \in Request : Dag(r)!Next \/ UNCHANGED Dag(r)!vars]_vars
    BY DagStep
  <1> QED  BY DagInit, <1>1, Invariance, PTL DEF Spec, DagPerRequest
=============================================================================
