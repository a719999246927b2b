# Verification of god_mode_ai in TLA+

The repository is an agent platform: a *King* plans a user's objective, dispatches the steps to
domain *Generals*, which ask single-purpose *Soldiers*, which call tools. Everything runs in one
asyncio process (`backend/`), around an in-memory event bus, an in-memory request/reply bus, a task
manager, a scheduler and a few stores. The front ends (`mobile/`, `admin/`, `king-admin/`) talk to
its HTTP and WebSocket API.

This directory holds TLA+ modules translated from that source, the TLC configurations that check
them on small instances, and proofs checked by TLAPS. `PROJECT.json` relates each definition to the
lines it stands for, each property to a bug that would break it, and each hazard of the code to the
properties that watch it.

## Inventory

| Part | State | Operations | Interacts with | Hard to get right |
|---|---|---|---|---|
| Task Manager `core/task_manager/tasks.py` | status, attempts and dependencies of each `Task` | `run_graph` (waves of `asyncio.gather`), `_run_one` (retry loop), `transition` | executor (the King's dispatch), event bus | waves against retries, siblings of a worker that raises, cancellation, moves from outside |
| Event Bus `core/event_bus/event_bus.py` | `_groups` with a queue and a consumer task each, `_inflight`, `_dead_letter`, `_running` | `publish`, `subscribe`, `unsubscribe`, `drain`, `shutdown`, `_consume`/`_deliver` | everyone who publishes; the King's monitor is the subscriber | consumers cancelled while they deliver, what drain may conclude, retries |
| King `king/king.py`, `monitor.py`, `aggregator.py` | none of its own; a `ProgressMonitor` per request | `execute`: recall, plan, subscribe, run, drain, stop, merge, remember | memory, task manager, event bus, message bus | concurrent requests share the bus; failures and cancellations at every await |
| Scheduler `core/scheduler/scheduler.py` | jobs with `next_run` and `enabled`, lock table, loop task | `schedule`, `cancel`, `tick`, `start`, `stop` | event bus; other replicas through the lock | lock lifetime against trigger period, several replicas, several loops |
| Agent Manager `core/agent_manager/manager.py` | live agents | `ensure`, `retire`, `supervise`, `health_check` | agents' `initialize`/`shutdown`, which register at the message bus | restart that fails half-way, handlers that outlive or miss their agent |
| Message Bus and dispatch `core/message_bus`, `generals/base.py`, `soldiers/base` | one handler per target | `request` with a timeout, `handle`, `unregister` | King to General to Soldier, nested | nested timeouts, cancelled work, retries on top |
| Workflow Engine `core/workflow_engine/engine.py` | runs with status, cursor, state | `run`, `resume` | steps given by the caller | failure and cancellation in a step, resume, two resumes at once |
| Memory `core/memory_manager`, `memory/*` | rows and vectors, short-term keys with expiry | `remember`, `recall`, `forget`, `history` | King, memory Soldier; several worker processes on one database | two stores written one after the other, vectors that depend on the process |
| Tools `core/tool_registry`, `core/permission_manager` | tools, allow-lists, roles, assignments, audit, counters | `invoke`, `allow`, `check`, `grant`, `revoke`, `assign`, `unassign` | Soldiers call, administrators change | gates that move while requests are under way, cancelled calls |
| Rate limiter `tools/rate_limit.py`, `api/middleware/ratelimit.py` | a bucket and a limit for each client | `check`, `configure` | every HTTP request | refill arithmetic, reconfiguration |
| Auth `security/*`, `api/deps.py` | users, signed tokens | `register`, `authenticate`, `refresh`, `verify_access` | every route | life of tokens against changed scopes and lost users |
| Planner `king/planner.py` | none | `plan` | King | layers and their dependencies, empty clauses |
| Soldiers `soldiers/*` | none of their own | `execute`, `work` of five classes and the pipeline of the super-soldier | tools, memory | which failure is fatal, recovery, allow-lists against needs |
| API `api/*` | request store, audit ring | routes, stream | King, auth | bounded stores, clients that leave |
| Skill registry `core/skill_registry.py` | the list of skills of a process; a file for each skill | `save_skill`, `reload`, `match` | administrators save, Soldiers take a skill into their prompt | several processes write and read the same files |
| Metrics, logger, health, container | tables | — | — | — |
| Mobile, admin | session, chat list | screens | API | late answers |

What makes each part correct:

* **Task Manager** — nothing starts before what it depends on; the attempt budget is kept; the events
  tell the story of a task; the map returned is settled; every run ends.
* **Event Bus** — a subscription misses nothing from its start to its end, in order; drain concludes
  idleness only when it is true; a failing handler never takes the consumer with it.
* **King** — progress agrees with the answer, the answer is final, every request ends, and leaves a
  subscription behind only where the code cannot help it.
* **Scheduler** — no occurrence early, or twice; no due job starved.
* **Agent Manager** — an agent has a handler on the message bus exactly while it is live.
* **Dispatch** — an answer covers every Soldier chosen, of one attempt; nested limits do not add up; a
  bad Soldier fails nothing; every subtask ends.
* **Workflow Engine** — no step is left out, and unless two callers walk one run at once none is done
  twice.
* **Memory** — the two stores differ only by what an operation has in hand or was cut short at; a recall
  misses a memory of the direction of its query only when as many hits as it asks for have it too.
* **Tools** — decisions, calls and counts agree. **Rate limiter** — in no span of time more than
  capacity plus refill.
* **Auth** — a password reaches as far as one refresh and one access lifetime, as the user and with the
  scopes of its login.
* **Planner** — a step for each clause, after exactly the clauses before the last "then".
* **Soldiers** — what is best effort fails nothing; recovery happens once and pays; nobody is locked out.
* **Skill registry** — a file holds what was last saved; a process that was the last to write has what is on
  disk; a match is the best there is, and what was saved can be matched by its name.

`PROJECT.json` lists under `hazards` each place where one of these can go wrong.

## Modules

| Module | What it is |
|---|---|
| `DagExecution` | abstract: tasks of a DAG begin when what they wait for has succeeded; the run finishes when nothing is active and nothing can begin |
| `TaskManager` | `run_graph` and its workers; implements `DagExecution` (`DagSpec`) |
| `TaskManagerProofs` | the theorems about `TaskManager`, with its refinement of `DagExecution` |
| `EventLog` | abstract: a topic is a log, a subscription reads it from where it joined, in order |
| `EventBus` | the bus; implements `EventLog` (`LogSpec`) |
| `EventBusProofs` | the theorems about `EventBus`, with its refinement of `EventLog` |
| `King` | concurrent requests: task runs at the level of `DagExecution` (`DagPerRequest` checks that the King's use of them is one), the monitor's subscriptions at the level of the bus |
| `KingProofs` | the theorems about `King`, with the refinement of `DagExecution` for each request |
| `Scheduler` | replicas, loops, triggers and the shared lock |
| `SchedulerProofs` | the theorems about `Scheduler` |
| `Dispatch` | one General: subtasks under the Task Manager's retries, requests to the General and its Soldiers, the Agent Manager starting, retiring and restarting them |
| `DispatchProofs` | the theorems about `Dispatch` |
| `ToolRegistry` | the gates and the books of tool calls, with the permission manager |
| `Soldier` | the requests of the Soldiers of every class, on `ToolRegistry` |
| `SoldierProofs` | the theorems about `Soldier` on `ToolRegistry` |
| `Memory` | `remember`, `recall`, `forget` of several processes on shared stores |
| `Workflow` | passes over one workflow run |
| `RateLimiter` | the token buckets over time |
| `Session` | accounts and tokens |
| `Planner` | the plan of an objective, a pure function |
| `Skills` | the lists of skills of several processes on the files they share, and the match, a pure function |
| `StoresProofs` | the theorems about `Memory` and `Skills` |
| `ServicesProofs` | the theorems about `Workflow`, `RateLimiter`, `Session`, and about all of `MCServices` |
| `MCServices` | the modules from `Soldier` on side by side (see Runs); the other `MC*` are small instances of one module |

### What a step is

asyncio runs one coroutine at a time and switches only at an `await` that really suspends. An action
is one stretch of code between two suspensions. `EventBus.publish` puts into unbounded queues,
`InMemoryLock.acquire` and the memory stores are synchronous inside: they never suspend, so they
belong to the step that calls them. A real suspension is: the gather of a wave, an executor, a
handler, a sleep, `Queue.get`. `task.cancel()` only asks; the `CancelledError` arrives when the
coroutine is resumed, which `EventBus` has as a separate action (`CancelLands`).

### TaskManager

`status`, `attempts`, `dependsOn` are the fields of `Task`; `worker[t]` is where the `_run_one`
coroutine of a task stands (not made, created by gather, in the executor, in the backoff sleep, or
over in one of three ways); `runner` is where `run_graph` stands; `emitted` is the history of events.
The executor is the environment: `Succeed`, `FailAndBackOff`, `FailForGood`. `CancelTask` is somebody
calling the public `transition(task, CANCELLED)`; `CancelRun` is the awaiting coroutine being cancelled.
`InvalidTransition` is the refused move that leaves `_run_one` through its own `except` branch, `Raise`
the gather that hands it on while siblings go on.

### EventBus

A subscription is the identity of a `_Group` object, so that a group that unsubscribes and subscribes
anew has two. `held` is the event between `queue.get` and the end of `_deliver`. `log`, `start`,
`settled`, `calls`, `mark` and `published` are history. `DrainTimeout` may happen at any poll.

A handler may call the bus, and may unsubscribe its own group or shut the bus down. `cancel()` on the
task that is running takes effect at its next real suspension, and `queue.get()` on a queue that is not
empty does not suspend: the consumer whose handler did this and returns is called again for what its queue
holds. `busy` is the consumer in such a stretch; no other task moves in it (`MayCall`, `Resumable`), and it
ends with a backoff, with an empty queue, with the end of the loop or with a handler that awaits something
(`Suspends`). `NoCallAfterUnsubscribe` says what may still be called after a group has left: the consumer
in its own stretch, for the events it had coming, in order, each for the first time. In `LogSpec` a reader
that was cancelled has left once it is out of the stretch (`Gone`).

### King

`stage` is where `execute` stands. The Task Manager's run is reduced to its events and to what
`DagExecution` lets its caller see; the bus to the one kind of handler it has here. A payload is
reduced to whose event it is: each counter holds all events and those of its own request. `Cancel` is
the coroutine being cancelled where it suspends (`MessageBus.request` around the King, a client that
leaves a streamed answer). Retries inside a task emit nothing and do not appear. `wired` is whether the
King was given a Task Manager; without one each request fails after `monitor.start`, and its monitor stays
(`NoTaskManager`). `LeavesCleanly`, the safety half of `EveryRequestEnds`, names exactly the requests that
leave theirs: those and the cancelled ones. A request may fail before its run, when the recall raises
(`RecallFails`), and after it, when the exchange cannot be stored (`Respond`); either way none of its tasks
runs on behind it.

### Scheduler

Time is counted in sleeps of the run loop. Several loops of one replica exist because `start` does not
look whether one is running and `stop` cancels only the last. A cron expression stands for instants at
a regular distance, which are found only within `Horizon` (the code looks a year ahead): if there is none
the job is disabled, as a date that has passed is. An interval's private `_anchor` is left out: nothing in
the repository sets it, and with one `next_after` would give the same instant for ever. `Schedule` may take the same `ScheduledJob` again, `enabled` and all. The replicas
hold jobs with the same ids, which the lock is keyed by (with the default random ids nothing is shared
and the replicas are independent).

### Dispatch

`handlers` and `live` are the tables of the message bus and the Agent Manager; `stage`, `attempt`,
`turn`, `results` follow one call of the executor through `BaseGeneral.execute`. Which keywords appear
in an objective is chosen at the start, any set of them. `MessageBus.request` is `asyncio.wait_for`
around the handler, awaited in the same asyncio task (Python 3.12, which the repository requires), so
worker, General and Soldier unwind together, and since all requests have the same limit the one around
the General always comes first. No hook of an agent suspends in this repository, so `ensure`, `retire`
and `supervise` are one step each; a hook that did would let two callers of `ensure` build the same
agent, and a `retire` during `supervise` be undone. `SuperviseFails` is a builder that raises. `spent`,
`asked`, `works` are history. What makes the executor of `TaskManager` succeed or fail is here:
`SoldierReplies` to the end of the loop, or `GeneralMissing` and `RequestTimesOut`.

### ToolRegistry and Soldier

`tools`, `allow`, `scopes`, `holders` are the gates, with their administration as actions; `PassGates`,
`Refuse` and `Finish` are `invoke` up to the tool, at a gate, and from the tool's answer on. `call` is the
call a caller waits for, `audit` the permission manager's decisions, `counted` the counter.

A request of `Soldier` stands (`at`) at the tool it is about to call or waits for: the search for
something to play, the web search, the skills, the model, the plan of a medium, the search on YouTube, or
the one tool of a tool worker. Everything between two calls is one step, so `AfterExtra`, `AfterPlan`,
`Judge` and `Raised` say where an answer or an exception leads. An objective is the set of the words the
code looks for; confidence is counted in tenths. The catalogue has one Soldier of each class and builder;
`BootLists` are the allow-lists start-up gives, `KeySets` the provider keys that may be configured. The
memory worker suspends nowhere (its stores do not), so it is one step. What may raise: providers of
models, the search on results it cannot read, the memory.

### Memory

A call of a store is one step: `remember` is `Remember` and `Upsert`, `forget` is `Forget` and
`DropVector`, `recall` is `Search` and `Hydrate`. In one process with the in-memory stores none of them
suspends; with the shared database the Docker image runs several workers on, other processes come in
between, a store may raise and a worker be replaced. A vector carries the process it was made in: `hash()`
of a string is randomised from process to process. Of a vector the model keeps its direction, `Embed`, an
arbitrary function of the process and the text. Texts have one in common when they are made of the same
words in any order, case or punctuation, or when the hashes of their words collide; a text without a Latin
letter or a digit has none, and its cosine with everything is 0. Hits of the query's direction come before all others, since
their cosine is 1 and no other's is; which of equals comes first, and how the others compare, is left open
(`TopK`). What a recall answers (`Answer`) is checked wherever it could come to read its rows. `RecallSound`
therefore speaks of directions: an acknowledged memory whose vector has the direction the querying process
gives the query is in the answer, unless it has been forgotten or as many hits as are asked for have that
direction. A text that one process has stored has that direction for another only by accident, a query
without words is promised nothing, and k others of the same words crowd a memory out that nobody forgot.

### Workflow

A pass is one execution of `_execute` by whoever calls `run` or `resume`; neither looks at the status, so
passes may overlap. The state is the set of steps whose mark it bears; a step may build a new state from
the one it was given or change the shared one in place (`Returns`). What conditions and loops answer is
left open. `over`, `skipped`, `shared` are history.

### RateLimiter, Session, Planner

Time in `RateLimiter` passes in ticks and tokens are counted in parts, so that rates need not be whole
tokens. `granted` and `before` are history for the property. In `Session` a token is a record its holder
keeps; `login` remembers the password it goes back to. `Replaced` is the process restarting with an empty
user table and the same secret. `Admit` is `get_principal`, which every route has (the WebSocket calls the same
`verify_access`): any valid access token is let in, whatever its scopes. `require_scope` (`deps.py:32`), with
its wildcards, guards no route of the repository and is not modelled, so `SessionBound` says which scopes a
principal carries and nothing of what they would open. In `RateLimiter` a client is the key the middleware
makes, the end of a header it does not verify or else an address, in one process: who changes the header
has another bucket, and so has every worker. `Planner` splits the words of an objective as the code
splits its text and adds group after group (`PlanOf`); `PlanLayered` describes the result by positions of
words, without splitting.

### Skills

A process that saves a skill opens the file, which empties it (`OpenFile`), writes (`WriteFile`), and loads
all skills anew file by file (`LoadFile`); other processes run between any two of these, a write may fail
(`WriteFails`), and a process may be replaced by one that loads from the start (`Respawn`). Two that write
the same file leave the later text, with the end of the earlier one if that is longer; such a mixture reads
as the skill it begins with, or cannot be decoded and is passed over. A text is reduced to the name it
gives itself, the long words of its description and whether it is whole, a name to its folder, its long
words and whether it has capital letters: that is all `match` tells apart. `saved`, `spoilt` and `current`
are history.

## Runs

| Run | Instance | Shows |
|---|---|---|
| `task_manager` | 3 tasks, all 512 dependency functions, budgets 1, 2, 3, two tasks that may be cancelled | all safety and action properties, `DagSpec`, and under fairness `RunTerminates` (the run and every worker end) |
| `event_bus` | 1 topic, 2 groups, 2 subscriptions, 2 events, 2 attempts, 1 drain; handlers that leave their own group included | safety, the accounting of deliveries and drain, `LogSpec`, and under fairness `AcceptedIsSettled` |
| `event_bus_at_least_once` | 2 topics, 2 groups | **violated**: a cancelled delivery is neither handled nor dead-lettered |
| `king` | 2 requests, 2 subtasks (one after the other) and 1, with a Task Manager and without | progress and final answers, `DagPerRequest`; under fairness every request ends, and which of them leave a subscription (`LeavesCleanly`) |
| `king_snapshot` | same | **violated**: the progress counts another request's events |
| `scheduler` | 2 replicas, 2 loops, a one-shot and an interval job, lock kept 2 units, clock to 3 (here and below cron looks 2 units ahead) | spacing, no double fire on a replica, nothing starved |
| `scheduler_interval` | 1 replica, 1 loop that never stops | **violated**: after a tick a due job may be left unfired |
| `scheduler_replicas` | 2 replicas whose loops never stop, one-shot and cron job | **violated**: both replicas fire one occurrence |
| `dispatch` | 1 subtask, a General with either router, 2 Soldiers, 3 keywords of which two are of one Soldier, 2 attempts, a limit of 2 units | registration, time and work budgets, what an answer covers, what fails an attempt; under fairness the subtask ends |
| `dispatch_router` | same | **violated**: a Soldier with two keywords in the objective is asked twice |
| `services` | see below | the services, each in a part of the run: `RecoveryPays`, `ExtrasNeverFail`, `BooksAgree`, `StoresSound` (which is `MemorySound` and `SkillsSound`), `StepsInOrder`, `RateBound`, `SessionBound`, `PlanLayered` |
| `soldier_allowlist` | the Soldiers' part alone | **violated**: an expert is refused the model it works with |

`services` chooses a part at the start and lets only that part move; the parts share no variable, so what
is shown of each on its own is shown of all of them, and the states add up instead of multiplying. Its
parts: requests of one Soldier of every class in up to four wordings beside a second one, four sets of
keys, two changes of the gates; two memory processes, two places, two memories, one hit asked
for, one failure or restart, and three texts: two whose words collide in the first process and in the third have
the directions that the other has in the second, and one without a word; three passes over two steps with one repetition; two clients, half tokens,
a bucket of two tokens that is reconfigured to a small and to one that does not refill, four ticks; two
emails and passwords, one scope, lifetimes of one and two ticks, five ticks, four tokens; every objective
of up to six words, one of which is the keyword the planner's table has twice; two processes and two
folders of skills, three names of which two lead to one folder, three texts that may be uploaded, with a
header and without, three saves, and every request made of these words and names.

Bounds: three tasks allow chains, forks, joins, cycles and a bystander that outlives a failing sibling;
attempts of 1, 2 and 3 cover the last, the first and a middle attempt. Two subscriptions suffice for the
same group twice or two groups side by side, two events for order. Two requests suffice since requests
meet only on the bus. In the scheduler the lock of two units runs out within the clock, so that every
job can fire before, at and after its end. Subtasks given to one General do not meet except in the
tables, which any of them finds changed at any time, so `dispatch` has one; two attempts and a limit of
two units let a second attempt begin with the first half done. Requests of Soldiers meet only in the
gates, which anybody moves, and in the books. Two memories with one hit asked for let a forgotten one,
or a living one of colliding words, crowd out another; one trouble falls between any two calls of an operation. Three passes let one fail
while two others overlap. Three saves let one overlap two
others, in one folder or two. Six words hold groups and clauses that are empty at the beginning, in the middle
and at the end. The clock of `Session` outlasts a login, its refresh and the token that came of it. Each property has in `PROJECT.json` a mutant of the code
that violates it within these bounds.

Fairness: weak fairness of each coroutine that can go on (`RunGraph`, `RunOne(t)`, `Consume(s)`,
`Execute(r)`): the event loop runs ready callbacks in order, sleeps end, and an executor ends because
`MessageBus.request` limits it to 30 seconds. No fairness is assumed of cancellations, subscriptions,
outside moves or, in `King`, of the monitors. In `Dispatch` it is the worker that resumes (`Resume`,
`RequestTimesOut`) and the clock that are fair; that a Soldier ever answers is not assumed. For the bus, `AcceptedIsSettled` assumes that a handler
comes to an end, which nothing in the bus enforces; the monitor's does. The services are checked for safety only: nothing
there waits for anything but the call of a tool or a step, which nobody promises to return.

Deadlock checking is off everywhere: finished runs, closed buses and the end of the clock are meant to
stop.

## What the violations say

1. A bus that promises "at-least-once delivery with bounded retries -> dead-letter" drops the event in
   delivery when its consumer is cancelled (`unsubscribe`, `shutdown`), also in the backoff after the
   last failed attempt.
2. The monitor of a request counts the events of all requests, since topics carry no request id.
3. `InMemoryLock` keeps a job for 30 s and is never released: intervals below that fire late.
4. The replica that does not get the lock does not advance its `next_run`; when the lock has run out it
   fires the occurrence the other one has fired already.
5. `KeywordRouter.select` collects one Soldier per keyword found and keeps duplicates: "pay my credit
   card" has the finance General ask `credit_card` twice.
6. Start-up gives every Soldier without a class of its own an allow-list of the one tool of its name, but
   the factory makes most of them experts that call a model, so that their requests fail: with the real
   start-up, `coding` and `loan` answer "not allowed tool 'llm.local'".

Two more, which no run states because they are each a single step of the model. `king.py:87` calls the
context from memory "best-effort", but nothing catches what `recall` raises: the request fails before it is
planned (`RecallFails`), and a `remember` that raises after the run takes the finished answer with it. And
`supervise` that fails to build an agent anew has retired it for good and does not reach those after it in
its list (`SuperviseFails`).

What holds, but may surprise: a refresh copies the scopes of its token, so a revoked scope lives for a
refresh and an access lifetime (`SessionBound` has the sum); a cancelled tool call is counted as ok; a plan
of a medium that is JSON with a field that is not text fails the request where any other bad plan is
passed over; a run cancelled in a step stays "running"; the vectors of one process are of no use to
another; a handler that unsubscribes its own group may be called again for what was queued; a save of a skill that fails takes the skill with it that it was to replace, and so do names that
differ only in case or punctuation, which share a folder. A comment (`skill_registry.py:67`) says that a
header is added to a plain text "so the skill is matchable". That is so for a name in small letters or with
two long words, which is what `PlainIsMatchable` states; a plain text saved as "Tax" is matched by no
request, since the request is put into small letters and the name is not.

## Proofs

Each proof module is about a specification with all its constants left open: any sets of tasks,
requests, subscriptions, processes or folders, any budgets, limits and bounds. What is assumed of the
constants is an `ASSUME` of the module they are declared in, which TLC evaluates in the runs. Nothing else
is assumed. In every module the argument is the same: the properties are not inductive as they stand;
an invariant that says how the pieces of state go together is, with one lemma for each action that
preserves it, and the properties follow from it. Every inductive invariant was checked by TLC on the
instances of the runs before it was proved.

| Module | Assumes | Theorems |
|---|---|---|
| `TaskManagerProofs` | `Graphs` are dependency functions; budgets positive; `Cancellable` are tasks | `TypeCorrect`, `Invariance`, `DependenciesFirstHolds`, `AttemptBudgetHolds`, `EventsHold`, `RaisesOnlyIfCancelledHolds`, `SettledOnReturnHolds`, `StillAfterTheEndHolds`, `FinalIsFinalHolds`, `ImplementsDag` |
| `EventBusProofs` | `MaxRetries` positive, `MaxEvents` a number, finitely many subscriptions, `None` neither a subscription nor a topic | `TypeCorrect`, `NothingLostHolds`, `DeliveriesAccountedHolds`, `DrainWaitsForAllHolds`, `NoCallAfterUnsubscribeHolds`, `LogSpecHolds` |
| `KingProofs` | each request has a finite set of tasks, and its plans are over them (`PlansAssumption`) | `TypeCorrect`, `NoOwnEventMissedHolds`, `ProgressAgreesWithAnswerHolds`, `LeavesCleanlyHolds`, `DagPerRequestHolds` |
| `SchedulerProofs` | the lock lives a positive time; each job has a kind of trigger and a date or distance that is not 0, and the horizon is a number (`JobsAssumption`); `None` is no loop | `TypeCorrect`, `SpacedByLockHolds`, `OncePerReplicaHolds`, `PassedOverOnlyIfFiredHolds` |
| `DispatchProofs` | the roster is a sequence of Soldiers; keywords lead to Soldiers of it; the General is none of them; attempts and limit positive | `TypeCorrect`, `ReachableIffLiveHolds`, `AnswerCoversChosenHolds`, `RetryBudgetHolds`, `FailureIsContainedHolds` |
| `SoldierProofs` | finitely many callers; agents and jobs are of Soldiers in the catalogue; the three tools every start registers are among `Builtin` (`SoldierAssumption`) | `TypeCorrect`, `BooksAgreeHolds`, `RecoveryPaysHolds`, `ExtrasNeverFailHolds` |
| `StoresProofs` | finitely many processes, at least one, and a direction or none for each text in each of them (`StoresAssumption`); finitely many folders, numbered, and finite texts (`SkillsAssumption`) | `MemoryTypeCorrect`, `MemorySoundHolds`, `SkillsTypeCorrect`, `SkillsSoundHolds` |
| `ServicesProofs` | those of its parts, and numbers for lengths, limits and lifetimes | `WorkflowTypeCorrect`, `StepsInOrderHolds`, `LimiterTypeCorrect`, `RateBoundHolds`, `SessionTypeCorrect`, `SessionBoundHolds`, `ServicesTypeCorrect`, `StoresSoundHolds`, `PlanLayeredHolds` |

**TaskManager.** `IInv` adds to the type, for each task, how the place of its worker,
its status and its attempts go together (`WorkerInv`), that a task in a wave or past it has its direct
dependencies completed (`DependenciesDone`), and what `run_graph` knows of the workers where it stands
(`RunnerInv`). `DependenciesFirst` speaks of all ancestors: it follows from `DependenciesDone` because
the completed tasks, each of which was attempted, are a set closed under dependencies, and the
ancestors are in every such set. `SettledOnReturn` follows from acyclicity in the same style: the
blocked tasks that have no excuse would be a set with no first element. `RaisesOnlyIfCancelled` is
proved and is not a property of a run.

**EventBus.** That what is settled, in delivery and waiting is, in this order, what was published since
the subscription began (`ViewInv`) is preserved only together with where the consumer stands and what it
holds there (`PlaceInv`), with the fact that no event waits twice or has been handled before its turn
(`WaitingInv`), and with the registry: whoever is subscribed and not cancelled is the one its group
leads to, so that `publish` reaches it (`RegistryInv`). `inflight` is the number of subscriptions with an
event in hand (`CountInv`), which is why a drain that reads 0 and finds the queues empty may conclude
what it does. `LogSpec` follows step by step: publishing appends to a log, settling moves a reader on, and
every other step stutters. That a consumer in its own stretch is called for the next event it had coming, and
for the first time (`NoCallAfterUnsubscribe`), is read off `ViewInv`, which holds for it up to what was
published before it left, and off the fact that it is never in a backoff there.

**King.** For each request: a monitor is subscribed from the start of the run to the end of the drain
(`StageInv`), the events published are those the tasks have made (`BooksInv`), and of its own events each
is counted or waits (`OwnInv`). After an idle drain nothing waits, so that the counts are those of the
tasks, and these are settled. Sums over other requests are not needed: the payloads tell whose an event is.
`LeavesCleanlyHolds` proves the safety half of `EveryRequestEnds`.

**Scheduler.** `SpacedByLock` needs that the lock of a job outlasts each of its fires (`LockInv`);
`OncePerReplica` that what a replica has fired lies before what it has the job down for next (`DueInv`),
and, for a one-shot job, that it is down for its date or for nothing (`DateInv`). The distance between
two instants of a trigger is positive, which is all that is used of triggers.

**Dispatch.** `PlaceInv` says of a call at its n-th Soldier which results it has and whom this attempt
has asked; `TimeInv` and `WorkInv` bound the time spent and the work done by what earlier attempts may have
taken plus what this one has. Its operator for numbers in increasing order chooses an enumeration; that there
is one is proved by a smallest counterexample.

**Soldier.** A request's record says where it stands; `PlaceInv`, `SpentInv`, `LinkInv` and `KeptInv` say
which Soldiers can stand there, how many models they have asked on the way, which link they have, and that
the kept answer is the best. They do not depend on what the gates say: a refusal or an exception at any
tool leaves them true. `BooksAgree` is inductive together with the type of the registry.

**Stores.** In `Memory` an id is drawn once (`OneMemory`), so that what bears it belongs to one memory; the
rows are what was not forgotten and the vectors what was acknowledged and not forgotten, except what an
operation has in hand or was cut short at (`Stores`); and a recall under way has hits of its place, among
them what is due unless K of the query's direction crowd it out (`RecallInv`), whatever directions texts have. In `Skills`, a folder nobody
has spoilt has at most one writer (`SaveInv`), and a process that began to load after the last write has
the first skills of what is on disk and the rest before it (`CurrentInv`). That `match` finds the
best is an induction over a list of any length, again by a smallest counterexample (`WalkFindsBest`).

**Services.** `Workflow`: what lies before a pass and before the cursor is over (`NothingLeftOut`), and
while a run is not shared the one pass under way stands where the cursor does, with a state that bears all
marks (`AloneInv`). `RateLimiter`: for *every* time t, what was granted since t and what is in the bucket now are
together at most a full bucket and what has flowed in since (`Balance`); the bound is what remains when
the bucket is left out. `Session`: a token carries the scopes and the user of its login, and ends within
the lifetimes that remain from there (`TokenInv`): one for a refresh token, both for an access token. A
behaviour of `MCServices` is a behaviour of each part (`BehaviourOfEveryPart`), so that what is proved of
the parts holds of the whole (`ServicesTypeCorrect`, `StoresSoundHolds`).

**Planner.** `PlanLayered` equates two ways to read an objective, of any length and with any table of
keywords: cutting it at separators, twice, and counting the words that begin something. The cuts are an
increasing sequence of positions with the separators at them and none between (`Cuts`, `SplitFacts`), so
that the i-th group is the layer i - 1 of the description (`LayerFacts`), and where its clauses begin is
where the description has beginnings (`ClauseFacts`, `BeginningFacts`). What the first n groups have come to
is what the description has below layer n, and the next group will wait for the latest layer of it that has
any (`Built`); a group keeps that (`BuildStep`), an empty one because it adds nothing. That all groups do
follows by the smallest one that would not (`BuiltAll`).

Only model-checked: `RunTerminates`, `AcceptedIsSettled`, `EveryRequestEnds` and `SubtaskEnds`, since
liveness under fairness is out of the prover's reach.

## Not modelled

* **Short-term memory and history**: no other part of the system uses the short-term store, and history
  only reads rows.
* **ApiService and routes**: a chat is one run of the King whose envelope is kept in a table; the rest is
  request plumbing and rendering of what other parts hold. Registration, tokens, admission to a route and
  the rate limit are in `Session` and `RateLimiter`.
* **Providers and tools**: calls of external services; that they may answer anything, raise or not return
  is in `Soldier`.
* **Logger, Metrics, Health, Container, Settings**: counters, wording and wiring. The tools counter is in
  `ToolRegistry`.
* **Rosters**: tables; one entry of each class and builder is in `Soldier`, one roster behind each router
  in `Dispatch`.
* **Mobile client and admin front ends**: separate programs in other languages; screens around the calls
  of the server. What meets there, a refresh that is answered after a logout, a chat that is cleared
  while an answer streams, is left to the plan.

## Plan

Modelled, in this order: `TaskManager` with its proofs, `EventBus`, `King`, `Scheduler`, `Dispatch`,
`ToolRegistry`, `Soldier`, `Memory`, `Workflow`, `RateLimiter`, `Session`, `Planner`, `Skills`. All of
them have proofs. To come: models of the fields of a cron expression as a pure function, of the table of
requests of `ApiService`, and of the session of the mobile client.
