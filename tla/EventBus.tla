------------------------------ MODULE EventBus ------------------------------
(***************************************************************************)
(* The in-memory publish/subscribe bus                                     *)
(* (backend/core/event_bus/event_bus.py).                                  *)
(*                                                                         *)
(* Every subscription of a group to a topic has its own unbounded queue    *)
(* and its own consumer, an asyncio task.  A consumer suspends in          *)
(* queue.get, in the handler and in the backoff sleep; one action is one   *)
(* stretch between two of these.  task.cancel() only requests: the         *)
(* CancelledError is thrown into the consumer when it is resumed, which    *)
(* is an action of its own.                                                *)
(*                                                                         *)
(* A task that is cancelled while it runs goes on until it next suspends.  *)
(* A handler that unsubscribes its own group, or shuts the bus down, and   *)
(* returns without suspending is therefore called again, by the same       *)
(* consumer, for whatever its queue holds: queue.get suspends only on an   *)
(* empty queue.  `busy' is the consumer that is in such a stretch; the     *)
(* stretch may span several actions, and no other task runs in it.         *)
(*                                                                         *)
(* The handlers are the environment: they return or raise, and let         *)
(* CancelledError through.  Whatever they do to the bus meanwhile is one   *)
(* of the other actions.                                                   *)
(***************************************************************************)
EXTENDS Integers, Sequences, FiniteSets

CONSTANTS Topic, Group,
          Subscription,  \* identities of the _Group objects ever made
          Drainer,       \* coroutines that call drain
          MaxRetries,    \* max_retries of the bus
          MaxEvents,     \* bound on the events published
          None           \* no _Group, no topic

ASSUME MaxRetriesAssumption == MaxRetries \in Nat \ {0}
ASSUME MaxEventsAssumption == MaxEvents \in Nat
ASSUME SubscriptionAssumption == IsFiniteSet(Subscription)
ASSUME NoneAssumption == None \notin Subscription \cup Topic

VARIABLES groups,      \* _groups[topic][group]
          topicOf,     \* the topic a subscription was made for
          queue,       \* _Group.queue
          consumer,    \* where the consumer stands
          cancelled,   \* cancel() was called on the consumer
          busy,        \* the consumer cancelled by its own handler, as long as
                       \* it has not suspended since
          held,        \* the event in delivery, as a sequence of length <= 1
          attempt,     \* the loop variable of _deliver
          inflight,    \* _inflight
          deadLetter,  \* _dead_letter
          running,     \* _running
          drain,       \* where each drain call stands
          published,   \* history: how many events were published
          log,         \* history: the events published on each topic
          start,       \* history: length of the log at the subscription
          settled,     \* history: the events a subscription is done with
          calls,       \* history: handler calls of a subscription per event
          mark         \* history: each log, as long as when the drain began

core == <<groups, topicOf, queue, consumer, cancelled, busy>>
delivery == <<held, attempt, inflight, deadLetter>>
history == <<published, log, start, settled, calls>>
draining == <<drain, mark>>
vars == <<groups, topicOf, queue, consumer, cancelled, busy, held, attempt,
          inflight, deadLetter, running, drain, published, log, start, settled, calls, mark>>

Event == 1 .. MaxEvents
Consumer == {"unborn", "created", "waiting", "handling", "backoff", "ended"}

TypeOK ==
    /\ groups \in [Topic \X Group -> Subscription \cup {None}]
    /\ topicOf \in [Subscription -> Topic \cup {None}]
    /\ queue \in [Subscription -> Seq(Event)]
    /\ consumer \in [Subscription -> Consumer]
    /\ cancelled \in [Subscription -> BOOLEAN]
    /\ busy \in Subscription \cup {None}
    /\ held \in [Subscription -> Seq(Event)]
    /\ attempt \in [Subscription -> 0 .. MaxRetries]
    /\ inflight \in Int
    /\ deadLetter \in SUBSET (Subscription \X Event)
    /\ running \in BOOLEAN
    /\ drain \in [Drainer -> {"none", "polling", "idle", "timeout"}]
    /\ published \in 0 .. MaxEvents
    /\ log \in [Topic -> Seq(Event)]
    /\ start \in [Subscription -> Nat]
    /\ settled \in [Subscription -> Seq(Event)]
    /\ calls \in [Subscription -> [Event -> Nat]]
    /\ mark \in [Drainer -> [Topic -> Nat]]

Init == /\ groups = [p \in Topic \X Group |-> None]
        /\ topicOf = [s \in Subscription |-> None]
        /\ queue = [s \in Subscription |-> <<>>]
        /\ consumer = [s \in Subscription |-> "unborn"]
        /\ cancelled = [s \in Subscription |-> FALSE]
        /\ busy = None
        /\ held = [s \in Subscription |-> <<>>]
        /\ attempt = [s \in Subscription |-> 0]
        /\ inflight = 0
        /\ deadLetter = {}
        /\ running = TRUE
        /\ drain = [d \in Drainer |-> "none"]
        /\ published = 0
        /\ log = [t \in Topic |-> <<>>]
        /\ start = [s \in Subscription |-> 0]
        /\ settled = [s \in Subscription |-> <<>>]
        /\ calls = [s \in Subscription |-> [e \in Event |-> 0]]
        /\ mark = [d \in Drainer |-> [t \in Topic |-> 0]]

Registered == {groups[p] : p \in Topic \X Group} \ {None}
RegisteredTo(t) == {groups[<<t, g>>] : g \in Group} \ {None}

\* In a busy stretch only its own handler calls the bus.
MayCall == busy # None => consumer[busy] = "handling"

\* The caller that has the consumer of s cancelled is its own handler, or not.
CalledBy(s) == \/ busy' = busy
               \/ /\ busy = None
                  /\ consumer[s] = "handling"
                  /\ ~ cancelled[s]
                  /\ busy' = s

-----------------------------------------------------------------------------
(* publish, subscribe, unsubscribe, shutdown.                              *)

\* publish delivers to one group only, as a queue shared by the groups would.
PublishToOne(t) ==
    /\ MayCall
    /\ published < MaxEvents
    /\ published' = published + 1
    /\ log' = [log EXCEPT ![t] = Append(@, published + 1)]
    /\ \/ RegisteredTo(t) = {} /\ queue' = queue
       \/ \E s \in RegisteredTo(t) :
             queue' = [queue EXCEPT ![s] = Append(@, published + 1)]
    /\ UNCHANGED <<groups, topicOf, consumer, cancelled, busy, delivery,
                   running, draining, start, settled, calls>>

\* A copy for every group of the topic; with no group the event is gone.
Publish(t) ==
    /\ MayCall
    /\ published < MaxEvents
    /\ published' = published + 1
    /\ log' = [log EXCEPT ![t] = Append(@, published + 1)]
    /\ queue' = [s \in Subscription |->
                   IF s \in RegisteredTo(t) THEN Append(queue[s], published + 1)
                                            ELSE queue[s]]
    /\ UNCHANGED <<groups, topicOf, consumer, cancelled, busy, delivery,
                   running, draining, start, settled, calls>>

\* A second subscription of the group raises ValueError and changes nothing.
Subscribe(t, g, s) ==
    /\ MayCall
    /\ groups[<<t, g>>] = None
    /\ consumer[s] = "unborn"
    /\ groups' = [groups EXCEPT ![<<t, g>>] = s]
    /\ topicOf' = [topicOf EXCEPT ![s] = t]
    /\ consumer' = [consumer EXCEPT ![s] = "created"]
    /\ start' = [start EXCEPT ![s] = Len(log[t])]
    /\ UNCHANGED <<queue, cancelled, busy, delivery, running, draining,
                   published, log, settled, calls>>

\* The consumer is left alone: it goes on serving a queue nobody can reach.
UnsubscribeOnlyPops(t, g) ==
    /\ MayCall
    /\ groups[<<t, g>>] # None
    /\ groups' = [groups EXCEPT ![<<t, g>>] = None]
    /\ UNCHANGED <<topicOf, queue, consumer, cancelled, busy, delivery, running,
                   draining, history>>

Unsubscribe(t, g) ==
    /\ MayCall
    /\ groups[<<t, g>>] # None
    /\ groups' = [groups EXCEPT ![<<t, g>>] = None]
    /\ cancelled' = [cancelled EXCEPT ![groups[<<t, g>>]] = TRUE]
    /\ CalledBy(groups[<<t, g>>])
    /\ UNCHANGED <<topicOf, queue, consumer, delivery, running, draining,
                   history>>

\* The groups stay registered.
Shutdown ==
    /\ MayCall
    /\ running
    /\ running' = FALSE
    /\ cancelled' = [s \in Subscription |-> cancelled[s] \/ s \in Registered]
    /\ busy' = busy \/ \E s \in Registered : CalledBy(s)
    /\ UNCHANGED <<groups, topicOf, queue, consumer, delivery, draining,
                   history>>

-----------------------------------------------------------------------------
(* The consumer of a subscription.                                         *)

Resumable(s) == busy = s \/ (busy = None /\ ~ cancelled[s])

\* The test of the consumer's while loop.
LoopTest == IF running THEN "waiting" ELSE "ended"

Begin(s) == /\ Resumable(s)
            /\ consumer[s] = "created"
            /\ consumer' = [consumer EXCEPT ![s] = LoopTest]
            /\ UNCHANGED <<groups, topicOf, queue, cancelled, busy, delivery,
                           running, draining, history>>

Call(s, e, n) == /\ consumer' = [consumer EXCEPT ![s] = "handling"]
                 /\ attempt' = [attempt EXCEPT ![s] = n]
                 /\ calls' = [calls EXCEPT ![s][e] = @ + 1]

\* The delivery is not counted while it runs.
TakeUncounted(s) ==
    /\ Resumable(s)
    /\ consumer[s] = "waiting"
    /\ queue[s] # <<>>
    /\ queue' = [queue EXCEPT ![s] = Tail(@)]
    /\ held' = [held EXCEPT ![s] = <<Head(queue[s])>>]
    /\ Call(s, Head(queue[s]), 1)
    /\ UNCHANGED <<groups, topicOf, cancelled, busy, inflight, deadLetter,
                   running, draining, published, log, start, settled>>

\* queue.get returns, the delivery is counted and the handler called: nothing
\* suspends in between, nor after a delivery if the queue is not empty.
Take(s) ==
    /\ Resumable(s)
    /\ consumer[s] = "waiting"
    /\ queue[s] # <<>>
    /\ queue' = [queue EXCEPT ![s] = Tail(@)]
    /\ held' = [held EXCEPT ![s] = <<Head(queue[s])>>]
    /\ inflight' = inflight + 1
    /\ Call(s, Head(queue[s]), 1)
    /\ UNCHANGED <<groups, topicOf, cancelled, busy, deadLetter, running,
                   draining, published, log, start, settled>>

\* _deliver returns: the finally clause, then the while test.
Settle(s) ==
    /\ settled' = [settled EXCEPT ![s] = @ \o held[s]]
    /\ held' = [held EXCEPT ![s] = <<>>]
    /\ attempt' = [attempt EXCEPT ![s] = 0]
    /\ inflight' = inflight - 1
    /\ consumer' = [consumer EXCEPT ![s] = LoopTest]
    /\ UNCHANGED <<groups, topicOf, queue, cancelled, busy, running, draining,
                   published, log, start, calls>>

HandlerReturns(s) == /\ Resumable(s)
                     /\ consumer[s] = "handling"
                     /\ Settle(s)
                     /\ UNCHANGED deadLetter

\* The exception escapes and takes the consumer with it.
HandlerRaisesUncaught(s) ==
    /\ Resumable(s)
    /\ consumer[s] = "handling"
    /\ consumer' = [consumer EXCEPT ![s] = "ended"]
    /\ busy' = None
    /\ UNCHANGED <<groups, topicOf, queue, cancelled, delivery, running,
                   draining, history>>

\* The exception is swallowed; the sleep follows the last attempt as well.
HandlerRaises(s) ==
    /\ Resumable(s)
    /\ consumer[s] = "handling"
    /\ consumer' = [consumer EXCEPT ![s] = "backoff"]
    /\ busy' = None
    /\ UNCHANGED <<groups, topicOf, queue, cancelled, delivery, running,
                   draining, history>>

\* One attempt too many.
LastAttemptLate(s) == attempt[s] > MaxRetries

LastAttempt(s) == attempt[s] = MaxRetries

TryAgain(s) == /\ Resumable(s)
               /\ consumer[s] = "backoff"
               /\ ~ LastAttempt(s)
               /\ Call(s, held[s][1], attempt[s] + 1)
               /\ UNCHANGED <<groups, topicOf, queue, cancelled, busy, held,
                              inflight, deadLetter, running, draining,
                              published, log, start, settled>>

DeadLetter(s) ==
    /\ Resumable(s)
    /\ consumer[s] = "backoff"
    /\ LastAttempt(s)
    /\ deadLetter' = deadLetter \cup {<<s, held[s][1]>>}
    /\ Settle(s)

\* No finally: a cancelled delivery stays counted.
CancelLandsUncounted(s) ==
    /\ busy = None
    /\ cancelled[s]
    /\ consumer[s] # "ended"
    /\ consumer' = [consumer EXCEPT ![s] = "ended"]
    /\ held' = [held EXCEPT ![s] = <<>>]
    /\ attempt' = [attempt EXCEPT ![s] = 0]
    /\ UNCHANGED <<groups, topicOf, queue, cancelled, busy, inflight, deadLetter,
                   running, draining, history>>

\* The busy stretch ends: the handler awaits something, queue.get finds nothing,
\* or the task is over.
Suspends(s) == /\ busy = s
               /\ consumer[s] = "waiting" => queue[s] = <<>>
               /\ busy' = None
               /\ UNCHANGED <<groups, topicOf, queue, consumer, cancelled,
                              delivery, running, draining, history>>

\* CancelledError reaches the consumer.  In queue.get it ends the loop; in a
\* handler or a backoff it passes through _deliver, which catches Exception
\* only, and the finally clause: the event in delivery is dropped.
CancelLands(s) ==
    /\ busy = None
    /\ cancelled[s]
    /\ consumer[s] # "ended"
    /\ consumer' = [consumer EXCEPT ![s] = "ended"]
    /\ inflight' = inflight - Len(held[s])
    /\ held' = [held EXCEPT ![s] = <<>>]
    /\ attempt' = [attempt EXCEPT ![s] = 0]
    /\ UNCHANGED <<groups, topicOf, queue, cancelled, busy, deadLetter, running,
                   draining, history>>

Consume(s) == \/ Begin(s)
              \/ Take(s)
              \/ HandlerReturns(s)
              \/ HandlerRaises(s)
              \/ TryAgain(s)
              \/ DeadLetter(s)
              \/ Suspends(s)
              \/ CancelLands(s)

-----------------------------------------------------------------------------
(* drain.                                                                  *)

Idle == inflight = 0 /\ \A s \in Registered : queue[s] = <<>>

StartDrain(d) ==
    /\ busy = None
    /\ drain[d] = "none"
    /\ drain' = [drain EXCEPT ![d] = "polling"]
    /\ mark' = [mark EXCEPT ![d] = [t \in Topic |-> Len(log[t])]]
    /\ UNCHANGED <<core, delivery, running, history>>

\* The history of a drain that is over is of no more use.
Forget(d) == mark' = [mark EXCEPT ![d] = [t \in Topic |-> 0]]

\* After a sleep, the bus is found idle.
DrainIdle(d) ==
    /\ busy = None
    /\ drain[d] = "polling"
    /\ Idle
    /\ drain' = [drain EXCEPT ![d] = "idle"]
    /\ Forget(d)
    /\ UNCHANGED <<core, delivery, running, history>>

\* The deadline passes; the caller is not told the difference.
DrainTimeout(d) ==
    /\ busy = None
    /\ drain[d] = "polling"
    /\ drain' = [drain EXCEPT ![d] = "timeout"]
    /\ Forget(d)
    /\ UNCHANGED <<core, delivery, running, history>>

Next == \/ \E t \in Topic : Publish(t)
        \/ \E t \in Topic, g \in Group :
              \/ \E s \in Subscription : Subscribe(t, g, s)
              \/ Unsubscribe(t, g)
        \/ Shutdown
        \/ \E s \in Subscription : Consume(s)
        \/ \E d \in Drainer : StartDrain(d) \/ DrainIdle(d) \/ DrainTimeout(d)

\* The loop resumes a consumer that can go on; a handler comes to an end.
Fairness == \A s \in Subscription : WF_vars(Consume(s))

Spec == Init /\ [][Next]_vars
FairSpec == Spec /\ Fairness

-----------------------------------------------------------------------------
(* Properties.                                                             *)

\* The events of its topic a subscription has yet to settle are, in order,
\* the one in delivery and those in its queue: nothing published since it
\* joined is lost, repeated or overtaken while it is subscribed, whatever
\* handlers raise (publish, _consume and _deliver).
NothingLostWhileSubscribed ==
    \A s \in Subscription :
        (topicOf[s] # None /\ ~ cancelled[s]) =>
            settled[s] \o held[s] \o queue[s]
                = SubSeq(log[topicOf[s]], start[s] + 1, Len(log[topicOf[s]]))

\* _inflight counts the deliveries under way, through returns, dead letters
\* and cancellations, as drain relies on; and a dead letter means the handler of
\* that group was called max_retries times for that event and not once more,
\* every other settled event having been handled within the budget.
DeliveriesAccounted ==
    /\ inflight = Cardinality({s \in Subscription : held[s] # <<>>})
    /\ \A s \in Subscription, e \in Event :
            /\ calls[s][e] <= MaxRetries
            /\ <<s, e>> \in deadLetter => calls[s][e] = MaxRetries
            /\ (\E i \in DOMAIN settled[s] : settled[s][i] = e) => calls[s][e] > 0

\* A drain that returns because the bus is idle has waited for everything
\* published before it began, to every group still subscribed (king.py reads
\* the monitor right after it).
DrainWaitsForAll ==
    [][\A d \in Drainer : (drain[d] = "polling" /\ drain'[d] = "idle") =>
          \A s \in Registered :
              cancelled[s] \/ start[s] + Len(settled[s]) >= mark[d][topicOf[s]]]_vars

\* Whoever has unsubscribed is not called again, unless its own handler
\* unsubscribed it and has not suspended since; and what that handler is then
\* called for is, in order, the events it had coming, each for the first time:
\* nothing is retried once the group has left (unsubscribe and _consume).
NoCallAfterUnsubscribe ==
    [][\A s \in Subscription :
          (topicOf[s] # None /\ s \notin Registered /\ calls'[s] # calls[s]) =>
              LET e == log[topicOf[s]][start[s] + Len(settled[s]) + 1]
              IN  /\ busy = s
                  /\ calls[s][e] = 0
                  /\ calls'[s] = [calls[s] EXCEPT ![e] = 1]]_vars

\* An event that reached the queue of a subscription is settled unless the
\* subscription is cancelled or the bus shut down.
AcceptedIsSettled ==
    \A s \in Subscription :
        queue[s] # <<>> ~> \/ queue[s] = <<>> /\ held[s] = <<>>
                           \/ cancelled[s]
                           \/ ~ running

\* "at-least-once delivery with bounded retries -> dead-letter": a delivery
\* that has begun ends with the handler's return or a dead letter.
DeliveryIsSettled ==
    [][\A s \in Subscription :
          (held[s] # <<>> /\ held'[s] = <<>>) =>
              settled'[s] = settled[s] \o held[s]]_vars

-----------------------------------------------------------------------------
(* The log this bus implements.                                            *)

\* Cancelled, and no longer in the stretch it was cancelled in.
Gone(s) == cancelled[s] /\ busy # s

Log == INSTANCE EventLog WITH NoTopic <- None,
                              seen <- settled,
                              left <- [s \in Subscription |-> Gone(s)]

\* Each subscription reads its topic as a log (see EventLog), until it is gone.
LogSpec == Log!Spec
=============================================================================
