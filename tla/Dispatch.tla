------------------------------ MODULE Dispatch ------------------------------
(***************************************************************************)
(* The way of a subtask from the King to a General and on to its Soldiers, *)
(* by requests on the message bus (backend/core/message_bus/message_bus.py,*)
(* backend/generals/base.py, backend/soldiers/base/base_soldier.py,        *)
(* KingAgent._dispatch_executor), under the retries of the Task Manager    *)
(* and while the Agent Manager (backend/core/agent_manager/manager.py)     *)
(* starts, retires and restarts agents.                                    *)
(*                                                                         *)
(* A request is asyncio.wait_for around the handler: worker, General and   *)
(* Soldier are one asyncio task with nested deadlines, and a deadline or a *)
(* cancellation unwinds all of it.  Every request has the same time limit, *)
(* so the one around the General, which is older, comes first.  Only the   *)
(* work of a Soldier suspends; the hooks of the agents do not.             *)
(*                                                                         *)
(* Time is counted in fractions of the limit; a backoff takes none of it.  *)
(***************************************************************************)
EXTENDS Naturals, Sequences, FiniteSets

CONSTANTS Subtask,      \* subtasks given to one General
          General,      \* its name
          Soldier,      \* the names of Soldiers
          Roster,       \* the General's Soldiers, in order
          Keywords,     \* the Soldier of each keyword, in the router's order
          Research,     \* the Soldier the Knowledge General falls back to
          MaxAttempts,  \* Task.max_attempts
          Timeout       \* the time limit of a request

ASSUME RosterAssumption == Roster \in Seq(Soldier)
ASSUME KeywordsAssumption ==
    /\ Keywords \in Seq(Soldier)
    /\ \A k \in DOMAIN Keywords : \E i \in DOMAIN Roster : Roster[i] = Keywords[k]
ASSUME GeneralAssumption == General \notin Soldier
ASSUME LimitsAssumption == MaxAttempts \in Nat \ {0} /\ Timeout \in Nat \ {0}

VARIABLES live,      \* AgentManager._live
          handlers,  \* MessageBus._handlers
          sick,      \* agents whose health check fails
          chosen,    \* what the router selects for a subtask, in order
          stage,     \* where the worker of a subtask stands
          attempt,   \* Task.attempts
          turn,      \* the place in chosen of the Soldier being asked
          results,   \* results of the General's loop
          elapsed,   \* time since the General was asked
          spent,     \* history: time since the first attempt began
          asked,     \* history: Soldiers asked in this attempt, in order
          works      \* history: how often each Soldier began to work

registry == <<live, handlers, sick>>
call == <<chosen, stage, attempt, turn, results, elapsed, spent, asked, works>>
vars == <<live, handlers, sick, chosen, stage, attempt, turn, results, elapsed,
          spent, asked, works>>

\* The names with a spec, one spec each (AgentRegistry).
Agent == Soldier \cup {General}
Stage == {"created", "asking", "backoff", "completed", "failed", "cancelled"}
Result == {"completed", "failed", "not_running"}

\* The numbers in S in increasing order.
InOrder(S) == [n \in 1 .. Cardinality(S) |->
                 CHOOSE k \in S : Cardinality({m \in S : m <= k}) = n]

\* KeywordRouter.select: the Soldiers of the keywords M found in the objective,
\* keyword by keyword, or the whole roster if there are none.
Select(M) ==
    IF M = {} THEN Roster
    ELSE LET found == InOrder(M) IN [n \in DOMAIN found |-> Keywords[found[n]]]

\* _KnowledgeRouter.select: Research alone instead of the whole roster, also
\* when every Soldier has been named.
KnowledgeSelect(M) ==
    LET chosenOnes == Select(M)
        Names(s) == {s[i] : i \in DOMAIN s}
    IN IF Names(chosenOnes) = Names(Roster) /\ Research \in Names(Roster)
       THEN <<Research>> ELSE chosenOnes

TypeOK ==
    /\ live \subseteq Agent
    /\ handlers \subseteq Agent
    /\ sick \subseteq live
    /\ chosen \in [Subtask -> Seq(Soldier)]
    /\ stage \in [Subtask -> Stage]
    /\ attempt \in [Subtask -> 0 .. MaxAttempts]
    /\ turn \in [Subtask -> Nat]
    /\ results \in [Subtask -> Seq(Result)]
    /\ elapsed \in [Subtask -> 0 .. Timeout]
    /\ spent \in [Subtask -> Nat]
    /\ asked \in [Subtask -> Seq(Soldier)]
    /\ works \in [Subtask -> [Soldier -> Nat]]

\* Bootstrap has started every agent; the General has either router.
Init == /\ live = Agent
        /\ handlers = Agent
        /\ sick = {}
        /\ chosen \in [Subtask -> {Select(M) : M \in SUBSET (DOMAIN Keywords)}
                               \cup {KnowledgeSelect(M) : M \in SUBSET (DOMAIN Keywords)}]
        /\ stage = [c \in Subtask |-> "created"]
        /\ attempt = [c \in Subtask |-> 0]
        /\ turn = [c \in Subtask |-> 0]
        /\ results = [c \in Subtask |-> <<>>]
        /\ elapsed = [c \in Subtask |-> 0]
        /\ spent = [c \in Subtask |-> 0]
        /\ asked = [c \in Subtask |-> <<>>]
        /\ works = [c \in Subtask |-> [s \in Soldier |-> 0]]

-----------------------------------------------------------------------------
(* The Agent Manager.                                                      *)

\* The hooks of an agent: its handler comes to the bus and goes.
Initialize(a) == handlers' = handlers \cup {a}
ShutDown(a) == handlers' = handlers \ {a}

\* ensure: build, initialize, keep.  A builder that raises, or an agent that is
\* live, changes nothing.
Ensure(a) == /\ a \notin live
             /\ live' = live \cup {a}
             /\ Initialize(a)
             /\ UNCHANGED <<sick, call>>

\* The agent is not shut down: its handler stays.
RetireUnshut(a) == /\ a \in live
                   /\ live' = live \ {a}
                   /\ sick' = sick \ {a}
                   /\ UNCHANGED <<handlers, call>>

\* retire: what shutdown raises is swallowed.
Retire(a) == /\ a \in live
             /\ live' = live \ {a}
             /\ ShutDown(a)
             /\ sick' = sick \ {a}
             /\ UNCHANGED call

\* The health of an agent is its own affair.
FallSick(a) == /\ a \in live \ sick
               /\ sick' = sick \cup {a}
               /\ UNCHANGED <<live, handlers, call>>

\* supervise restarts every agent that is not healthy.
Supervise == /\ sick # {}
             /\ sick' = {}
             /\ UNCHANGED <<live, handlers, call>>

\* The builder of one of them raises: that agent has been retired already,
\* those before it in the walk have been restarted, the others not.
SuperviseFails(a) ==
    /\ a \in sick
    /\ live' = live \ {a}
    /\ ShutDown(a)
    /\ \E restarted \in SUBSET (sick \ {a}) : sick' = sick \ ({a} \cup restarted)
    /\ UNCHANGED call

-----------------------------------------------------------------------------
(* The General's loop over the chosen Soldiers.                            *)

\* The first place from k on whose Soldier has a handler.
NextUp(c, k) == CHOOSE j \in k .. Len(chosen[c]) + 1 :
                   /\ j <= Len(chosen[c]) => chosen[c][j] \in handlers
                   /\ \A i \in k .. j - 1 : chosen[c][i] \notin handlers

\* A Soldier without handler is passed over in silence.
AskUnrecorded(c, k, r, sofar) ==
    LET j == NextUp(c, k)
        s == chosen[c][j]
    IN  /\ turn' = [turn EXCEPT ![c] = j]
        /\ results' = [results EXCEPT ![c] = r]
        /\ IF j <= Len(chosen[c])
           THEN /\ stage' = [stage EXCEPT ![c] = "asking"]
                /\ asked' = [asked EXCEPT ![c] = Append(sofar, s)]
                /\ works' = [works EXCEPT ![c][s] = @ + 1]
           ELSE /\ stage' = [stage EXCEPT ![c] = "completed"]
                /\ asked' = [asked EXCEPT ![c] = sofar]
                /\ UNCHANGED works

\* The loop goes on at place k with the results r: a Soldier without handler
\* (KeyError) is recorded and the next one asked, without a suspension.  At
\* the end the General answers, and the subtask is completed however the
\* Soldiers fared.
Ask(c, k, r, sofar) ==
    LET j == NextUp(c, k)
        s == chosen[c][j]
    IN  /\ turn' = [turn EXCEPT ![c] = j]
        /\ results' = [results EXCEPT ![c] = r \o [i \in 1 .. j - k |-> "not_running"]]
        /\ IF j <= Len(chosen[c])
           THEN /\ stage' = [stage EXCEPT ![c] = "asking"]
                /\ asked' = [asked EXCEPT ![c] = Append(sofar, s)]
                /\ works' = [works EXCEPT ![c][s] = @ + 1]
           ELSE /\ stage' = [stage EXCEPT ![c] = "completed"]
                /\ asked' = [asked EXCEPT ![c] = sofar]
                /\ UNCHANGED works

\* One attempt more than there are.
GiveUpLate(c, n) ==
    stage' = [stage EXCEPT ![c] = IF n > MaxAttempts THEN "failed" ELSE "backoff"]

\* The attempt has failed: backoff, or the dead letter.
GiveUp(c, n) ==
    stage' = [stage EXCEPT ![c] = IF n >= MaxAttempts THEN "failed" ELSE "backoff"]

Resuming(c) == stage[c] \in {"created", "backoff"}

\* A new attempt: the executor asks the General, whose loop begins anew.
StartAttempt(c) ==
    /\ Resuming(c)
    /\ General \in handlers
    /\ attempt' = [attempt EXCEPT ![c] = @ + 1]
    /\ elapsed' = [elapsed EXCEPT ![c] = 0]
    /\ Ask(c, 1, <<>>, <<>>)
    /\ UNCHANGED <<registry, chosen, spent>>

\* A missing General is waited for, at no attempt's expense.
GeneralMissingUncounted(c) ==
    /\ Resuming(c)
    /\ General \notin handlers
    /\ GiveUp(c, attempt[c])
    /\ UNCHANGED <<registry, chosen, attempt, turn, results, elapsed, spent, asked, works>>

\* The General has no handler: the executor raises.
GeneralMissing(c) ==
    /\ Resuming(c)
    /\ General \notin handlers
    /\ attempt' = [attempt EXCEPT ![c] = @ + 1]
    /\ GiveUp(c, attempt[c] + 1)
    /\ UNCHANGED <<registry, chosen, turn, results, elapsed, spent, asked, works>>

\* The Soldier's failure is taken for the General's.
SoldierRepliesOrFails(c, outcome) ==
    /\ stage[c] = "asking"
    /\ IF outcome = "failed"
       THEN /\ GiveUp(c, attempt[c])
            /\ UNCHANGED <<turn, results, asked, works>>
       ELSE Ask(c, turn[c] + 1, Append(results[c], outcome), asked[c])
    /\ UNCHANGED <<registry, chosen, attempt, elapsed, spent>>

\* Each Soldier has a limit of its own, and there is none around them.
SoldierRepliesInItsTime(c, outcome) ==
    /\ stage[c] = "asking"
    /\ Ask(c, turn[c] + 1, Append(results[c], outcome), asked[c])
    /\ elapsed' = [elapsed EXCEPT ![c] = 0]
    /\ UNCHANGED <<registry, chosen, attempt, spent>>

\* BaseAgent.run of the Soldier answers, also when its work raised.
SoldierReplies(c, outcome) ==
    /\ stage[c] = "asking"
    /\ Ask(c, turn[c] + 1, Append(results[c], outcome), asked[c])
    /\ UNCHANGED <<registry, chosen, attempt, elapsed, spent>>

\* The limit of the request to the General has come: General and Soldier are
\* cancelled, and the worker sees the TimeoutError.
RequestTimesOut(c) ==
    /\ stage[c] = "asking"
    /\ elapsed[c] = Timeout
    /\ GiveUp(c, attempt[c])
    /\ UNCHANGED <<registry, chosen, attempt, turn, results, elapsed, spent, asked, works>>

\* The request of the user is cancelled, and everything under it.
Cancel(c) == /\ stage[c] \in {"created", "asking", "backoff"}
             /\ stage' = [stage EXCEPT ![c] = "cancelled"]
             /\ UNCHANGED <<registry, chosen, attempt, turn, results, elapsed, spent,
                            asked, works>>

Asking == {c \in Subtask : stage[c] = "asking"}

\* Time passes while Soldiers work, up to the nearest deadline.
Advance == /\ Asking # {}
           /\ \A c \in Asking : elapsed[c] < Timeout
           /\ elapsed' = [c \in Subtask |-> IF c \in Asking THEN elapsed[c] + 1
                                                            ELSE elapsed[c]]
           /\ spent' = [c \in Subtask |-> IF c \in Asking THEN spent[c] + 1
                                                          ELSE spent[c]]
           /\ UNCHANGED <<registry, chosen, stage, attempt, turn, results, asked, works>>

Resume(c) == StartAttempt(c) \/ GeneralMissing(c)

Work(c) == \/ Resume(c)
           \/ \E outcome \in {"completed", "failed"} : SoldierReplies(c, outcome)
           \/ RequestTimesOut(c)

Manage == \/ \E a \in Agent : Ensure(a) \/ Retire(a) \/ FallSick(a) \/ SuperviseFails(a)
          \/ Supervise

Next == \/ \E c \in Subtask : Work(c) \/ Cancel(c)
        \/ Manage
        \/ Advance

\* The event loop resumes a worker whose sleep is over, and time passes.  That
\* a Soldier ever answers is not assumed.
Fairness == /\ \A c \in Subtask : WF_vars(Resume(c) \/ RequestTimesOut(c))
            /\ WF_vars(Advance)

Spec == Init /\ [][Next]_vars
FairSpec == Spec /\ Fairness

-----------------------------------------------------------------------------
(* Properties.                                                             *)

\* An agent that is live can be reached on the bus, and one that was retired,
\* or lost in a restart, cannot (ensure, retire and supervise with the hooks
\* of BaseGeneral and BaseSoldier).
ReachableIffLive == handlers = live

\* The answer of a completed subtask has one result for each chosen Soldier, in
\* order, all of one attempt: those reached are the Soldiers asked in this
\* attempt, the others are reported as not running.
AnswerCoversChosen ==
    \A c \in Subtask :
        stage[c] = "completed" =>
            LET reached == InOrder({i \in DOMAIN results[c] :
                                      results[c][i] # "not_running"})
            IN  /\ Len(results[c]) = Len(chosen[c])
                /\ asked[c] = [n \in DOMAIN reached |-> chosen[c][reached[n]]]

\* What retries cost is bounded.  The limits of nested requests do not add up: a
\* subtask takes at most one limit for each attempt, however many Soldiers it
\* asks and however slow they are; and a Soldier works for it no more often than
\* it is chosen, for each attempt.
RetryBudget ==
    \A c \in Subtask :
        /\ spent[c] <= attempt[c] * Timeout
        /\ \A s \in Soldier :
              works[c][s] <= attempt[c] * Cardinality({i \in DOMAIN chosen[c] : chosen[c][i] = s})

\* An attempt fails for two reasons only: the General has no handler, or its
\* Soldiers together take the whole limit.  A Soldier that raises or is not
\* running fails nothing ("one bad soldier never crashes its general").
FailureIsContained ==
    [][\A c \in Subtask :
          (stage'[c] \in {"backoff", "failed"} /\ stage'[c] # stage[c])
          => General \notin handlers \/ elapsed[c] = Timeout]_vars

\* Every subtask ends, also with Soldiers that never answer and a General that
\* comes and goes.
SubtaskEnds ==
    \A c \in Subtask : <>(stage[c] \in {"completed", "failed", "cancelled"})

\* "Pick soldiers whose keywords appear in the objective": a Soldier is asked
\* once for an objective, however many of its keywords appear.
AskedOnce ==
    \A c \in Subtask : \A i, j \in DOMAIN asked[c] :
        asked[c][i] = asked[c][j] => i = j
=============================================================================
