------------------------------ MODULE Scheduler ------------------------------
(***************************************************************************)
(* Schedulers (backend/core/scheduler/scheduler.py) of one or several      *)
(* replicas that hold the same jobs and share one InMemoryLock, the        *)
(* stand-in for a lock in Redis.                                           *)
(*                                                                         *)
(* Time is counted in units of the run loop's sleep.  tick suspends        *)
(* nowhere (neither the lock nor publish does), so a tick over all jobs is *)
(* one step.  A loop wakes in the unit its sleep ends in.                  *)
(***************************************************************************)
EXTENDS Integers, FiniteSets

CONSTANTS Replica, Job, Loop,
          Kind,     \* the trigger of a job: "date", "interval" or "cron"
          Param,    \* its date, its period, or the spacing of its instants
          Horizon,  \* how far ahead a cron expression is searched (a year)
          Ttl,      \* how long acquire keeps the lock
          MaxTime,  \* bound on the clock
          None      \* no loop

ASSUME TimesAssumption == Ttl \in Nat \ {0} /\ MaxTime \in Nat
ASSUME JobsAssumption == /\ Kind \in [Job -> {"date", "interval", "cron"}]
                         /\ Param \in [Job -> Nat \ {0}]
                         /\ Horizon \in Nat
ASSUME NoneAssumption == None \notin Loop

VARIABLES now,      \* the clock
          jobs,     \* jobs[p]: the jobs in _jobs of replica p
          nextRun,  \* ScheduledJob.next_run, 0 for None
          enabled,  \* ScheduledJob.enabled
          lock,     \* _held: when the lock of a job expires
          running,  \* _running
          task,     \* _task: the loop started last
          wake,     \* when a loop's sleep ends, 0 if it is not alive
          loopOf,   \* the replica a loop belongs to, if it is alive
          fired     \* history: who fired which occurrence of a job, and when

vars == <<now, jobs, nextRun, enabled, lock, running, task, wake, loopOf, fired>>

Time == 0 .. MaxTime
NoReplica == "none"

TypeOK ==
    /\ now \in Time
    /\ jobs \in [Replica -> SUBSET Job]
    /\ nextRun \in [Replica -> [Job -> Nat]]
    /\ enabled \in [Replica -> [Job -> BOOLEAN]]
    /\ lock \in [Job -> Nat]
    /\ running \in [Replica -> BOOLEAN]
    /\ task \in [Replica -> Loop \cup {None}]
    /\ wake \in [Loop -> Nat]
    /\ loopOf \in [Loop -> Replica \cup {NoReplica}]
    /\ fired \subseteq [replica : Replica, job : Job, due : Nat, at : Time]

Init == /\ now = 0
        /\ jobs = [p \in Replica |-> {}]
        /\ nextRun = [p \in Replica |-> [j \in Job |-> 0]]
        /\ enabled = [p \in Replica |-> [j \in Job |-> TRUE]]
        /\ lock = [j \in Job |-> 0]
        /\ running = [p \in Replica |-> FALSE]
        /\ task = [p \in Replica |-> None]
        /\ wake = [l \in Loop |-> 0]
        /\ loopOf = [l \in Loop |-> NoReplica]
        /\ fired = {}

\* The next of the regularly spaced instants a cron expression stands for.
NextInstant(j, t) == (t \div Param[j] + 1) * Param[j]

\* A date taken for a delay.
NextAfterRelative(j, t) ==
    CASE Kind[j] = "date" -> Param[j] - t
      [] Kind[j] = "interval" -> t + Param[j]
      [] Kind[j] = "cron" -> IF NextInstant(j, t) <= t + Horizon THEN NextInstant(j, t) ELSE 0

\* Trigger.next_after: the date if it is still to come; now plus the period (an
\* interval's private _anchor is never set); or the next instant of the cron
\* expression, if it is not too far away to be found.
NextAfter(j, t) ==
    CASE Kind[j] = "date" -> IF Param[j] > t THEN Param[j] ELSE 0
      [] Kind[j] = "interval" -> t + Param[j]
      [] Kind[j] = "cron" -> IF NextInstant(j, t) <= t + Horizon THEN NextInstant(j, t) ELSE 0

-----------------------------------------------------------------------------
(* schedule, cancel, start, stop.                                          *)

\* The same ScheduledJob may be scheduled again; enabled is left as it is.
Schedule(p, j) ==
    /\ jobs' = [jobs EXCEPT ![p] = @ \cup {j}]
    /\ nextRun' = [nextRun EXCEPT ![p][j] = NextAfter(j, now)]
    /\ UNCHANGED <<now, enabled, lock, running, task, wake, loopOf, fired>>

Cancel(p, j) ==
    /\ j \in jobs[p]
    /\ jobs' = [jobs EXCEPT ![p] = @ \ {j}]
    /\ UNCHANGED <<now, nextRun, enabled, lock, running, task, wake, loopOf,
                   fired>>

\* A loop that is still there is not asked after.
Start(p, l) ==
    /\ loopOf[l] = NoReplica
    /\ running' = [running EXCEPT ![p] = TRUE]
    /\ task' = [task EXCEPT ![p] = l]
    /\ loopOf' = [loopOf EXCEPT ![l] = p]
    /\ wake' = [wake EXCEPT ![l] = now]
    /\ UNCHANGED <<now, jobs, nextRun, enabled, lock, fired>>

\* Only the loop started last is cancelled; the flag ends the others if it is
\* still down when they wake.
Stop(p) ==
    /\ running[p]
    /\ running' = [running EXCEPT ![p] = FALSE]
    /\ loopOf' = [l \in Loop |-> IF l = task[p] THEN NoReplica ELSE loopOf[l]]
    /\ wake' = [l \in Loop |-> IF l = task[p] THEN 0 ELSE wake[l]]
    /\ UNCHANGED <<now, jobs, nextRun, enabled, lock, task, fired>>

-----------------------------------------------------------------------------
(* tick and the run loop.                                                  *)

Due(p, j) == /\ j \in jobs[p]
             /\ enabled[p][j]
             /\ nextRun[p][j] # 0
             /\ nextRun[p][j] <= now

\* The answer of the lock is not looked at.
LockIgnored(j) == TRUE

\* The time to live is not looked at.
LockForever(j) == lock[j] = 0

\* InMemoryLock.acquire succeeds; nothing ever releases the lock.
LockFree(j) == lock[j] <= now

Fires(p) == {j \in Job : Due(p, j) /\ LockFree(j)}

\* next_run is left where it was.
TickWithoutAdvance(p) ==
    LET F == Fires(p)
    IN  /\ lock' = [j \in Job |-> IF j \in F THEN now + Ttl ELSE lock[j]]
        /\ fired' = fired \cup
              {[replica |-> p, job |-> j, due |-> nextRun[p][j], at |-> now] : j \in F}
        /\ UNCHANGED <<nextRun, enabled>>

\* A due job that cannot have the lock is skipped with its next_run as it is.
Tick(p) ==
    LET F == Fires(p)
    IN  /\ lock' = [j \in Job |-> IF j \in F THEN now + Ttl ELSE lock[j]]
        /\ fired' = fired \cup
              {[replica |-> p, job |-> j, due |-> nextRun[p][j], at |-> now] : j \in F}
        /\ nextRun' = [nextRun EXCEPT ![p] =
              [j \in Job |-> IF j \in F THEN NextAfter(j, now) ELSE @[j]]]
        /\ enabled' = [enabled EXCEPT ![p] =
              [j \in Job |-> @[j] /\ (j \in F => NextAfter(j, now) # 0)]]

Awake(l) == loopOf[l] # NoReplica /\ wake[l] <= now

LoopTick(l) ==
    /\ Awake(l)
    /\ running[loopOf[l]]
    /\ Tick(loopOf[l])
    /\ wake' = [wake EXCEPT ![l] = now + 1]
    /\ UNCHANGED <<now, jobs, running, task, loopOf>>

LoopEnds(l) ==
    /\ Awake(l)
    /\ ~ running[loopOf[l]]
    /\ loopOf' = [loopOf EXCEPT ![l] = NoReplica]
    /\ wake' = [wake EXCEPT ![l] = 0]
    /\ UNCHANGED <<now, jobs, nextRun, enabled, lock, running, task, fired>>

\* Time passes once every loop that is due has run.
Advance == /\ now < MaxTime
           /\ \A l \in Loop : ~ Awake(l)
           /\ now' = now + 1
           /\ UNCHANGED <<jobs, nextRun, enabled, lock, running, task, wake,
                          loopOf, fired>>

Next == \/ \E p \in Replica, j \in Job : Schedule(p, j) \/ Cancel(p, j)
        \/ \E p \in Replica, l \in Loop : Start(p, l)
        \/ \E p \in Replica : Stop(p)
        \/ \E l \in Loop : LoopTick(l) \/ LoopEnds(l)
        \/ Advance

Spec == Init /\ [][Next]_vars

-----------------------------------------------------------------------------
(* Properties.                                                             *)

SameJob(f, g) == f # g /\ f.job = g.job

\* Whatever the replicas and their loops do, a job is not fired twice within
\* the time the lock is kept (tick and InMemoryLock.acquire).
SpacedByLock ==
    \A f, g \in fired : SameJob(f, g) => f.at + Ttl <= g.at \/ g.at + Ttl <= f.at

\* On one replica an occurrence of a job is fired at most once, also with
\* several loops (start called twice, or again before the old loop woke) and
\* when the job is cancelled and scheduled anew; a one-shot job is disabled by
\* its fire and never fired again by the same replica.
OncePerReplica ==
    /\ \A f, g \in fired : SameJob(f, g) /\ f.replica = g.replica => f.due # g.due
    /\ \A f \in fired :
          Kind[f.job] = "date" =>
              /\ ~ enabled[f.replica][f.job]
              /\ \A g \in fired : SameJob(f, g) => g.replica # f.replica

\* A tick passes over a due job only if some replica has fired that job within
\* the time the lock is kept: no job is starved by a lock nobody releases.
PassedOverOnlyIfFired ==
    [][\A l \in Loop : LoopTick(l) =>
          \A j \in jobs[loopOf[l]] :
              Due(loopOf[l], j)' =>
                  \E f \in fired : f.job = j /\ now < f.at + Ttl]_vars

\* "A pluggable lock guarantees single-fire across replicas": an occurrence
\* is fired by one replica only.
SingleFire == \A f, g \in fired : SameJob(f, g) => f.due # g.due

\* "Fire all due jobs once": no job is due right after a tick.
TickFiresAllDue ==
    [][\A l \in Loop : LoopTick(l) =>
          \A j \in jobs[loopOf[l]] : ~ Due(loopOf[l], j)']_vars
=============================================================================
