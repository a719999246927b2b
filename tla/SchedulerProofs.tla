--------------------------- MODULE SchedulerProofs --------------------------
(***************************************************************************)
(* Proofs about Scheduler: for any replicas, jobs, triggers and loops, any *)
(* time the lock is kept and any length of the run.                        *)
(***************************************************************************)
EXTENDS Scheduler, TLAPS

Fire == [replica : Replica, job : Job, due : Nat, at : Time]

\* The lock of a job outlasts each of its fires, and only a fire takes it.
LockInv == /\ \A f \in fired : f.at + Ttl <= lock[f.job]
           /\ \A j \in Job : lock[j] # 0 =>
                 \E f \in fired : f.job = j /\ f.at + Ttl = lock[j]

\* A fire came no earlier than it was due, and is behind what its replica has
\* the job down for next.
DueInv == \A f \in fired :
             /\ f.due <= f.at /\ f.at <= now
             /\ nextRun[f.replica][f.job] # 0 => f.due < nextRun[f.replica][f.job]

\* A one-shot job is down for its date or for nothing.
DateInv == \A p \in Replica, j \in Job :
              Kind[j] = "date" => nextRun[p][j] \in {0, Param[j]}

\* The inductive invariant.
IInv == /\ TypeOK
        /\ LockInv
        /\ DueInv
        /\ DateInv
        /\ SpacedByLock
        /\ OncePerReplica

-----------------------------------------------------------------------------
(* The triggers.                                                           *)

LEMMA InstantAhead ==
    ASSUME NEW t \in Nat, NEW n \in Nat \ {0}
    PROVE  (t \div n + 1) * n \in Nat /\ t < (t \div n + 1) * n
  <1>1. /\ t \div n \in Nat /\ t % n \in 0 .. n - 1 /\ t = n * (t \div n) + (t % n)
    <2>1. t % n \in 0 .. n - 1
      OBVIOUS
    <2>2. t = n * (t \div n) + (t % n)
      OBVIOUS
    <2>3. t \div n \in Nat
      OBVIOUS
    <2> QED  BY <2>1, <2>2, <2>3
  <1>2. (t \div n + 1) * n = n * (t \div n) + n /\ n * (t \div n) \in Nat
    BY <1>1
  <1> QED  BY <1>1, <1>2

\* next_after gives an instant that is still to come, or none.
LEMMA NextAfterFacts ==
    ASSUME NEW j \in Job, NEW t \in Nat
    PROVE  /\ NextAfter(j, t) \in Nat
           /\ NextAfter(j, t) # 0 => t < NextAfter(j, t)
           /\ Kind[j] = "date" => NextAfter(j, t) \in {0, Param[j]}
           /\ Kind[j] = "date" /\ Param[j] <= t => NextAfter(j, t) = 0
  <1>1. Kind[j] \in {"date", "interval", "cron"} /\ Param[j] \in Nat \ {0}
    BY JobsAssumption
  <1>2. CASE Kind[j] = "date"
    BY <1>1, <1>2 DEF NextAfter
  <1>3. CASE Kind[j] = "interval"
    BY <1>1, <1>3 DEF NextAfter
  <1>4. CASE Kind[j] = "cron"
    BY <1>1, <1>4, InstantAhead DEF NextAfter, NextInstant
  <1> QED  BY <1>1, <1>2, <1>3, <1>4

-----------------------------------------------------------------------------
(* Actions that fire nothing.                                              *)

LEMMA InitInv == Init => IInv
  BY TimesAssumption DEF Init, IInv, TypeOK, LockInv, DueInv, DateInv, SpacedByLock,
                         OncePerReplica, SameJob, Time

\* The invariant is kept by whatever leaves locks, fires and flags alone, does not
\* turn back the clock, and puts a job down only for what is still to come.
LEMMA QuietStep ==
    ASSUME IInv, TypeOK', UNCHANGED <<enabled, lock, fired>>, now <= now',
           \A p \in Replica, j \in Job :
              \/ nextRun'[p][j] = nextRun[p][j]
              \/ nextRun'[p][j] = NextAfter(j, now)
    PROVE  IInv'
  <1>1. now \in Nat /\ now' \in Nat /\ fired \subseteq Fire
    BY TimesAssumption DEF IInv, TypeOK, Time, Fire
  <1>2. LockInv' /\ SpacedByLock' /\ OncePerReplica'
    BY DEF IInv, LockInv, SpacedByLock, OncePerReplica, SameJob
  <1>3. DueInv'
    <2> SUFFICES ASSUME NEW f \in fired
                 PROVE  /\ f.due <= f.at /\ f.at <= now'
                        /\ nextRun'[f.replica][f.job] # 0 => f.due < nextRun'[f.replica][f.job]
      BY DEF DueInv
    <2>1. f.replica \in Replica /\ f.job \in Job /\ f.due \in Nat /\ f.at \in Nat
      BY <1>1 DEF Fire, Time
    <2>2. /\ f.due <= f.at /\ f.at <= now
          /\ nextRun[f.replica][f.job] # 0 => f.due < nextRun[f.replica][f.job]
      BY DEF IInv, DueInv
    <2>3. /\ NextAfter(f.job, now) \in Nat
          /\ NextAfter(f.job, now) # 0 => now < NextAfter(f.job, now)
      BY <1>1, <2>1, NextAfterFacts
    <2> QED  BY <1>1, <2>1, <2>2, <2>3
  <1>4. DateInv'
    BY <1>1, NextAfterFacts DEF IInv, DateInv
  <1> QED  BY <1>2, <1>3, <1>4 DEF IInv

-----------------------------------------------------------------------------
(* A tick.                                                                 *)

\* What a tick of replica p records of job j.
FireOf(p, j) == [replica |-> p, job |-> j, due |-> nextRun[p][j], at |-> now]

LEMMA TickFacts ==
    ASSUME IInv, NEW p \in Replica, Tick(p), UNCHANGED now
    PROVE  /\ lock' \in [Job -> Nat] /\ nextRun' \in [Replica -> [Job -> Nat]]
           /\ enabled' \in [Replica -> [Job -> BOOLEAN]]
           /\ fired' = fired \cup {FireOf(p, j) : j \in Fires(p)}
           /\ \A j \in Fires(p) :
                 /\ FireOf(p, j) \in Fire
                 /\ lock[j] <= now /\ lock'[j] = now + Ttl
                 /\ enabled[p][j] /\ nextRun[p][j] \in 1 .. now
                 /\ nextRun'[p][j] = NextAfter(j, now)
                 /\ NextAfter(j, now) = 0 => ~ enabled'[p][j]
           /\ \A j \in Job \ Fires(p) :
                 lock'[j] = lock[j] /\ nextRun'[p][j] = nextRun[p][j]
           /\ \A q \in Replica \ {p}, j \in Job : nextRun'[q][j] = nextRun[q][j]
           /\ \A q \in Replica, j \in Job : enabled'[q][j] => enabled[q][j]
  <1>1. /\ TypeOK /\ now \in Nat /\ now \in Time /\ now + Ttl \in Nat
        /\ lock \in [Job -> Nat] /\ nextRun \in [Replica -> [Job -> Nat]]
        /\ enabled \in [Replica -> [Job -> BOOLEAN]]
        /\ \A j \in Job : NextAfter(j, now) \in Nat
    BY TimesAssumption, NextAfterFacts DEF IInv, TypeOK, Time
  <1>2. /\ lock' = [j \in Job |-> IF j \in Fires(p) THEN now + Ttl ELSE lock[j]]
        /\ fired' = fired \cup {FireOf(p, j) : j \in Fires(p)}
        /\ nextRun' = [nextRun EXCEPT ![p] =
              [j \in Job |-> IF j \in Fires(p) THEN NextAfter(j, now) ELSE nextRun[p][j]]]
        /\ enabled' = [enabled EXCEPT ![p] =
              [j \in Job |-> enabled[p][j] /\ (j \in Fires(p) => NextAfter(j, now) # 0)]]
    BY DEF Tick, FireOf
  <1>3. Fires(p) \subseteq Job
    BY DEF Fires
  <1>4. lock' \in [Job -> Nat] /\ nextRun' \in [Replica -> [Job -> Nat]]
    BY <1>1, <1>2
  <1>5. enabled' \in [Replica -> [Job -> BOOLEAN]]
    BY <1>1, <1>2
  <1>6. \A j \in Fires(p) : /\ FireOf(p, j) \in Fire
                            /\ lock[j] <= now /\ enabled[p][j] /\ nextRun[p][j] \in 1 .. now
    BY <1>1 DEF Fires, Due, LockFree, FireOf, Fire
  <1>7. /\ \A j \in Fires(p) : lock'[j] = now + Ttl /\ nextRun'[p][j] = NextAfter(j, now)
        /\ \A j \in Job \ Fires(p) : lock'[j] = lock[j] /\ nextRun'[p][j] = nextRun[p][j]
        /\ \A q \in Replica \ {p}, j \in Job : nextRun'[q][j] = nextRun[q][j]
    BY <1>1, <1>2, <1>3
  <1>8. /\ \A j \in Job : enabled'[p][j] <=> enabled[p][j] /\ (j \in Fires(p) => NextAfter(j, now) # 0)
        /\ \A q \in Replica \ {p} : enabled'[q] = enabled[q]
    BY <1>1, <1>2
  <1>9. \A q \in Replica, j \in Job : enabled'[q][j] => enabled[q][j]
    BY <1>8
  <1> QED  BY <1>2, <1>3, <1>4, <1>5, <1>6, <1>7, <1>8, <1>9

\* A fire is told from those before it: its lock had run out, and what it was due
\* for its replica had not fired.
LEMMA FireIsNew ==
    ASSUME IInv, NEW p \in Replica, Tick(p), UNCHANGED now,
           NEW j \in Fires(p), NEW f \in fired, f.job = j
    PROVE  /\ f.at + Ttl <= now
           /\ f.replica = p => f.due < nextRun[p][j]
           /\ Kind[j] = "date" => f.replica # p
  <1>1. /\ f.replica \in Replica /\ f.job \in Job /\ f.due \in Nat /\ f.at \in Nat
        /\ now \in Nat /\ Ttl \in Nat /\ lock \in [Job -> Nat]
    BY TimesAssumption DEF IInv, TypeOK, Time
  <1>2. lock[j] <= now /\ enabled[p][j] /\ nextRun[p][j] # 0
    BY <1>1 DEF Fires, Due, LockFree
  <1>3. f.at + Ttl <= now
    BY <1>1, <1>2 DEF IInv, LockInv
  <1>4. f.replica = p => f.due < nextRun[p][j]
    BY <1>2 DEF IInv, DueInv
  <1>5. Kind[j] = "date" => f.replica # p
    BY <1>2 DEF IInv, OncePerReplica
  <1> QED  BY <1>3, <1>4, <1>5

LEMMA TickStep ==
    ASSUME IInv, NEW p \in Replica, Tick(p), TypeOK', UNCHANGED now
    PROVE  IInv'
  <1> DEFINE F == Fires(p)
             New == {FireOf(p, j) : j \in F}
  <1>t. /\ now \in Nat /\ Ttl \in Nat \ {0} /\ F \subseteq Job
        /\ fired \subseteq Fire /\ fired' = fired \cup New /\ New \subseteq Fire
        /\ lock \in [Job -> Nat] /\ lock' \in [Job -> Nat]
    BY TimesAssumption, TickFacts DEF IInv, TypeOK, Time, Fires, Fire
  <1>n. \A f \in New : /\ f.replica = p /\ f.at = now /\ f.job \in F
                       /\ f.due = nextRun[p][f.job]
    BY DEF FireOf
  <1>f. \A f \in fired : /\ f.replica \in Replica /\ f.job \in Job
                         /\ f.due \in Nat /\ f.at \in Nat
    BY <1>t DEF Fire, Time
  <1> HIDE DEF F, New
  <1>1. LockInv'
    <2>1. ASSUME NEW f \in fired' PROVE f.at + Ttl <= lock'[f.job]
      <3>1. CASE f \in New
        BY <3>1, <1>n, <1>t, TickFacts DEF F
      <3>2. CASE f \in fired
        <4>1. f.at + Ttl <= lock[f.job]
          BY <3>2 DEF IInv, LockInv
        <4>2. CASE f.job \in F
          BY <1>f, <1>t, <3>2, <4>2, FireIsNew, TickFacts DEF F
        <4>3. CASE f.job \notin F
          BY <1>f, <3>2, <4>1, <4>3, TickFacts DEF F
        <4> QED  BY <4>2, <4>3
      <3> QED  BY <1>t, <2>1, <3>1, <3>2
    <2>2. ASSUME NEW j \in Job, lock'[j] # 0
          PROVE  \E f \in fired' : f.job = j /\ f.at + Ttl = lock'[j]
      <3>1. CASE j \in F
        <4>1. FireOf(p, j) \in fired' /\ lock'[j] = now + Ttl
          BY <3>1, <1>t, TickFacts DEF F, New
        <4> QED  BY <4>1 DEF FireOf
      <3>2. CASE j \notin F
        <4>1. lock'[j] = lock[j]
          BY <3>2, TickFacts DEF F
        <4>2. PICK f \in fired : f.job = j /\ f.at + Ttl = lock[j]
          BY <2>2, <4>1 DEF IInv, LockInv
        <4> QED  BY <1>t, <4>1, <4>2
      <3> QED  BY <3>1, <3>2
    <2> QED  BY <2>1, <2>2 DEF LockInv
  <1>2. DueInv'
    <2> SUFFICES ASSUME NEW f \in fired'
                 PROVE  /\ f.due <= f.at /\ f.at <= now'
                        /\ nextRun'[f.replica][f.job] # 0 => f.due < nextRun'[f.replica][f.job]
      BY DEF DueInv
    <2>1. \A j \in F : /\ nextRun'[p][j] \in Nat
                       /\ nextRun'[p][j] # 0 => now < nextRun'[p][j]
                       /\ nextRun[p][j] \in Nat /\ nextRun[p][j] <= now
      BY <1>t, TickFacts, NextAfterFacts DEF F
    <2>2. CASE f \in New
      <3>1. /\ f.replica = p /\ f.at = now /\ f.job \in F /\ f.due = nextRun[p][f.job]
            /\ now' = now
        BY <1>n, <2>2
      <3> QED  BY <1>t, <2>1, <3>1
    <2>3. CASE f \in fired
      <3>1. /\ f.due <= f.at /\ f.at <= now
            /\ nextRun[f.replica][f.job] # 0 => f.due < nextRun[f.replica][f.job]
        BY <2>3 DEF IInv, DueInv
      <3>2. CASE f.replica = p /\ f.job \in F
        <4>1. /\ f.due \in Nat /\ f.at \in Nat /\ nextRun'[p][f.job] \in Nat
              /\ nextRun'[p][f.job] # 0 => now < nextRun'[p][f.job]
          BY <1>f, <2>1, <2>3, <3>2
        <4> QED  BY <1>t, <3>1, <3>2, <4>1
      <3>3. CASE ~ (f.replica = p /\ f.job \in F)
        <4>1. nextRun'[f.replica][f.job] = nextRun[f.replica][f.job]
          BY <1>f, <2>3, <3>3, TickFacts DEF F
        <4> QED  BY <3>1, <4>1
      <3> QED  BY <3>2, <3>3
    <2> QED  BY <1>t, <2>2, <2>3
  <1>3. DateInv'
    <2> SUFFICES ASSUME NEW q \in Replica, NEW j \in Job, Kind[j] = "date"
                 PROVE  nextRun'[q][j] \in {0, Param[j]}
      BY DEF DateInv
    <2>1. nextRun'[q][j] = nextRun[q][j] \/ nextRun'[q][j] = NextAfter(j, now)
      BY TickFacts
    <2> QED  BY <1>t, <2>1, NextAfterFacts DEF IInv, DateInv
  <1>4. SpacedByLock'
    <2> SUFFICES ASSUME NEW f \in fired', NEW g \in fired', f # g, f.job = g.job
                 PROVE  f.at + Ttl <= g.at \/ g.at + Ttl <= f.at
      BY DEF SpacedByLock, SameJob
    <2>1. CASE f \in fired /\ g \in fired
      BY <2>1 DEF IInv, SpacedByLock, SameJob
    <2>2. CASE f \in fired /\ g \in New
      BY <1>n, <2>2, FireIsNew DEF F
    <2>3. CASE f \in New /\ g \in fired
      BY <1>n, <2>3, FireIsNew DEF F
    <2>4. CASE f \in New /\ g \in New
      <3>1. f = FireOf(p, f.job) /\ g = FireOf(p, g.job)
        BY <2>4 DEF New, FireOf
      <3> QED  BY <3>1
    <2> QED  BY <1>t, <2>1, <2>2, <2>3, <2>4
  <1>5. OncePerReplica'
    <2>1. ASSUME NEW f \in fired', NEW g \in fired', f # g, f.job = g.job,
                 f.replica = g.replica
          PROVE  f.due # g.due /\ Kind[f.job] # "date"
      <3>1. CASE f \in fired /\ g \in fired
        BY <2>1, <3>1 DEF IInv, OncePerReplica, SameJob
      <3>2. ASSUME NEW x \in fired, NEW y \in New, x.job = y.job, x.replica = y.replica
            PROVE  x.due # y.due /\ Kind[x.job] # "date"
        <4>1. /\ y.replica = p /\ y.job \in F /\ y.due = nextRun[p][y.job]
          BY <1>n
        <4>2. x.due < nextRun[p][y.job] /\ Kind[y.job] # "date"
          BY <3>2, <4>1, FireIsNew DEF F
        <4>3. x.due \in Nat /\ nextRun[p][y.job] \in Nat
          BY <1>f, <1>t, <4>1 DEF IInv, TypeOK
        <4> QED  BY <3>2, <4>1, <4>2, <4>3
      <3>3. CASE f \in New /\ g \in New
        <4>1. f = FireOf(p, f.job) /\ g = FireOf(p, g.job)
          BY <3>3 DEF New, FireOf
        <4> QED  BY <2>1, <4>1
      <3>4. CASE f \in fired /\ g \in New
        BY <2>1, <3>2, <3>4
      <3>5. CASE g \in fired /\ f \in New
        BY <2>1, <3>2, <3>5
      <3> QED  BY <1>t, <3>1, <3>3, <3>4, <3>5
    <2>2. ASSUME NEW f \in fired', Kind[f.job] = "date"
          PROVE  ~ enabled'[f.replica][f.job]
      <3>1. CASE f \in fired
        <4>1. ~ enabled[f.replica][f.job]
          BY <2>2, <3>1 DEF IInv, OncePerReplica
        <4> QED  BY <1>f, <3>1, <4>1, TickFacts
      <3>2. CASE f \in New
        <4>1. f.job \in F /\ f.job \in Job /\ f.replica = p
          BY <1>n, <1>t, <3>2
        <4>2. nextRun[p][f.job] = Param[f.job] /\ nextRun[p][f.job] <= now
          <5>1. nextRun[p][f.job] \in 1 .. now
            BY <4>1, TickFacts DEF F
          <5>2. nextRun[p][f.job] \in {0, Param[f.job]}
            BY <2>2, <4>1 DEF IInv, DateInv
          <5> QED  BY <1>t, <5>1, <5>2
        <4>3. NextAfter(f.job, now) = 0
          BY <1>t, <2>2, <4>1, <4>2, NextAfterFacts
        <4> QED  BY <4>1, <4>3, TickFacts DEF F
      <3> QED  BY <1>t, <3>1, <3>2
    <2>3. ASSUME NEW f \in fired', Kind[f.job] = "date", NEW g \in fired', SameJob(f, g)
          PROVE  g.replica # f.replica
      BY <2>1, <2>3 DEF SameJob
    <2> QED  BY <2>1, <2>2, <2>3 DEF OncePerReplica, SameJob
  <1> QED  BY <1>1, <1>2, <1>3, <1>4, <1>5 DEF IInv

-----------------------------------------------------------------------------
(* The invariant.                                                          *)

LEMMA TypeStep == IInv /\ [Next]_vars => TypeOK'
  <1> SUFFICES ASSUME IInv, [Next]_vars PROVE TypeOK'
    OBVIOUS
  <1>t. /\ TypeOK /\ now \in Nat /\ MaxTime \in Nat
        /\ \A j \in Job : NextAfter(j, now) \in Nat
    BY TimesAssumption, NextAfterFacts DEF IInv, TypeOK, Time
  <1>1. ASSUME NEW p \in Replica, NEW j \in Job, Schedule(p, j) PROVE TypeOK'
    BY <1>1, <1>t DEF Schedule, TypeOK
  <1>2. ASSUME NEW p \in Replica, NEW j \in Job, Cancel(p, j) PROVE TypeOK'
    BY <1>2, <1>t DEF Cancel, TypeOK
  <1>3. ASSUME NEW p \in Replica, NEW l \in Loop, Start(p, l) PROVE TypeOK'
    BY <1>3, <1>t DEF Start, TypeOK
  <1>4. ASSUME NEW p \in Replica, Stop(p) PROVE TypeOK'
    BY <1>4, <1>t DEF Stop, TypeOK
  <1>5. ASSUME NEW l \in Loop, LoopTick(l) PROVE TypeOK'
    <2>1. loopOf[l] \in Replica
      BY <1>5, <1>t DEF LoopTick, Awake, TypeOK
    <2>2. /\ lock' \in [Job -> Nat] /\ nextRun' \in [Replica -> [Job -> Nat]]
          /\ enabled' \in [Replica -> [Job -> BOOLEAN]]
          /\ fired' \subseteq Fire
      BY <1>5, <1>t, <2>1, TickFacts DEF LoopTick, TypeOK, Fire
    <2>3. wake' \in [Loop -> Nat] /\ UNCHANGED <<now, jobs, running, task, loopOf>>
      BY <1>5, <1>t DEF LoopTick, TypeOK
    <2> QED  BY <1>t, <2>2, <2>3 DEF TypeOK, Fire, Time
  <1>6. ASSUME NEW l \in Loop, LoopEnds(l) PROVE TypeOK'
    BY <1>6, <1>t DEF LoopEnds, TypeOK
  <1>7. CASE Advance
    <2>1. now' \in Time
      BY <1>7, <1>t DEF Advance, Time
    <2> QED  BY <1>7, <1>t, <2>1 DEF Advance, TypeOK, Time
  <1>8. CASE UNCHANGED vars
    BY <1>8, <1>t DEF vars, TypeOK, Time
  <1> QED  BY <1>1, <1>2, <1>3, <1>4, <1>5, <1>6, <1>7, <1>8 DEF Next

LEMMA InvStep == IInv /\ [Next]_vars => IInv'
  <1> SUFFICES ASSUME IInv, [Next]_vars PROVE IInv'
    OBVIOUS
  <1>t. TypeOK' /\ TypeOK /\ now \in Nat
    BY TypeStep DEF IInv, TypeOK, Time
  <1>1. ASSUME NEW p \in Replica, NEW j \in Job, Schedule(p, j) PROVE IInv'
    <2>1. \A q \in Replica, i \in Job : \/ nextRun'[q][i] = nextRun[q][i]
                                        \/ nextRun'[q][i] = NextAfter(i, now)
      BY <1>1, <1>t DEF Schedule, TypeOK
    <2> QED  BY <1>1, <1>t, <2>1, QuietStep DEF Schedule
  <1>2. ASSUME NEW l \in Loop, LoopTick(l) PROVE IInv'
    <2>1. loopOf[l] \in Replica
      BY <1>2, <1>t DEF LoopTick, Awake, TypeOK
    <2> QED  BY <1>2, <1>t, <2>1, TickStep DEF LoopTick
  <1>3. ASSUME UNCHANGED <<nextRun, enabled, lock, fired>>, now <= now' PROVE IInv'
    BY <1>3, <1>t, QuietStep
  <1>4. ASSUME NEW p \in Replica, NEW j \in Job, Cancel(p, j) PROVE IInv'
    BY <1>3, <1>4, <1>t DEF Cancel
  <1>5. ASSUME NEW p \in Replica, NEW l \in Loop, Start(p, l) PROVE IInv'
    BY <1>3, <1>5, <1>t DEF Start
  <1>6. ASSUME NEW p \in Replica, Stop(p) PROVE IInv'
    BY <1>3, <1>6, <1>t DEF Stop
  <1>7. ASSUME NEW l \in Loop, LoopEnds(l) PROVE IInv'
    BY <1>3, <1>7, <1>t DEF LoopEnds
  <1>8. CASE Advance
    BY <1>3, <1>8, <1>t DEF Advance
  <1>9. CASE UNCHANGED vars
    BY <1>3, <1>9, <1>t DEF vars
  <1> QED  BY <1>1, <1>2, <1>4, <1>5, <1>6, <1>7, <1>8, <1>9 DEF Next

\* The state of the schedulers and of their lock is well formed.
THEOREM TypeCorrect == Spec => []TypeOK
  BY InitInv, InvStep, PTL DEF Spec, IInv

\* However many replicas and loops, whatever the triggers: two fires of a job are
\* never closer than the time the lock is kept (tick and InMemoryLock.acquire).
THEOREM SpacedByLockHolds == Spec => []SpacedByLock
  BY InitInv, InvStep, PTL DEF Spec, IInv

\* However many loops a replica has come to run, and however often a job is
\* cancelled and scheduled anew, the replica fires an occurrence at most once and
\* a one-shot job once only (tick and Trigger.next_after).
THEOREM OncePerReplicaHolds == Spec => []OncePerReplica
  BY InitInv, InvStep, PTL DEF Spec, IInv

\* A tick passes over a due job only because that job was fired, somewhere, less
\* than the time the lock is kept ago: the lock nobody releases starves no job.
THEOREM PassedOverOnlyIfFiredHolds == Spec => PassedOverOnlyIfFired
  <1> DEFINE A == \A l \in Loop : LoopTick(l) =>
                     \A j \in jobs[loopOf[l]] :
                        Due(loopOf[l], j)' =>
                           \E f \in fired : f.job = j /\ now < f.at + Ttl
  <1>1. IInv => A
    <2> SUFFICES ASSUME IInv, NEW l \in Loop, LoopTick(l), NEW j \in jobs[loopOf[l]],
                        Due(loopOf[l], j)'
                 PROVE  \E f \in fired : f.job = j /\ now < f.at + Ttl
      OBVIOUS
    <2> DEFINE p == loopOf[l]
    <2>1. /\ p \in Replica /\ j \in Job /\ now \in Nat /\ now' = now /\ Tick(p)
          /\ lock[j] \in Nat /\ p' = p
      BY DEF IInv, TypeOK, Time, LoopTick, Awake
    <2> HIDE DEF p
    <2>2. enabled'[p][j] /\ nextRun'[p][j] # 0 /\ nextRun'[p][j] <= now
      BY <2>1 DEF Due, p
    <2>3. j \notin Fires(p)
      <3> SUFFICES ASSUME j \in Fires(p) PROVE FALSE
        OBVIOUS
      <3>1. nextRun'[p][j] = NextAfter(j, now)
        BY <2>1, TickFacts
      <3> QED  BY <2>1, <2>2, <3>1, NextAfterFacts
    <2>4. enabled[p][j] /\ nextRun[p][j] # 0 /\ nextRun[p][j] <= now
      BY <2>1, <2>2, <2>3, TickFacts
    <2>5. ~ (lock[j] <= now)
      BY <2>1, <2>3, <2>4 DEF Fires, Due, LockFree, p
    <2>6. lock[j] # 0
      BY <2>1, <2>5
    <2>7. PICK f \in fired : f.job = j /\ f.at + Ttl = lock[j]
      BY <2>1, <2>6 DEF IInv, LockInv
    <2> QED  BY <2>1, <2>5, <2>7
  <1>2. IInv /\ [Next]_vars => [A]_vars
    BY <1>1
  <1> QED  BY <1>2, InitInv, InvStep, PTL DEF Spec, PassedOverOnlyIfFired
=============================================================================
