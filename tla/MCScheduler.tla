---------------------------- MODULE MCScheduler ----------------------------
(***************************************************************************)
(* Small instances of Scheduler: two replicas and loops that come and go,  *)
(* or loops that are started at the beginning and never stopped.           *)
(***************************************************************************)
EXTENDS Scheduler, TLC

CONSTANTS date, interval, cron

DateAndInterval == (date :> "date" @@ interval :> "interval")
DateAndIntervalParams == (date :> 1 @@ interval :> 1)

DateAndCron == (date :> "date" @@ cron :> "cron")
DateAndCronParams == (date :> 2 @@ cron :> 2)

OnlyInterval == (interval :> "interval")
OneUnit == (interval :> 1)

Symmetry == Permutations(Replica) \cup Permutations(Loop)

\* The loop is started before the clock moves and never stopped.
SteadyNext == \/ \E p \in Replica, j \in Job : Schedule(p, j) \/ Cancel(p, j)
              \/ \E p \in Replica, l \in Loop : now = 0 /\ Start(p, l)
              \/ \E l \in Loop : LoopTick(l)
              \/ Advance /\ \A p \in Replica : running[p]

SteadySpec == Init /\ [][SteadyNext]_vars
=============================================================================
