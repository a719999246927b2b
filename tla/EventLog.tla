------------------------------ MODULE EventLog ------------------------------
(***************************************************************************)
(* What the bus promises a subscriber: a topic is a log, a subscription    *)
(* sees the log from the point where it joined, one event after the other, *)
(* none skipped, repeated or swapped, until it leaves.                     *)
(***************************************************************************)
EXTENDS Naturals, Sequences

CONSTANTS Topic, Subscription, Event, NoTopic

VARIABLES log,      \* log[t]: the events published on topic t, in order
          topicOf,  \* topicOf[s]: the topic s joined
          start,    \* start[s]: how long that log was when s joined
          seen,     \* seen[s]: the events s is done with, in order
          left      \* left[s]: s has left

vars == <<log, topicOf, start, seen, left>>

Init == /\ log = [t \in Topic |-> <<>>]
        /\ topicOf = [s \in Subscription |-> NoTopic]
        /\ start = [s \in Subscription |-> 0]
        /\ seen = [s \in Subscription |-> <<>>]
        /\ left = [s \in Subscription |-> FALSE]

Record == /\ \E t \in Topic, e \in Event : log' = [log EXCEPT ![t] = Append(@, e)]
          /\ UNCHANGED <<topicOf, start, seen, left>>

Join(s) == /\ topicOf[s] = NoTopic
           /\ \E t \in Topic : /\ topicOf' = [topicOf EXCEPT ![s] = t]
                               /\ start' = [start EXCEPT ![s] = Len(log[t])]
           /\ UNCHANGED <<log, seen, left>>

NextOf(s) == start[s] + Len(seen[s]) + 1

See(s) == /\ topicOf[s] # NoTopic
          /\ ~ left[s]
          /\ NextOf(s) <= Len(log[topicOf[s]])
          /\ seen' = [seen EXCEPT ![s] = Append(@, log[topicOf[s]][NextOf(s)])]
          /\ UNCHANGED <<log, topicOf, start, left>>

\* One or several subscriptions leave together (shutdown).
Leave == /\ \E L \in SUBSET Subscription :
               left' = [s \in Subscription |-> left[s] \/ s \in L]
         /\ UNCHANGED <<log, topicOf, start, seen>>

Next == \/ Record
        \/ \E s \in Subscription : Join(s) \/ See(s)
        \/ Leave

Spec == Init /\ [][Next]_vars
=============================================================================
