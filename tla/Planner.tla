------------------------------ MODULE Planner -------------------------------
(***************************************************************************)
(* The keyword planner (backend/king/planner.py): an objective becomes a   *)
(* list of steps, each for a General and after others.                     *)
(*                                                                         *)
(* An objective is a sequence of its words, among them "then" and "and",   *)
(* which stands for the comma and the semicolon as well.  A keyword is a   *)
(* word here; in the code it may also be a part of one.                    *)
(***************************************************************************)
EXTENDS SequencesExt, Integers

CONSTANTS Words,     \* other words
          Routes,    \* keywords and Generals, in the order of the table
          MaxWords   \* bound: the length of an objective

DefaultGeneral == "knowledge"

\* The n-th smallest of a finite set of numbers.
Nth(D, n) == CHOOSE p \in D : Cardinality({q \in D : q <= p}) = n

\* A Python dict of these entries: a key that comes twice keeps its first place
\* and its last value.
AsDict(entries) ==
    LET New(n) == \A m \in 1 .. n - 1 : entries[m].keyword # entries[n].keyword
        Final(n) == CHOOSE m \in DOMAIN entries :
                      /\ entries[m].keyword = entries[n].keyword
                      /\ \A l \in m + 1 .. Len(entries) : entries[l].keyword # entries[n].keyword
        places == {n \in DOMAIN entries : New(n)}
    IN [p \in 1 .. Cardinality(places) |-> entries[Final(Nth(places, p))]]

\* _default_planner: one keyword of Knowledge and one of Coding for those that
\* come once, and the one that comes twice.
KingRoutes ==
    AsDict(<<[keyword |-> "search", general |-> "knowledge"],
             [keyword |-> "code",   general |-> "coding"],
             [keyword |-> "speech", general |-> "media"],
             [keyword |-> "speech", general |-> "voice"]>>)

VARIABLE objective

PlannerInit == objective = <<>>

\* The user goes on.
Say(w) == /\ Len(objective) < MaxWords
          /\ objective' = Append(objective, w)

PlannerNext == \E w \in Words \cup {"then", "and"} : Say(w)

-----------------------------------------------------------------------------
\* The parts of s between the separators, the empty ones included.
Split(s, separator) ==
    LET ends == {p \in DOMAIN s : s[p] = separator} \cup {0, Len(s) + 1}
    IN [n \in 1 .. Cardinality(ends) - 1 |->
            SubSeq(s, Nth(ends, n) + 1, Nth(ends, n + 1) - 1)]

\* _route: the first keyword of the table that occurs, not the first that is said.
Route(clause) ==
    LET hits == {n \in DOMAIN Routes : Contains(clause, Routes[n].keyword)}
    IN IF hits = {} THEN DefaultGeneral
       ELSE Routes[CHOOSE n \in hits : \A m \in hits : n <= m].general

PlanStep(clause, after) ==
    [general |-> Route(clause), objective |-> clause, depends_on |-> after]

\* The clauses of a group; a group of separators is one clause of its own.
Clauses(group) == LET parts == Split(group, "and")
                      said == {n \in DOMAIN parts : parts[n] # <<>>}
                  IN IF said = {} THEN <<group>>
                     ELSE [n \in 1 .. Cardinality(said) |-> parts[Nth(said, n)]]

\* An empty group, too, is what the next one waits for.
AddEveryGroup(plan, group) ==
    LET new == IF group = <<>> THEN <<>> ELSE Clauses(group)
        start == Len(plan.steps)
    IN [steps |-> plan.steps \o [n \in DOMAIN new |-> PlanStep(new[n], plan.previous)],
        previous |-> start + 1 .. start + Len(new)]

\* One group: its steps wait for those of the group before it.
AddGroup(plan, group) ==
    IF group = <<>> THEN plan
    ELSE LET new == Clauses(group)
             start == Len(plan.steps)
         IN [steps |-> plan.steps \o
                 [n \in DOMAIN new |-> PlanStep(new[n], plan.previous)],
             previous |-> start + 1 .. start + Len(new)]

\* The plan once the first n groups are added.
PlanOf(groups) ==
    LET plan[n \in 0 .. Len(groups)] ==
            IF n = 0 THEN [steps |-> <<>>, previous |-> {}]
            ELSE AddGroup(plan[n - 1], groups[n])
    IN plan

\* plan
Plan(o) ==
    LET groups == Split(o, "then")
        steps == PlanOf(groups)[Len(groups)].steps
    IN IF steps # <<>> THEN steps
       ELSE <<[general |-> DefaultGeneral, objective |-> o, depends_on |-> {}]>>

-----------------------------------------------------------------------------
\* Where the clauses of an objective begin: at a word that no other word
\* precedes, or, in a group without one, at its first separator.
Layer(o, p) == Cardinality({q \in 1 .. p - 1 : o[q] = "then"})

Beginnings(o) ==
    LET plain(p) == o[p] \notin {"then", "and"}
        first(p) == p = 1 \/ o[p - 1] = "then"
    IN {p \in DOMAIN o :
          \/ plain(p) /\ (p = 1 \/ ~ plain(p - 1))
          \/ /\ o[p] = "and" /\ first(p)
             /\ \A q \in DOMAIN o : Layer(o, q) = Layer(o, p) => ~ plain(q)}

\* The plan of o has a step for each of these beginnings, in the order said, after
\* exactly the steps of the nearest earlier group that has any.
Layered(o) ==
    LET plan == Plan(o)
        B == Beginnings(o)
        Index(p) == Cardinality({q \in B : q <= p})
        Earlier(p) == {q \in B : Layer(o, q) < Layer(o, p)}
        Nearest(p) == {q \in Earlier(p) :
                          \A r \in Earlier(p) : Layer(o, r) <= Layer(o, q)}
    IN /\ Len(plan) = IF B = {} THEN 1 ELSE Cardinality(B)
       /\ \A p \in B : /\ plan[Index(p)].depends_on = {Index(q) : q \in Nearest(p)}
                       /\ Head(plan[Index(p)].objective) = o[p]
       /\ \A n \in DOMAIN plan : plan[n].depends_on \subseteq 1 .. n - 1

\* The plan is the one the objective describes: a step for each clause in the
\* order said, after exactly the steps of the nearest earlier group that has
\* any, and so a graph without cycles, the one TaskManager is given to run.
PlanLayered == Layered(objective)

=============================================================================
