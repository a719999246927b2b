----------------------------- MODULE MCServices -----------------------------
(***************************************************************************)
(* The services of the container that do not call one another, side by     *)
(* side: a behaviour exercises one of them, the part, while the others     *)
(* rest.  They share no state, so that what holds of each on its own holds *)
(* of them together.                                                       *)
(***************************************************************************)
EXTENDS MCSoldier, Memory, Workflow, RateLimiter, Session, Planner, Skills

CONSTANTS t1, t2, wordless

VARIABLE part

\* The words of t1 and t2 collide in the first process; in the third each has
\* the vector the other has in the second.  One text has no word.
Directions == LET Of(a, b) == t1 :> a @@ t2 :> b @@ wordless :> 0
              IN <<Of(1, 1), Of(2, 3), Of(3, 2)>>

OneOf(l) == [capacity |-> l[1], rate |-> l[2]]

\* Two tokens, one in two ticks; and the limits configured later.
StandardLimit == OneOf(<<4, 1>>)
OtherLimits == {OneOf(<<2, 3>>), OneOf(<<5, 0>>)}

Named(f, w, small) == [folder |-> f, words |-> w, small |-> small]
Headed(title, about) == [headed |-> TRUE, title |-> title, about |-> about]

\* "Tax" and "tax" lead to one folder, "Movie Night" to another.
ThreeNames == {Named(1, {}, FALSE), Named(1, {}, TRUE), Named(2, {"movie", "night"}, FALSE)}

\* Text without a header, with a broken one, and with one of its own.
ThreeContents == {[headed |-> FALSE], Headed({}, {"movie"}),
                  Headed({Named(1, {}, TRUE)}, {"movie", "night"})}

OneSkill == Header(Named(1, {}, TRUE), Headed({Named(1, {}, TRUE)}, {"night"}))

Parts == {"soldier", "memory", "workflow", "limiter", "session", "planner", "skills"}

vars == <<part, soldierVars, memoryVars, workflowVars, limiterVars, sessionVars, objective,
          skillVars>>

\* The Soldiers begin in many ways, the other parts in one.
Init ==
    /\ part \in Parts
    /\ MemoryInit /\ WorkflowInit /\ LimiterInit /\ SessionInit /\ PlannerInit
    /\ SkillsInit
    /\ SoldierInit
    /\ part # "soldier" =>
         tools = Builtin /\ run = [r \in Caller |-> Request(Job("search", {"x"}))]

Next ==
    \/ /\ part = "soldier" /\ SoldierNext
       /\ UNCHANGED <<memoryVars, workflowVars, limiterVars, sessionVars, objective, skillVars>>
    \/ /\ part = "memory" /\ MemoryNext
       /\ UNCHANGED <<soldierVars, workflowVars, limiterVars, sessionVars, objective, skillVars>>
    \/ /\ part = "workflow" /\ WorkflowNext
       /\ UNCHANGED <<soldierVars, memoryVars, limiterVars, sessionVars, objective, skillVars>>
    \/ /\ part = "limiter" /\ LimiterNext
       /\ UNCHANGED <<soldierVars, memoryVars, workflowVars, sessionVars, objective, skillVars>>
    \/ /\ part = "session" /\ SessionNext
       /\ UNCHANGED <<soldierVars, memoryVars, workflowVars, limiterVars, objective, skillVars>>
    \/ /\ part = "planner" /\ PlannerNext
       /\ UNCHANGED <<soldierVars, memoryVars, workflowVars, limiterVars, sessionVars, skillVars>>
    \/ /\ part = "skills" /\ SkillsNext
       /\ UNCHANGED <<soldierVars, memoryVars, workflowVars, limiterVars, sessionVars, objective>>

Spec == Init /\ [][UNCHANGED part /\ Next]_vars

\* The state of every service is of its type.
TypeOK == /\ SoldierTypeOK /\ MemoryTypeOK /\ WorkflowTypeOK /\ LimiterTypeOK /\ SessionTypeOK
          /\ SkillsTypeOK
          /\ objective \in Seq(Words \cup {"then", "and"})

\* What several worker processes keep in stores they share is sound: the
\* memories (memory.py) and the skills (skill_registry.py).  While another part
\* is exercised nothing moves there, and once is enough.
StoresSound == MemorySound /\ (part = "skills" => SkillsSound)

\* Exchanging t1 and t2 leaves it alone which directions are the same.
Symmetry == UNION {Permutations(S) : S \in {Worker, Place, {t1, t2}}}

=============================================================================
