--------------------------- MODULE ServicesProofs ---------------------------
(***************************************************************************)
(* Proofs about four services of the container that rest on no other:      *)
(* Workflow, for any set of passes, any number of steps and any bound on   *)
(* repetitions; RateLimiter, for any clients, any limits and any number of *)
(* parts of a token; Session, for any emails, passwords, scopes and        *)
(* lifetimes; and Planner, for any objective and any table of keywords.    *)
(* With those of SoldierProofs and StoresProofs they give what holds of    *)
(* all the services side by side, in MCServices.                           *)
(***************************************************************************)
EXTENDS MCServices, SoldierProofs, StoresProofs, TLAPS

-----------------------------------------------------------------------------
(* Workflow.                                                               *)

PassAt == {"new", "head", "await", "completed", "failed", "cancelled"}
PassRecord == [at : PassAt, step : 0 .. Length + 1, took : SUBSET Step, loops : 0 .. MaxLoops]

\* Under way, a pass stands before a step or at the end, and a suspended one at
\* a step.
PassInv == \A p \in Under : /\ pass[p].step \in 1 .. Length + 1
                            /\ pass[p].at = "await" => pass[p].step \in Step

\* A run that nobody shares: the one pass under way has done exactly what stands
\* before it, the state it took bears all of that, and when it leaves, the
\* cursor is where it stood.
AloneInv ==
    /\ \A p, q \in Under : p = q
    /\ \A p \in Under : /\ over = Before(pass[p].step)
                        /\ pass[p].at = "await" => /\ cursor = pass[p].step
                                                   /\ over \ skipped \subseteq pass[p].took
    /\ IF Under = {} THEN over = Before(cursor) ELSE status = "running"

WorkflowInv == /\ WorkflowTypeOK
               /\ PassInv
               /\ NothingLeftOut
               /\ ~ shared => AloneInv
               /\ ResumesWhereItStood

-----------------------------------------------------------------------------
(* Type correctness.                                                       *)

\* What the type invariant says of a pass, and of the steps it stands at.
LEMMA PassType ==
    ASSUME WorkflowTypeOK
    PROVE  /\ pass \in [Pass -> PassRecord]
           /\ \A p \in Pass : /\ pass[p].at \in PassAt /\ pass[p].step \in Nat
                              /\ pass[p].took \subseteq Step /\ pass[p].loops \in 0 .. MaxLoops
           /\ \A n \in Step : n \in 1 .. Length + 1 /\ n + 1 \in 1 .. Length + 1
  <1>1. pass \in [Pass -> PassRecord]
    BY DEF WorkflowTypeOK, PassRecord, PassAt
  <1>2. \A n \in Step : n \in 1 .. Length + 1 /\ n + 1 \in 1 .. Length + 1
    BY WorkflowAssumption DEF Step
  <1> QED  BY <1>1, <1>2, WorkflowAssumption DEF PassRecord

\* A pass that waits waits for a step.
LEMMA AwaitsAStep ==
    ASSUME PassInv PROVE \A p \in Pass : pass[p].at = "await" => pass[p].step \in Step
  <1> SUFFICES ASSUME NEW p \in Pass, pass[p].at = "await" PROVE pass[p].step \in Step
    OBVIOUS
  <1>1. p \in Under
    BY DEF Under
  <1> QED  BY <1>1 DEF PassInv

LEMMA WorkflowTypeInit == WorkflowInit => WorkflowTypeOK /\ PassInv
  <1> SUFFICES ASSUME WorkflowInit PROVE WorkflowTypeOK /\ PassInv
    OBVIOUS
  <1> USE WorkflowAssumption DEF WorkflowInit
  <1>0. cursor \in 1 .. Length + 1
    OBVIOUS
  <1>1. /\ status = "pending"
        /\ marks \subseteq Step /\ over \subseteq Step /\ skipped \subseteq Step
        /\ error \in BOOLEAN /\ shared \in BOOLEAN
    OBVIOUS
  <1>2. pass \in [Pass -> PassRecord]
    BY DEF PassRecord, PassAt
  <1>3. Under = {}
    BY DEF Under
  <1> QED  BY <1>0, <1>1, <1>2, <1>3 DEF WorkflowTypeOK, PassInv, PassRecord, PassAt

\* A step that moves one pass to another place keeps the type, if that place and
\* what it does to the rest are of their types.
LEMMA TypeOfMove ==
    ASSUME WorkflowTypeOK, PassInv, NEW p \in Pass, NEW r \in PassRecord,
           pass' = [pass EXCEPT ![p] = r],
           r.at \in {"head", "await"} => r.step \in 1 .. Length + 1,
           r.at = "await" => r.step \in Step,
           status' \in {"pending", "running", "completed", "failed"},
           cursor' \in 1 .. Length + 1, marks' \subseteq Step,
           over' \subseteq Step, skipped' \subseteq Step,
           error' \in BOOLEAN, shared' \in BOOLEAN
    PROVE  WorkflowTypeOK' /\ PassInv'
  <1>1. pass' \in [Pass -> PassRecord]
    BY PassType
  <1>2. \A q \in Pass : pass'[q] = IF q = p THEN r ELSE pass[q]
    BY PassType
  <1>3. PassInv'
    BY <1>2 DEF PassInv, Under
  <1> QED  BY <1>1, <1>3 DEF WorkflowTypeOK, PassRecord, PassAt

LEMMA WorkflowTypeStep ==
    WorkflowTypeOK /\ PassInv /\ [WorkflowNext]_workflowVars => WorkflowTypeOK' /\ PassInv'
  <1> SUFFICES ASSUME WorkflowTypeOK, PassInv, [WorkflowNext]_workflowVars
               PROVE  WorkflowTypeOK' /\ PassInv'
    OBVIOUS
  <1>t. /\ status \in {"pending", "running", "completed", "failed"}
        /\ cursor \in 1 .. Length + 1
        /\ marks \subseteq Step /\ over \subseteq Step /\ skipped \subseteq Step
        /\ error \in BOOLEAN /\ shared \in BOOLEAN
    BY DEF WorkflowTypeOK
  <1>1. CASE UNCHANGED workflowVars
    BY <1>1 DEF workflowVars, WorkflowTypeOK, PassInv, Under
  <1>2. ASSUME NEW p \in Pass,
               \/ Execute(p) \/ BeginStep(p) \/ SkipStep(p) \/ EndStep(p) \/ Repeat(p)
               \/ StepRaises(p) \/ LoopsExceeded(p) \/ Completed(p) \/ CancelPass(p)
        PROVE  WorkflowTypeOK' /\ PassInv'
    <2>p. /\ pass \in [Pass -> PassRecord] /\ pass[p] \in PassRecord
          /\ pass[p].at \in PassAt /\ pass[p].step \in Nat
          /\ pass[p].took \subseteq Step /\ pass[p].loops \in 0 .. MaxLoops
          /\ \A n \in Step : n \in 1 .. Length + 1 /\ n + 1 \in 1 .. Length + 1
          /\ pass[p].at = "await" => pass[p].step \in Step
          /\ 0 \in 0 .. MaxLoops /\ Length + 1 \in 1 .. Length + 1
      BY PassType, AwaitsAStep, WorkflowAssumption
    <2>r. ASSUME NEW n \in 0 .. Length + 1, NEW how \in PassAt
          PROVE  [at |-> how, step |-> n, took |-> {}, loops |-> 0] \in PassRecord
      BY <2>p DEF PassRecord
    <2>w. pass[p].at = "await" => Returns(p) \subseteq SUBSET Step
      BY <1>t, <2>p DEF Returns
    <2>1. CASE Execute(p)
      <3> DEFINE r == [pass[p] EXCEPT !.at = "head", !.step = cursor]
      <3>1. r \in PassRecord /\ r.at = "head" /\ r.step = cursor
        <4>1. cursor \in 0 .. Length + 1
          BY <1>t, WorkflowAssumption
        <4> QED  BY <4>1, <2>p DEF PassRecord, PassAt
      <3>2. pass' = [pass EXCEPT ![p] = r]
        BY <2>1, <2>p DEF Execute, PassRecord
      <3> QED  BY <1>t, <2>1, <3>1, <3>2, TypeOfMove DEF Execute
    <2>2. CASE BeginStep(p)
      <3> DEFINE r == [pass[p] EXCEPT !.at = "await", !.took = marks]
      <3>1. r \in PassRecord /\ r.at = "await" /\ r.step = pass[p].step
        BY <1>t, <2>p DEF PassRecord, PassAt
      <3>2. pass' = [pass EXCEPT ![p] = r]
        BY <2>2, <2>p DEF BeginStep, PassRecord
      <3> QED  BY <1>t, <2>2, <2>p, <3>1, <3>2, TypeOfMove DEF BeginStep
    <2>3. CASE SkipStep(p)
      <3> DEFINE r == [at |-> "head", step |-> pass[p].step + 1, took |-> {}, loops |-> 0]
      <3>1. r \in PassRecord
        <4>1. pass[p].step + 1 \in 0 .. Length + 1 /\ "head" \in PassAt
          BY <2>3, <2>p, WorkflowAssumption DEF SkipStep, PassAt
        <4> QED  BY <4>1, <2>r
      <3>2. pass' = [pass EXCEPT ![p] = r]
        BY <2>3, <2>p DEF SkipStep, Advance
      <3> QED  BY <1>t, <2>3, <2>p, <3>1, <3>2, TypeOfMove DEF SkipStep
    <2>4. CASE EndStep(p)
      <3> DEFINE r == [at |-> "head", step |-> pass[p].step + 1, took |-> {}, loops |-> 0]
      <3>1. r \in PassRecord
        <4>1. pass[p].step + 1 \in 0 .. Length + 1 /\ "head" \in PassAt
          BY <2>4, <2>p, WorkflowAssumption DEF EndStep, PassAt
        <4> QED  BY <4>1, <2>r
      <3>2. pass' = [pass EXCEPT ![p] = r]
        BY <2>4, <2>p DEF EndStep, Advance
      <3> QED  BY <1>t, <2>4, <2>p, <2>w, <3>1, <3>2, TypeOfMove DEF EndStep
    <2>5. CASE Repeat(p)
      <3> DEFINE r == [pass[p] EXCEPT !.took = marks', !.loops = @ + 1]
      <3>1. r \in PassRecord /\ r.at = "await" /\ r.step = pass[p].step
        BY <1>t, <2>5, <2>p, <2>w, WorkflowAssumption DEF Repeat, PassRecord
      <3>2. pass' = [pass EXCEPT ![p] = r]
        BY <2>5, <2>p DEF Repeat, PassRecord
      <3> QED  BY <1>t, <2>5, <2>p, <2>w, <3>1, <3>2, TypeOfMove DEF Repeat
    <2>6. ASSUME NEW how \in {"completed", "failed", "cancelled"}, pass' = Leave(p, how),
                 status' \in {"pending", "running", "completed", "failed"},
                 cursor' \in {cursor, Length + 1}, error' \in {error, TRUE},
                 marks' \subseteq Step, UNCHANGED <<over, skipped, shared>>
          PROVE  WorkflowTypeOK' /\ PassInv'
      <3> DEFINE r == [at |-> how, step |-> 0, took |-> {}, loops |-> 0]
      <3>1. r \in PassRecord
        <4>1. 0 \in 0 .. Length + 1 /\ how \in PassAt
          BY WorkflowAssumption DEF PassAt
        <4> QED  BY <4>1, <2>r
      <3>2. pass' = [pass EXCEPT ![p] = r]
        BY <2>6, <2>p DEF Leave
      <3> QED  BY <1>t, <2>6, <2>p, <3>1, <3>2, TypeOfMove
    <2>7. CASE StepRaises(p) \/ LoopsExceeded(p)
      BY <1>t, <2>6, <2>7, <2>w DEF StepRaises, LoopsExceeded, Fail
    <2>8. CASE Completed(p)
      BY <1>t, <2>6, <2>8 DEF Completed
    <2>9. CASE CancelPass(p)
      BY <1>t, <2>6, <2>9, <2>w DEF CancelPass
    <2> QED  BY <1>2, <2>1, <2>2, <2>3, <2>4, <2>5, <2>7, <2>8, <2>9
  <1> QED  BY <1>1, <1>2 DEF WorkflowNext

\* Every variable keeps its type: the cursor and the passes stay within the
\* range of the steps.
THEOREM WorkflowTypeCorrect == WorkflowSpec => []WorkflowTypeOK
  BY WorkflowTypeInit, WorkflowTypeStep, PTL DEF WorkflowSpec

-----------------------------------------------------------------------------
(* No step is left out.                                                    *)

LEMMA BeforeFacts ==
    ASSUME NEW n \in Step
    PROVE  /\ Before(n + 1) = Before(n) \cup {n}
           /\ n \notin Before(n)
           /\ Before(Length + 1) = Step
           /\ Before(1) = {}
  BY WorkflowAssumption DEF Step, Before

LEMMA NothingLeftOutInit == WorkflowInit => NothingLeftOut
  <1> SUFFICES ASSUME WorkflowInit PROVE NothingLeftOut
    OBVIOUS
  <1>1. Under = {}
    BY DEF WorkflowInit, Under
  <1>2. Before(1) = {}
    BY DEF Before
  <1> QED  BY <1>1, <1>2 DEF WorkflowInit, NothingLeftOut

\* Whoever moves on has put one step behind it, and nobody goes back: neither
\* a pass that is shared nor the cursor ever passes over a step.
LEMMA NothingLeftOutStep ==
    ASSUME WorkflowTypeOK, PassInv, NothingLeftOut, WorkflowTypeOK',
           [WorkflowNext]_workflowVars
    PROVE  NothingLeftOut'
  <1>b. /\ Before(cursor) \subseteq over
        /\ \A q \in Under : Before(pass[q].step) \subseteq over
        /\ status = "completed" => over = Step
        /\ over \subseteq Step /\ over' \subseteq Step
    BY DEF NothingLeftOut, WorkflowTypeOK
  <1>1. CASE UNCHANGED workflowVars
    BY <1>1, <1>b DEF workflowVars, NothingLeftOut, Under
  <1>2. ASSUME NEW p \in Pass,
               \/ Execute(p) \/ BeginStep(p) \/ SkipStep(p) \/ EndStep(p) \/ Repeat(p)
               \/ StepRaises(p) \/ LoopsExceeded(p) \/ Completed(p) \/ CancelPass(p)
        PROVE  NothingLeftOut'
    <2>p. /\ pass \in [Pass -> PassRecord] /\ pass[p] \in PassRecord
          /\ pass[p].at = "await" => pass[p].step \in Step
          /\ pass[p].step \in Nat
      BY PassType, AwaitsAStep
    <2>1. CASE Execute(p)
      <3>1. /\ UNCHANGED <<cursor, over>> /\ status' = "running"
            /\ \A q \in Pass : pass'[q].step = IF q = p THEN cursor ELSE pass[q].step
            /\ \A q \in Pass \ {p} : pass'[q] = pass[q]
        BY <2>1, <2>p DEF Execute, PassRecord
      <3> QED  BY <3>1, <1>b DEF NothingLeftOut, Under
    <2>2. CASE BeginStep(p)
      <3>1. /\ UNCHANGED <<status, over>> /\ cursor' = pass[p].step /\ p \in Under
            /\ \A q \in Pass : pass'[q].step = pass[q].step
            /\ \A q \in Pass \ {p} : pass'[q] = pass[q]
        BY <2>2, <2>p DEF BeginStep, PassRecord, Under
      <3> QED  BY <3>1, <1>b DEF NothingLeftOut, Under
    <2>3. CASE SkipStep(p) \/ EndStep(p)
      <3>1. /\ over' = over \cup {pass[p].step} /\ pass[p].step \in Step /\ p \in Under
            /\ status' = status /\ cursor' \in {cursor, pass[p].step}
            /\ pass' = Advance(p)
        BY <2>3, <2>p DEF SkipStep, EndStep, Under
      <3>2. /\ pass'[p].step = pass[p].step + 1
            /\ \A q \in Pass \ {p} : pass'[q] = pass[q]
        BY <3>1, <2>p DEF Advance
      <3>3. Before(pass[p].step + 1) = Before(pass[p].step) \cup {pass[p].step}
        BY <3>1, BeforeFacts
      <3>4. \A q \in Under' : Before(pass'[q].step) \subseteq over'
        BY <3>1, <3>2, <3>3, <1>b DEF Under
      <3>5. Before(cursor') \subseteq over'
        BY <3>1, <1>b
      <3> QED  BY <3>1, <3>4, <3>5, <1>b DEF NothingLeftOut
    <2>4. CASE Repeat(p)
      <3>1. /\ UNCHANGED <<status, cursor, over>> /\ Under' = Under
            /\ \A q \in Pass : pass'[q].step = pass[q].step
        BY <2>4, <2>p DEF Repeat, PassRecord, Under
      <3> QED  BY <3>1, <1>b DEF NothingLeftOut, Under
    <2>5. ASSUME NEW how \in {"completed", "failed", "cancelled"}, pass' = Leave(p, how),
                 over' = over, Before(cursor') \subseteq over,
                 status' = "completed" => over = Step
          PROVE  NothingLeftOut'
      <3>1. /\ pass'[p].at = how
            /\ \A q \in Pass \ {p} : pass'[q] = pass[q]
        BY <2>5, <2>p DEF Leave
      <3> QED  BY <3>1, <2>5, <1>b DEF NothingLeftOut, Under
    <2>6. CASE StepRaises(p) \/ LoopsExceeded(p) \/ CancelPass(p)
      BY <2>5, <2>6, <1>b DEF StepRaises, LoopsExceeded, Fail, CancelPass
    <2>7. CASE Completed(p)
      <3>1. p \in Under /\ pass[p].step > Length
        BY <2>7 DEF Completed, Under
      <3>2. Step \subseteq Before(pass[p].step) /\ Before(Length + 1) = Step
        BY <3>1, <2>p, WorkflowAssumption DEF Before, Step
      <3>3. over = Step
        BY <3>1, <3>2, <1>b
      <3> QED  BY <2>5, <2>7, <3>2, <3>3 DEF Completed
    <2> QED  BY <1>2, <2>1, <2>2, <2>3, <2>4, <2>6, <2>7
  <1> QED  BY <1>1, <1>2 DEF WorkflowNext

-----------------------------------------------------------------------------
(* A run nobody shares.                                                    *)

LEMMA AloneInit == WorkflowInit => AloneInv /\ ResumesWhereItStood
  <1> SUFFICES ASSUME WorkflowInit PROVE AloneInv /\ ResumesWhereItStood
    OBVIOUS
  <1>1. Under = {} /\ \A p \in Pass : pass[p].at = "new"
    BY DEF WorkflowInit, Under
  <1>2. Before(1) = {}
    BY DEF Before
  <1> QED  BY <1>1, <1>2 DEF WorkflowInit, AloneInv, ResumesWhereItStood

\* As long as no second pass begins while one is under way, every step finds
\* and leaves the run as AloneInv says, and with it the steps, the state and the
\* status as they should be.
LEMMA AloneStep ==
    ASSUME WorkflowInv, ~ shared', [WorkflowNext]_workflowVars
    PROVE  AloneInv' /\ ResumesWhereItStood'
  <1>t. /\ WorkflowTypeOK /\ PassInv /\ pass \in [Pass -> PassRecord]
        /\ over \subseteq Step /\ marks \subseteq Step
    BY PassType DEF WorkflowInv, WorkflowTypeOK
  <1>s. ~ shared
    BY DEF WorkflowNext, workflowVars, Execute, BeginStep, SkipStep, EndStep, Repeat,
           StepRaises, LoopsExceeded, Completed, CancelPass
  <1>a. AloneInv /\ ResumesWhereItStood
    BY <1>s DEF WorkflowInv
  <1>b. /\ over \ skipped \subseteq marks
        /\ status = "failed" => error
        /\ status = "completed" => cursor = Length + 1
        /\ status = "running" /\ Under = {} => \E p \in Pass : pass[p].at = "cancelled"
    BY <1>a, <1>s DEF ResumesWhereItStood
  <1>1. CASE UNCHANGED workflowVars
    BY <1>1, <1>a, <1>s DEF workflowVars, AloneInv, ResumesWhereItStood, Under
  <1>2. ASSUME NEW p \in Pass,
               \/ Execute(p) \/ BeginStep(p) \/ SkipStep(p) \/ EndStep(p) \/ Repeat(p)
               \/ StepRaises(p) \/ LoopsExceeded(p) \/ Completed(p) \/ CancelPass(p)
        PROVE  AloneInv' /\ ResumesWhereItStood'
    <2>p. /\ pass[p] \in PassRecord /\ pass[p].step \in Nat
          /\ pass[p].at = "await" => pass[p].step \in Step
      BY <1>t, PassType, AwaitsAStep
    \* What is left to show of a pass that goes on.
    <2>g. ASSUME Under' = {p}, over' = Before(pass'[p].step),
                 pass'[p].at = "await" => /\ pass'[p].step \in Step
                                          /\ cursor' = pass'[p].step
                                          /\ over' \ skipped' \subseteq pass'[p].took,
                 over' \ skipped' \subseteq marks', status' = "running"
          PROVE  AloneInv' /\ ResumesWhereItStood'
      <3>1. AloneInv'
        BY <2>g DEF AloneInv
      <3>2. \A q \in Pass : pass'[q].at = "await" => q = p
        BY <2>g DEF Under
      <3>3. pass'[p].at = "await" => pass'[p].step \notin over'
        BY <2>g, BeforeFacts
      <3> QED  BY <2>g, <3>1, <3>2, <3>3 DEF ResumesWhereItStood
    \* And of one that leaves.
    <2>l. ASSUME Under' = {}, over' = Before(cursor'), over' \ skipped' \subseteq marks',
                 status' = "failed" => error',
                 status' = "completed" => cursor' = Length + 1,
                 status' = "running" => pass'[p].at = "cancelled"
          PROVE  AloneInv' /\ ResumesWhereItStood'
      BY <2>l DEF AloneInv, ResumesWhereItStood, Under
    <2>u. p \in Under => /\ Under = {p} /\ over = Before(pass[p].step)
                         /\ pass[p].at = "await" => /\ cursor = pass[p].step
                                                    /\ over \ skipped \subseteq pass[p].took
      BY <1>a DEF AloneInv
    <2>r. p \in Under => status = "running"
      BY <1>a DEF AloneInv
    <2>1. CASE Execute(p)
      <3>1. Under = {} /\ p \notin Under
        BY <2>1, <1>s DEF Execute, Under
      <3>2. /\ UNCHANGED <<cursor, marks, over, skipped>> /\ status' = "running"
            /\ pass'[p].at = "head" /\ pass'[p].step = cursor
            /\ \A q \in Pass \ {p} : pass'[q] = pass[q]
        BY <2>1, <1>t, <2>p DEF Execute, PassRecord
      <3>3. Under' = {p}
        BY <3>1, <3>2 DEF Under
      <3> QED  BY <3>1, <3>2, <3>3, <1>a, <1>b, <2>g DEF AloneInv
    <2>2. CASE BeginStep(p)
      <3>1. /\ UNCHANGED <<status, marks, over, skipped>> /\ cursor' = pass[p].step
            /\ p \in Under /\ pass[p].step \in Step
            /\ pass'[p].at = "await" /\ pass'[p].step = pass[p].step /\ pass'[p].took = marks
            /\ \A q \in Pass \ {p} : pass'[q] = pass[q]
        BY <2>2, <1>t, <2>p DEF BeginStep, PassRecord, Under
      <3>2. Under' = {p}
        BY <3>1, <2>u DEF Under
      <3> QED  BY <3>1, <3>2, <1>b, <2>u, <2>r, <2>g
    <2>3. CASE SkipStep(p) \/ EndStep(p)
      <3>1. /\ over' = over \cup {pass[p].step} /\ pass[p].step \in Step /\ p \in Under
            /\ status' = status /\ pass' = Advance(p)
        BY <2>3, <2>p DEF SkipStep, EndStep, Under
      <3>2. /\ pass'[p].at = "head" /\ pass'[p].step = pass[p].step + 1
            /\ \A q \in Pass \ {p} : pass'[q] = pass[q]
        BY <3>1, <1>t DEF Advance
      <3>3. Under' = {p}
        BY <3>1, <3>2, <2>u DEF Under
      <3>4. over' = Before(pass'[p].step)
        BY <3>1, <3>2, <2>u, BeforeFacts
      <3>5. over' \ skipped' \subseteq marks'
        BY <2>3, <3>1, <1>b, <2>u DEF SkipStep, EndStep, Returns
      <3> QED  BY <3>1, <3>2, <3>3, <3>4, <3>5, <2>r, <2>g
    <2>4. CASE Repeat(p)
      <3>1. /\ UNCHANGED <<status, cursor, over, skipped>> /\ p \in Under
            /\ pass[p].at = "await" /\ marks' \in Returns(p)
            /\ pass'[p].at = "await" /\ pass'[p].step = pass[p].step /\ pass'[p].took = marks'
            /\ \A q \in Pass \ {p} : pass'[q] = pass[q]
        BY <2>4, <1>t, <2>p DEF Repeat, PassRecord, Under
      <3>2. Under' = {p}
        BY <3>1, <2>u DEF Under
      <3>3. over' \ skipped' \subseteq marks'
        BY <3>1, <1>b, <2>u DEF Returns
      <3> QED  BY <3>1, <3>2, <3>3, <2>p, <2>u, <2>r, <2>g
    <2>5. ASSUME NEW how \in {"completed", "failed", "cancelled"}, pass' = Leave(p, how),
                 p \in Under, UNCHANGED <<over, skipped>>
          PROVE  Under' = {} /\ pass'[p].at = how
      <3>1. /\ pass'[p].at = how
            /\ \A q \in Pass \ {p} : pass'[q] = pass[q]
        BY <2>5, <1>t DEF Leave
      <3> QED  BY <3>1, <2>5, <2>u DEF Under
    <2>6. CASE StepRaises(p) \/ LoopsExceeded(p) \/ CancelPass(p)
      <3>1. /\ UNCHANGED <<cursor, over, skipped>> /\ pass[p].at = "await" /\ p \in Under
            /\ marks' \in {marks} \cup Returns(p)
        BY <2>6 DEF StepRaises, LoopsExceeded, Fail, CancelPass, Under
      <3>2. over' \ skipped' \subseteq marks'
        BY <3>1, <1>b, <2>u DEF Returns
      <3>3. \/ pass' = Leave(p, "failed") /\ status' = "failed" /\ error' = TRUE
            \/ pass' = Leave(p, "cancelled") /\ status' = "running"
        BY <2>6, <3>1, <2>r DEF StepRaises, LoopsExceeded, Fail, CancelPass
      <3>4. /\ Under' = {}
            /\ status' = "running" => pass'[p].at = "cancelled"
            /\ status' \in {"failed", "running"} /\ (status' = "failed" => error')
        BY <3>1, <3>3, <2>5
      <3>5. over' = Before(cursor')
        BY <3>1, <2>u
      <3> QED  BY <3>2, <3>4, <3>5, <2>l
    <2>7. CASE Completed(p)
      <3>1. /\ UNCHANGED <<marks, over, skipped>> /\ p \in Under
            /\ cursor' = Length + 1 /\ status' = "completed" /\ pass' = Leave(p, "completed")
            /\ pass[p].step > Length
        BY <2>7 DEF Completed, Under
      <3>2. Step \subseteq Before(pass[p].step) /\ Before(Length + 1) = Step
        BY <3>1, <2>p, WorkflowAssumption DEF Before, Step
      <3>3. over' = Before(cursor')
        BY <3>1, <3>2, <1>t, <2>u
      <3> QED  BY <3>1, <3>3, <1>b, <2>5, <2>l
    <2> QED  BY <1>2, <2>1, <2>2, <2>3, <2>4, <2>6, <2>7
  <1> QED  BY <1>1, <1>2 DEF WorkflowNext

-----------------------------------------------------------------------------
LEMMA WorkflowInvInit == WorkflowInit => WorkflowInv
  BY WorkflowTypeInit, NothingLeftOutInit, AloneInit DEF WorkflowInv

LEMMA WorkflowInvStep == WorkflowInv /\ [WorkflowNext]_workflowVars => WorkflowInv'
  <1> SUFFICES ASSUME WorkflowInv, [WorkflowNext]_workflowVars PROVE WorkflowInv'
    OBVIOUS
  <1>1. WorkflowTypeOK' /\ PassInv'
    BY WorkflowTypeStep DEF WorkflowInv
  <1>2. NothingLeftOut'
    BY <1>1, NothingLeftOutStep DEF WorkflowInv
  <1>3. ~ shared' => AloneInv' /\ ResumesWhereItStood'
    BY AloneStep
  <1>4. shared' => ResumesWhereItStood'
    BY DEF ResumesWhereItStood
  <1> QED  BY <1>1, <1>2, <1>3, <1>4 DEF WorkflowInv

\* No step is left out, in whatever way the passes overlap, and a run nobody
\* shares is taken up where it stood: nothing done is done again, the state
\* bears every mark, the status is that of the last pass (engine.py:63).
THEOREM StepsInOrderHolds == WorkflowSpec => []StepsInOrder
  <1>1. WorkflowInv => StepsInOrder
    BY DEF WorkflowInv, StepsInOrder
  <1> QED  BY WorkflowInvInit, WorkflowInvStep, <1>1, PTL DEF WorkflowSpec

-----------------------------------------------------------------------------
(* RateLimiter: types.                                                     *)

LimitRecord == [capacity : Nat, rate : Nat]
BucketRecord == [capacity : Nat, rate : Nat, tokens : Nat, updated : Nat]

\* A bucket has the limit of its key, was last brought up to date at some time
\* up to now, and holds no more than its capacity.
BucketInv(k) == /\ buckets[k].capacity = limits[k].capacity
                /\ buckets[k].rate = limits[k].rate
                /\ buckets[k].tokens <= buckets[k].capacity
                /\ buckets[k].updated <= now

LimiterTypes == /\ now \in Nat /\ now <= MaxNow
                /\ limits \in [Key -> {Default} \cup Limit]
                /\ limits \in [Key -> LimitRecord]
                /\ buckets \in [Key -> BucketRecord \cup {NoBucket}]
                /\ \A k \in Key : buckets[k] # NoBucket => BucketInv(k)
                /\ granted \in [Key -> Nat]
                /\ before \in [Key -> [0 .. now -> Nat]]

\* The inductive invariant: what has been let through since time t and what is
\* left in the bucket together are at most the capacity and what has flowed in.
Balance(k, t) == Unit * (granted[k] - before[k][t]) + Level(Bucket(k))
                    <= limits[k].capacity + limits[k].rate * (now - t)

LimiterInv == LimiterTypes /\ \A k \in Key : \A t \in 0 .. now : Balance(k, t)

LEMMA TypesGiveTypeOK == LimiterTypes => LimiterTypeOK
  <1> SUFFICES ASSUME LimiterTypes PROVE LimiterTypeOK
    OBVIOUS
  <1>1. now \in 0 .. MaxNow
    BY LimitAssumption DEF LimiterTypes
  <1>2. ASSUME NEW k \in Key, buckets[k] # NoBucket
        PROVE  /\ buckets[k].capacity = limits[k].capacity
               /\ buckets[k].rate = limits[k].rate
               /\ buckets[k].tokens \in 0 .. buckets[k].capacity
               /\ buckets[k].updated \in 0 .. now
    <2>1. buckets[k] \in BucketRecord /\ BucketInv(k) /\ now \in Nat
      BY <1>2 DEF LimiterTypes
    <2> QED  BY <2>1 DEF BucketRecord, BucketInv
  <1> QED  BY <1>1, <1>2 DEF LimiterTypes, LimiterTypeOK

\* What a request finds in the bucket: as much as it was left with and what has
\* flowed in since, up to the capacity.
LEMMA LevelFacts ==
    ASSUME LimiterTypes, NEW k \in Key
    PROVE  /\ Bucket(k) \in BucketRecord
           /\ Bucket(k).capacity = limits[k].capacity /\ Bucket(k).rate = limits[k].rate
           /\ Bucket(k).tokens <= limits[k].capacity /\ Bucket(k).updated <= now
           /\ Level(Bucket(k)) \in 0 .. limits[k].capacity
           /\ limits[k].capacity \in Nat /\ limits[k].rate \in Nat
  <1>1. limits[k] \in LimitRecord /\ now \in Nat
    BY DEF LimiterTypes
  <1>2. limits[k].capacity \in Nat /\ limits[k].rate \in Nat
    BY <1>1 DEF LimitRecord
  <1>3. /\ Bucket(k) \in BucketRecord
        /\ Bucket(k).capacity = limits[k].capacity /\ Bucket(k).rate = limits[k].rate
        /\ Bucket(k).tokens <= limits[k].capacity /\ Bucket(k).updated <= now
    <2>1. CASE buckets[k] = NoBucket
      BY <2>1, <1>1, <1>2 DEF Bucket, BucketRecord
    <2>2. CASE buckets[k] # NoBucket
      <3>1. buckets[k] \in BucketRecord /\ BucketInv(k)
        BY <2>2 DEF LimiterTypes
      <3> QED  BY <3>1, <2>2 DEF Bucket, BucketInv
    <2> QED  BY <2>1, <2>2
  <1>4. Level(Bucket(k)) \in 0 .. limits[k].capacity
    <2>1. /\ Bucket(k).tokens \in Nat /\ now - Bucket(k).updated \in Nat
          /\ Bucket(k).rate \in Nat /\ Bucket(k).capacity \in Nat
      BY <1>1, <1>3 DEF BucketRecord
    <2>2. (now - Bucket(k).updated) * Bucket(k).rate \in Nat
      BY <2>1
    <2> HIDE DEF Bucket
    <2> QED  BY <2>1, <2>2, <1>3 DEF Level, Smaller
  <1> QED  BY <1>2, <1>3, <1>4

LEMMA LimiterInvInit == LimiterInit => LimiterInv
  <1> SUFFICES ASSUME LimiterInit PROVE LimiterInv
    OBVIOUS
  <1>1. Default \in LimitRecord /\ MaxNow \in Nat
    BY LimitAssumption DEF LimitRecord
  <1>2. LimiterTypes
    BY <1>1 DEF LimiterInit, LimiterTypes
  <1>3. ASSUME NEW k \in Key, NEW t \in 0 .. now PROVE Balance(k, t)
    <2>1. now = 0 /\ t = 0 /\ granted[k] = 0 /\ before[k][t] = 0
      BY <1>3 DEF LimiterInit
    <2>2. Unit * 0 = 0 /\ limits[k].rate * 0 = 0
      BY <1>2, LevelFacts, LimitAssumption
    <2> QED  BY <2>1, <2>2, <1>2, LevelFacts DEF Balance
  <1> QED  BY <1>2, <1>3 DEF LimiterInv

\* The bucket of a key brought up to date and left with n parts.
Left(k, n) == [Refilled(Bucket(k)) EXCEPT !.tokens = n]

LEMMA RefilledFacts ==
    ASSUME LimiterTypes, NEW k \in Key, NEW n \in Nat, n <= Level(Bucket(k))
    PROVE  LET b == Left(k, n) IN
           /\ b \in BucketRecord /\ b # NoBucket
           /\ b.capacity = limits[k].capacity /\ b.rate = limits[k].rate
           /\ b.tokens = n /\ b.updated = now
           /\ Level(b) = n
  <1> DEFINE b == Left(k, n)
  <1>1. now \in Nat /\ Bucket(k) \in BucketRecord
    BY LevelFacts DEF LimiterTypes
  <1> HIDE DEF Bucket
  <1>2. /\ b \in BucketRecord
        /\ b.capacity = limits[k].capacity /\ b.rate = limits[k].rate
        /\ b.tokens = n /\ b.updated = now
    BY <1>1, LevelFacts DEF Left, Refilled, BucketRecord
  <1>3. n <= limits[k].capacity /\ limits[k].capacity \in Nat /\ limits[k].rate \in Nat
    BY LevelFacts
  <1>4. (now - now) * b.rate = 0
    BY <1>1, <1>2, <1>3
  <1>5. Level(b) = n
    BY <1>1, <1>2, <1>3, <1>4 DEF Level, Smaller
  <1>6. b # NoBucket
    BY <1>2 DEF NoBucket
  <1> QED  BY <1>2, <1>5, <1>6

\* A request that is let through or refused: only the bucket of its key changes,
\* and what has been let through grows by as much as the bucket loses.
LEMMA RequestStep ==
    ASSUME LimiterInv, NEW k \in Key, Allowed(k) \/ Limited(k)
    PROVE  LimiterInv'
  <1> DEFINE b == buckets'[k]
  <1>t. LimiterTypes /\ now \in Nat /\ Unit \in Nat \ {0} /\ granted \in [Key -> Nat]
        /\ buckets \in [Key -> BucketRecord \cup {NoBucket}]
        /\ limits[k].capacity \in Nat /\ limits[k].rate \in Nat
        /\ Level(Bucket(k)) \in 0 .. limits[k].capacity
    BY LimitAssumption, LevelFacts DEF LimiterInv, LimiterTypes
  <1> DEFINE m == IF Allowed(k) THEN Level(Bucket(k)) - Unit ELSE Level(Bucket(k))
  <1>0. m \in Nat /\ m <= Level(Bucket(k))
    BY <1>t DEF Allowed
  <1>1. /\ buckets' = [buckets EXCEPT ![k] = Left(k, m)]
        /\ UNCHANGED <<now, limits, before>>
        /\ granted' \in [Key -> Nat]
        /\ \A j \in Key \ {k} : granted'[j] = granted[j]
        /\ Unit * (granted'[k] - granted[k]) + m = Level(Bucket(k))
    <2>0. /\ Refilled(Bucket(k)) = Left(k, Level(Bucket(k)))
          /\ [Refilled(Bucket(k)) EXCEPT !.tokens = @ - Unit]
                = Left(k, Level(Bucket(k)) - Unit)
      BY LevelFacts, <1>t DEF Refilled, BucketRecord, Left
    <2>1. CASE Allowed(k)
      <3>1. granted'[k] - granted[k] = 1 /\ Unit * 1 = Unit /\ m = Level(Bucket(k)) - Unit
        BY <2>1, <1>t DEF Allowed
      <3>2. Unit * (granted'[k] - granted[k]) + m = Level(Bucket(k))
        BY <3>1, <1>t
      <3>3. /\ UNCHANGED <<now, limits, before>> /\ granted' \in [Key -> Nat]
            /\ \A j \in Key \ {k} : granted'[j] = granted[j]
        BY <2>1, <1>t DEF Allowed
      <3>4. buckets' = [buckets EXCEPT ![k] = Left(k, m)]
        BY <2>0, <2>1, <3>1 DEF Allowed
      <3> QED  BY <3>2, <3>3, <3>4
    <2>2. CASE ~ Allowed(k)
      <3>1. granted' = granted /\ granted'[k] - granted[k] = 0 /\ Unit * 0 = 0
        BY <2>2, <1>t DEF Limited
      <3> QED  BY <2>0, <2>2, <3>1, <1>t DEF Limited
    <2> QED  BY <2>1, <2>2
  <1> HIDE DEF m
  <1>2. /\ b \in BucketRecord /\ b # NoBucket
        /\ b.capacity = limits[k].capacity /\ b.rate = limits[k].rate
        /\ b.tokens = m /\ b.updated = now
        /\ Level(b) = m
    <2>1. b = Left(k, m)
      BY <1>1, <1>t
    <2> QED  BY <1>0, <1>t, <2>1, RefilledFacts
  <1>3. LimiterTypes'
    <2>1. \A j \in Key \ {k} : buckets'[j] = buckets[j]
      BY <1>1, <1>t
    <2>2. BucketInv(k)'
      BY <1>0, <1>1, <1>2, <1>t DEF BucketInv
    <2>3. \A j \in Key \ {k} : buckets'[j] # NoBucket => BucketInv(j)'
      BY <1>1, <1>t, <2>1 DEF BucketInv, LimiterTypes
    <2> QED  BY <1>1, <1>2, <1>t, <2>2, <2>3 DEF LimiterTypes
  <1>4. ASSUME NEW j \in Key, NEW t \in 0 .. now' PROVE Balance(j, t)'
    <2>1. t \in 0 .. now /\ before'[j][t] = before[j][t] /\ Balance(j, t)
          /\ before[j][t] \in Nat
      BY <1>1, <1>t, <1>4 DEF LimiterInv, LimiterTypes
    <2>2. CASE j # k
      <3>1. Level(Bucket(j))' = Level(Bucket(j))
        BY <1>1, <1>t, <2>2 DEF Bucket, Level
      <3> QED  BY <1>1, <2>1, <2>2, <3>1 DEF Balance
    <2>3. CASE j = k
      <3>1. Level(Bucket(k))' = m
        BY <1>1, <1>2 DEF Bucket, Level
      <3>2. Unit * (granted'[k] - before[k][t])
               = Unit * (granted[k] - before[k][t]) + Unit * (granted'[k] - granted[k])
        BY <1>1, <1>t, <2>1, <2>3
      <3> QED  BY <1>0, <1>1, <1>t, <2>1, <2>3, <3>1, <3>2 DEF Balance
    <2> QED  BY <2>2, <2>3
  <1> QED  BY <1>3, <1>4 DEF LimiterInv

\* configure: the count of the key begins anew, with a full bucket.
LEMMA ConfigureStep ==
    ASSUME LimiterInv, NEW k \in Key, NEW l \in Limit, Configure(k, l)
    PROVE  LimiterInv'
  <1>t. /\ LimiterTypes /\ now \in Nat /\ Unit \in Nat \ {0}
        /\ l \in LimitRecord /\ l \in {Default} \cup Limit
    BY LimitAssumption DEF LimiterInv, LimiterTypes, LimitRecord
  <1>1. \A j \in Key \ {k} : /\ limits'[j] = limits[j] /\ buckets'[j] = buckets[j]
                             /\ granted'[j] = granted[j] /\ before'[j] = before[j]
    BY DEF Configure, LimiterInv, LimiterTypes
  <1>2. /\ limits'[k] = l /\ buckets'[k] = NoBucket /\ granted'[k] = 0
        /\ before'[k] = [t \in 0 .. now |-> 0] /\ now' = now
    BY DEF Configure, LimiterInv, LimiterTypes
  <1>3. LimiterTypes'
    <2>1. /\ limits' \in [Key -> {Default} \cup Limit] /\ limits' \in [Key -> LimitRecord]
          /\ buckets' \in [Key -> BucketRecord \cup {NoBucket}]
          /\ granted' \in [Key -> Nat]
      BY <1>t DEF Configure, LimiterTypes
    <2>2. before' \in [Key -> [0 .. now' -> Nat]]
      BY <1>t, <1>2 DEF Configure, LimiterTypes
    <2>3. \A j \in Key : buckets'[j] # NoBucket => BucketInv(j)'
      BY <1>t, <1>1, <1>2 DEF LimiterTypes, BucketInv
    <2> QED  BY <1>t, <1>2, <2>1, <2>2, <2>3 DEF LimiterTypes
  <1>4. ASSUME NEW j \in Key, NEW t \in 0 .. now' PROVE Balance(j, t)'
    <2>1. CASE j # k
      <3>1. Level(Bucket(j))' = Level(Bucket(j))
        BY <1>1, <1>2, <2>1 DEF Bucket, Level
      <3> QED  BY <1>1, <1>2, <1>4, <2>1, <3>1 DEF LimiterInv, Balance
    <2>2. CASE j = k
      <3>1. l.capacity \in Nat /\ l.rate \in Nat /\ t \in 0 .. now /\ (now - now) * l.rate = 0
        BY <1>t, <1>2, <1>4 DEF LimitRecord
      <3>2. Level(Bucket(k))' = l.capacity
        BY <1>2, <1>t, <3>1 DEF Bucket, Level, Smaller
      <3>3. Unit * (0 - 0) = 0 /\ l.rate * (now - t) \in Nat
        BY <1>t, <3>1
      <3>4. granted'[k] = 0 /\ before'[k][t] = 0 /\ limits'[k] = l /\ now' = now
        BY <1>2, <3>1
      <3>5. Unit * (0 - 0) + l.capacity <= l.capacity + l.rate * (now - t)
        BY <3>1, <3>3
      <3> QED  BY <2>2, <3>2, <3>4, <3>5 DEF Balance
    <2> QED  BY <2>1, <2>2
  <1> QED  BY <1>3, <1>4 DEF LimiterInv

\* A tick lets at most the rate of its key flow into a bucket.
LEMMA LevelGrows ==
    ASSUME LimiterTypes, Tick, NEW k \in Key
    PROVE  /\ Level(Bucket(k))' <= Level(Bucket(k)) + limits[k].rate
           /\ Level(Bucket(k))' \in Int /\ Level(Bucket(k))' <= limits[k].capacity
  <1> DEFINE r == limits[k].rate
             c == limits[k].capacity
  <1>1. /\ now \in Nat /\ now' = now + 1 /\ limits' = limits /\ buckets' = buckets
        /\ c \in Nat /\ r \in Nat
    BY LevelFacts DEF Tick, LimiterTypes
  <1>2. CASE buckets[k] = NoBucket
    <2>1. (now - now) * r = 0 /\ (now + 1 - (now + 1)) * r = 0
      BY <1>1
    <2>2. Bucket(k) = [capacity |-> c, rate |-> r, tokens |-> c, updated |-> now]
      BY <1>2 DEF Bucket
    <2>3. Bucket(k)' = [capacity |-> c, rate |-> r, tokens |-> c, updated |-> now + 1]
      BY <1>1, <1>2 DEF Bucket
    <2>4. Level(Bucket(k)) = c
      BY <1>1, <2>1, <2>2 DEF Level, Smaller
    <2>5. Level(Bucket(k))' = c
      BY <1>1, <2>1, <2>3 DEF Level, Smaller
    <2> QED  BY <1>1, <2>4, <2>5
  <1>3. CASE buckets[k] # NoBucket
    <2> DEFINE b == buckets[k]
               u == b.updated
               n == b.tokens
    <2>1. u \in Nat /\ n \in Nat /\ b.rate = r /\ b.capacity = c
      BY <1>1, <1>3 DEF LimiterTypes, BucketInv, BucketRecord
    <2>2. Bucket(k) = b /\ Bucket(k)' = b
      BY <1>1, <1>3 DEF Bucket
    <2>3. Level(Bucket(k)) = Smaller(c, n + (now - u) * r)
      BY <2>1, <2>2 DEF Level
    <2>4. Level(Bucket(k))' = Smaller(c, n + (now + 1 - u) * r)
      <3>1. Level(Bucket(k))' = Smaller(b.capacity, b.tokens + (now' - b.updated) * b.rate)
        BY <2>2 DEF Level, Smaller
      <3> QED  BY <1>1, <2>1, <3>1
    <2>5. /\ (now + 1 - u) * r = (now - u) * r + r
          /\ (now - u) * r \in Int
      BY <1>1, <2>1
    <2> HIDE DEF b, u, n, r, c
    <2>6. /\ Smaller(c, n + (now + 1 - u) * r) <= Smaller(c, n + (now - u) * r) + r
          /\ Smaller(c, n + (now + 1 - u) * r) \in Int
          /\ Smaller(c, n + (now + 1 - u) * r) <= c
      BY <1>1, <2>1, <2>5 DEF Smaller
    <2> QED  BY <2>3, <2>4, <2>6 DEF r, c
  <1> QED  BY <1>2, <1>3

LEMMA LimiterTickStep ==
    ASSUME LimiterInv, Tick
    PROVE  LimiterInv'
  <1>t. /\ LimiterTypes /\ now \in Nat /\ Unit \in Nat /\ MaxNow \in Nat
        /\ now' = now + 1 /\ limits' = limits /\ buckets' = buckets /\ granted' = granted
        /\ granted \in [Key -> Nat] /\ before \in [Key -> [0 .. now -> Nat]]
    BY LimitAssumption DEF LimiterInv, LimiterTypes, Tick
  <1>1. before' = [k \in Key |-> [t \in 0 .. now + 1 |->
                      IF t = now + 1 THEN granted[k] ELSE before[k][t]]]
    BY <1>t DEF Tick
  <1>2. before' \in [Key -> [0 .. now + 1 -> Nat]]
    <2>1. \A k \in Key, t \in 0 .. now + 1 :
             (IF t = now + 1 THEN granted[k] ELSE before[k][t]) \in Nat
      BY <1>t
    <2> QED  BY <1>1, <2>1
  <1>3. LimiterTypes'
    <2>1. now' \in Nat /\ now' <= MaxNow
      BY <1>t DEF Tick
    <2>2. \A k \in Key : buckets'[k] # NoBucket => BucketInv(k)'
      <3> SUFFICES ASSUME NEW k \in Key, buckets[k] # NoBucket PROVE BucketInv(k)'
        BY <1>t
      <3>1. BucketInv(k) /\ buckets[k].updated \in Nat
        BY <1>t DEF LimiterTypes, BucketRecord
      <3> QED  BY <1>t, <3>1 DEF BucketInv
    <2> QED  BY <1>t, <1>2, <2>1, <2>2 DEF LimiterTypes
  <1>4. ASSUME NEW k \in Key, NEW t \in 0 .. now' PROVE Balance(k, t)'
    <2>1. /\ limits[k].capacity \in Nat /\ limits[k].rate \in Nat /\ granted[k] \in Nat
          /\ Level(Bucket(k)) \in Int
          /\ Level(Bucket(k))' \in Int /\ Level(Bucket(k))' <= limits[k].capacity
          /\ Level(Bucket(k))' <= Level(Bucket(k)) + limits[k].rate
      BY <1>t, LevelGrows, LevelFacts
    <2>2. CASE t = now + 1
      <3>1. before'[k][t] = granted[k]
        BY <1>1, <2>2, <1>t
      <3>2. granted[k] - granted[k] = 0 /\ now + 1 - t = 0
        BY <1>t, <2>1, <2>2
      <3>3. Unit * 0 = 0 /\ limits[k].rate * 0 = 0
        BY <1>t, <2>1
      <3>4. 0 + Level(Bucket(k))' <= limits[k].capacity + 0
        BY <2>1
      <3>5. Unit * (granted[k] - before'[k][t]) + Level(Bucket(k))'
               <= limits[k].capacity + limits[k].rate * (now + 1 - t)
        BY <3>1, <3>2, <3>3, <3>4
      <3> QED  BY <1>t, <3>5 DEF Balance
    <2>3. CASE t # now + 1
      <3>1. t \in 0 .. now
        BY <1>t, <2>3
      <3>2. before'[k][t] = before[k][t] /\ before[k][t] \in Nat
        BY <1>1, <1>t, <2>3, <3>1
      <3>3. /\ limits[k].rate * (now + 1 - t) = limits[k].rate * (now - t) + limits[k].rate
            /\ limits[k].rate * (now - t) \in Int
        <4>1. now - t \in Int /\ now + 1 - t = (now - t) + 1
          BY <1>t, <3>1
        <4>2. \A x, r \in Int : r * (x + 1) = r * x + r /\ r * x \in Int
          OBVIOUS
        <4> QED  BY <2>1, <4>1, <4>2
      <3>6. Unit * (granted[k] - before[k][t]) \in Int
        BY <1>t, <2>1, <3>2
      <3>4. Unit * (granted[k] - before[k][t]) + Level(Bucket(k))
               <= limits[k].capacity + limits[k].rate * (now - t)
        BY <3>1 DEF LimiterInv, Balance
      <3>5. Unit * (granted[k] - before[k][t]) + Level(Bucket(k))'
               <= limits[k].capacity + limits[k].rate * (now + 1 - t)
        BY <2>1, <3>3, <3>4, <3>6
      <3> QED  BY <1>t, <3>2, <3>5 DEF Balance
    <2> QED  BY <2>2, <2>3
  <1> QED  BY <1>3, <1>4 DEF LimiterInv

LEMMA LimiterInvStep == LimiterInv /\ [LimiterNext]_limiterVars => LimiterInv'
  <1> SUFFICES ASSUME LimiterInv, [LimiterNext]_limiterVars PROVE LimiterInv'
    OBVIOUS
  <1>1. CASE \E k \in Key : Allowed(k) \/ Limited(k)
    BY <1>1, RequestStep
  <1>2. CASE \E k \in Key, l \in Limit : Configure(k, l)
    BY <1>2, ConfigureStep
  <1>3. CASE Tick
    BY <1>3, LimiterTickStep
  <1>4. CASE UNCHANGED limiterVars
    <2>1. LimiterTypes'
      BY <1>4 DEF limiterVars, LimiterInv, LimiterTypes, BucketInv
    <2>2. ASSUME NEW k \in Key, NEW t \in 0 .. now PROVE Balance(k, t)'
      <3>1. Level(Bucket(k))' = Level(Bucket(k))
        BY <1>4 DEF limiterVars, Bucket, Level
      <3> QED  BY <1>4, <3>1 DEF limiterVars, LimiterInv, Balance
    <2> QED  BY <1>4, <2>1, <2>2 DEF limiterVars, LimiterInv
  <1> QED  BY <1>1, <1>2, <1>3, <1>4 DEF LimiterNext

\* The limiter's state is well formed: a bucket has the limit configured for
\* its client and never holds more than its capacity (TokenBucketLimiter).
THEOREM LimiterTypeCorrect == LimiterSpec => []LimiterTypeOK
  <1>1. LimiterInv => LimiterTypeOK
    BY TypesGiveTypeOK DEF LimiterInv
  <1> QED  BY <1>1, LimiterInvInit, LimiterInvStep, PTL DEF LimiterSpec

\* Whatever the limits and however requests are spread over the clients, no
\* client is let through more often in any span of time than its limit says
\* (TokenBucketLimiter.check and configure).
THEOREM RateBoundHolds == LimiterSpec => []RateBound
  <1>1. LimiterInv => RateBound
    <2> SUFFICES ASSUME LimiterInv, NEW k \in Key, NEW t \in 0 .. now
                 PROVE  Unit * (granted[k] - before[k][t])
                           <= limits[k].capacity + limits[k].rate * (now - t)
      BY DEF RateBound
    <2>1. /\ LimiterTypes /\ now \in Nat /\ Unit \in Nat
          /\ granted[k] \in Nat /\ before[k][t] \in Nat
      BY LimitAssumption DEF LimiterInv, LimiterTypes
    <2>2. /\ Level(Bucket(k)) \in Nat
          /\ limits[k].capacity \in Nat /\ limits[k].rate \in Nat
      BY <2>1, LevelFacts
    <2>3. /\ Unit * (granted[k] - before[k][t]) \in Int
          /\ limits[k].rate * (now - t) \in Int
      BY <2>1, <2>2
    <2> QED  BY <2>2, <2>3 DEF LimiterInv, Balance
  <1> QED  BY <1>1, LimiterInvInit, LimiterInvStep, PTL DEF LimiterSpec

-----------------------------------------------------------------------------
(* Session.                                                                *)

LoginRecord == [at : 0 .. clock, sub : 1 .. registered, scopes : SUBSET Scope]
TokenRecord == [typ : {"access", "refresh"}, sub : 1 .. registered,
                scopes : SUBSET Scope, exp : Nat, login : LoginRecord]

\* How long a token may still be good after the login it goes back to.
Reach(t) == IF t.typ = "refresh" THEN RefreshTtl ELSE RefreshTtl + AccessTtl

\* A token says of its login what was true then, and does not outlive it by
\* more than its lifetime and, for an access token, that of the refresh token.
TokenInv(t) == /\ t \in TokenRecord
               /\ t.sub = t.login.sub /\ t.scopes = t.login.scopes
               /\ t.exp <= t.login.at + Reach(t)

SessionTypes == /\ clock \in Nat /\ clock <= MaxClock
                /\ registered \in Nat /\ registered <= MaxUsers
                /\ users \in [Email -> [id : 1 .. registered, password : Password] \cup {NoUser}]
                /\ roleScopes \in SUBSET Scope

\* The inductive invariant.  What was admitted is good at the moment it is.
SessionInv == /\ SessionTypes
              /\ \A t \in tokens : TokenInv(t)
              /\ \A a \in admitted : /\ TokenInv(a.token) /\ Valid(a.token)
                                     /\ a.principal.id = a.token.sub
                                     /\ a.principal.scopes = a.token.scopes

\* Time that passes and accounts that are made leave a token as it is.
LEMMA TokenKept ==
    ASSUME SessionTypes, NEW t, TokenInv(t),
           clock' \in Nat, clock <= clock', registered' \in Nat, registered <= registered'
    PROVE  TokenInv(t)'
  <1>1. 0 .. clock \subseteq 0 .. clock' /\ 1 .. registered \subseteq 1 .. registered'
    BY DEF SessionTypes
  <1> DEFINE R(c, r) == [typ : {"access", "refresh"}, sub : r, scopes : SUBSET Scope, exp : Nat,
                         login : [at : c, sub : r, scopes : SUBSET Scope]]
  <1>2. \A c, d, r, q : c \subseteq d /\ r \subseteq q => R(c, r) \subseteq R(d, q)
    OBVIOUS
  <1>3. t \in R(0 .. clock, 1 .. registered)
    BY DEF TokenInv, TokenRecord, LoginRecord
  <1>4. t \in R(0 .. clock', 1 .. registered')
    BY <1>1, <1>2, <1>3
  <1>5. t \in TokenRecord'
    BY <1>4 DEF TokenRecord, LoginRecord
  <1> QED  BY <1>5 DEF TokenInv, Reach

\* A login makes one token of each type.
LEMMA LoginTokens ==
    ASSUME SessionTypes, NEW id \in 1 .. registered
    PROVE  LET login == [at |-> clock, sub |-> id, scopes |-> roleScopes]
           IN  /\ TokenInv(Token("access", id, roleScopes, AccessTtl, login))
               /\ TokenInv(Token("refresh", id, roleScopes, RefreshTtl, login))
  <1> DEFINE login == [at |-> clock, sub |-> id, scopes |-> roleScopes]
  <1>1. /\ login \in LoginRecord /\ login.at = clock /\ login.sub = id
        /\ login.scopes = roleScopes /\ roleScopes \in SUBSET Scope
        /\ clock \in Nat
    BY DEF SessionTypes, LoginRecord
  <1>2. AccessTtl \in Nat /\ RefreshTtl \in Nat
    BY SessionAssumption
  <1> HIDE DEF login
  <1>3. TokenInv(Token("access", id, roleScopes, AccessTtl, login))
    BY <1>1, <1>2 DEF Token, TokenInv, TokenRecord, Reach
  <1>4. TokenInv(Token("refresh", id, roleScopes, RefreshTtl, login))
    BY <1>1, <1>2 DEF Token, TokenInv, TokenRecord, Reach
  <1> QED  BY <1>3, <1>4 DEF login

\* A refresh makes an access token of the login the refresh token goes back to.
LEMMA RefreshedToken ==
    ASSUME SessionTypes, NEW t, TokenInv(t), t.typ = "refresh", Valid(t)
    PROVE  TokenInv(Token("access", t.sub, t.scopes, AccessTtl, t.login))
  <1>1. /\ AccessTtl \in Nat /\ RefreshTtl \in Nat /\ clock \in Nat
        /\ t.exp \in Nat /\ t.login.at \in Nat
    BY SessionAssumption DEF SessionTypes, TokenInv, TokenRecord, LoginRecord
  <1>2. clock + AccessTtl <= t.login.at + (RefreshTtl + AccessTtl)
    BY <1>1 DEF Valid, TokenInv, Reach
  <1>3. clock + AccessTtl \in Nat
    BY <1>1
  <1> DEFINE n == Token("access", t.sub, t.scopes, AccessTtl, t.login)
  <1>4. n \in TokenRecord
    BY <1>3 DEF Token, TokenInv, TokenRecord
  <1>5. n.sub = n.login.sub /\ n.scopes = n.login.scopes
        /\ n.exp = clock + AccessTtl /\ n.login = t.login /\ Reach(n) = RefreshTtl + AccessTtl
    BY DEF Token, TokenInv, Reach
  <1> QED  BY <1>2, <1>4, <1>5 DEF TokenInv

LEMMA SessionInvStep == SessionInv /\ [SessionNext]_sessionVars => SessionInv'
  <1> SUFFICES ASSUME SessionInv, [SessionNext]_sessionVars PROVE SessionInv'
    OBVIOUS
  <1>t. /\ SessionTypes /\ clock \in Nat /\ registered \in Nat /\ MaxClock \in Nat
        /\ MaxUsers \in Nat /\ \A t \in tokens : TokenInv(t)
    BY SessionAssumption DEF SessionInv, SessionTypes
  <1>k. ASSUME clock' = clock, registered' = registered, NEW t, TokenInv(t)
        PROVE  TokenInv(t)'
    BY <1>t, <1>k, TokenKept
  <1>1. ASSUME NEW e \in Email, NEW pw \in Password, Register(e, pw)
        PROVE  SessionInv'
    <2>1. /\ registered' = registered + 1 /\ clock' = clock /\ roleScopes' = roleScopes
          /\ tokens' = tokens /\ admitted' = {} /\ registered' <= MaxUsers
      BY <1>1, <1>t DEF Register
    <2>2. 1 .. registered \subseteq 1 .. registered' /\ registered' \in 1 .. registered'
      BY <1>t, <2>1
    <2>3. users' \in [Email -> [id : 1 .. registered', password : Password] \cup {NoUser}]
      BY <1>1, <1>t, <2>2 DEF Register, SessionTypes
    <2>4. \A t \in tokens' : TokenInv(t)'
      BY <1>t, <2>1, TokenKept
    <2> QED  BY <1>t, <2>1, <2>3, <2>4 DEF SessionInv, SessionTypes
  <1>2. ASSUME NEW e \in Email, NEW pw \in Password, Login(e, pw)
        PROVE  SessionInv'
    <2> DEFINE id == users[e].id
               login == [at |-> clock, sub |-> id, scopes |-> roleScopes]
    <2>1. id \in 1 .. registered
      BY <1>2, <1>t DEF Login, SessionTypes
    <2>2. /\ tokens' = tokens \cup {Token("access", id, roleScopes, AccessTtl, login),
                                    Token("refresh", id, roleScopes, RefreshTtl, login)}
          /\ admitted' = {} /\ UNCHANGED <<clock, users, registered, roleScopes>>
      BY <1>2 DEF Login, Circulate
    <2>3. \A t \in tokens' : TokenInv(t)
      BY <1>t, <2>1, <2>2, LoginTokens
    <2>4. SessionTypes'
      BY <1>t, <2>2 DEF SessionTypes
    <2> QED  BY <1>k, <2>2, <2>3, <2>4 DEF SessionInv
  <1>3. ASSUME NEW t \in tokens, Refresh(t) PROVE SessionInv'
    <2>1. /\ tokens' = tokens \cup {Token("access", t.sub, t.scopes, AccessTtl, t.login)}
          /\ admitted' = {} /\ UNCHANGED <<clock, users, registered, roleScopes>>
          /\ Valid(t) /\ t.typ = "refresh"
      BY <1>3 DEF Refresh, Circulate
    <2>2. \A u \in tokens' : TokenInv(u)
      BY <1>t, <2>1, RefreshedToken
    <2>3. SessionTypes'
      BY <1>t, <2>1 DEF SessionTypes
    <2> QED  BY <1>k, <2>1, <2>2, <2>3 DEF SessionInv
  <1>4. ASSUME NEW t \in tokens, Admit(t) PROVE SessionInv'
    <2>1. /\ admitted' = {[token |-> t, principal |-> [id |-> t.sub, scopes |-> t.scopes]]}
          /\ Valid(t)
          /\ UNCHANGED <<clock, users, registered, roleScopes, tokens>>
      BY <1>4 DEF Admit, VerifyAccess
    <2>2. SessionTypes' /\ \A u \in tokens' : TokenInv(u)'
      BY <1>k, <1>t, <2>1 DEF SessionTypes
    <2>3. \A a \in admitted' : /\ TokenInv(a.token)' /\ Valid(a.token)'
                              /\ a.principal.id = a.token.sub
                              /\ a.principal.scopes = a.token.scopes
      <3>1. TokenInv(t)' /\ Valid(t)'
        BY <1>k, <1>t, <2>1 DEF Valid
      <3> QED  BY <2>1, <3>1
    <2> QED  BY <2>2, <2>3 DEF SessionInv
  <1>5. ASSUME NEW S \in SUBSET Scope, SetScopes(S) PROVE SessionInv'
    BY <1>k, <1>t, <1>5 DEF SetScopes, SessionInv, SessionTypes
  <1>6. CASE Replaced
    BY <1>k, <1>t, <1>6 DEF Replaced, SessionInv, SessionTypes
  <1>7. CASE Later
    <2>1. /\ clock' = clock + 1 /\ clock' <= MaxClock /\ admitted' = {}
          /\ tokens' \subseteq tokens /\ UNCHANGED <<users, registered, roleScopes>>
      BY <1>7, <1>t DEF Later
    <2>2. \A t \in tokens' : TokenInv(t)'
      BY <1>t, <2>1, TokenKept
    <2>3. SessionTypes'
      BY <1>t, <2>1 DEF SessionTypes
    <2> QED  BY <2>1, <2>2, <2>3 DEF SessionInv
  <1>8. CASE UNCHANGED sessionVars
    BY <1>k, <1>t, <1>8 DEF sessionVars, SessionInv, SessionTypes, Valid
  <1> QED  BY <1>1, <1>2, <1>3, <1>4, <1>5, <1>6, <1>7, <1>8 DEF SessionNext

LEMMA SessionInvInit == SessionInit => SessionInv
  BY SessionAssumption DEF SessionInit, SessionInv, SessionTypes

\* The state of the authentication service is well formed: users and tokens
\* carry identities that have been given out (AuthService and JwtService).
THEOREM SessionTypeCorrect == SessionSpec => []SessionTypeOK
  <1>1. SessionInv => SessionTypeOK
    <2> SUFFICES ASSUME SessionInv PROVE SessionTypeOK
      OBVIOUS
    <2>1. clock \in 0 .. MaxClock /\ registered \in 0 .. MaxUsers
      BY SessionAssumption DEF SessionInv, SessionTypes
    <2>2. \A t \in tokens : t.typ \in {"access", "refresh"} /\ t.sub \in 1 .. registered
      BY DEF SessionInv, TokenInv, TokenRecord
    <2> QED  BY <2>1, <2>2 DEF SessionInv, SessionTypes, SessionTypeOK
  <1> QED  BY <1>1, SessionInvInit, SessionInvStep, PTL DEF SessionSpec

\* Whatever the lifetimes, whoever is admitted has logged in at most a refresh
\* and an access lifetime ago, and is admitted as that user with the scopes of
\* that login, through refreshes, revocations and restarts (AuthService,
\* JwtService.verify and get_principal).
THEOREM SessionBoundHolds == SessionSpec => []SessionBound
  <1>1. SessionInv => SessionBound
    <2> SUFFICES ASSUME SessionInv, NEW a \in admitted
                 PROVE  /\ clock - a.token.login.at <= RefreshTtl + AccessTtl
                        /\ a.principal.id = a.token.login.sub
                        /\ a.principal.scopes = a.token.login.scopes
      BY DEF SessionBound
    <2>1. /\ TokenInv(a.token) /\ Valid(a.token)
          /\ a.principal.id = a.token.sub /\ a.principal.scopes = a.token.scopes
      BY DEF SessionInv
    <2>2. /\ AccessTtl \in Nat /\ RefreshTtl \in Nat /\ clock \in Nat
          /\ a.token.exp \in Nat /\ a.token.login.at \in Nat
      BY <2>1, SessionAssumption DEF SessionInv, SessionTypes, TokenInv, TokenRecord, LoginRecord
    <2>3. a.token.exp <= a.token.login.at + (RefreshTtl + AccessTtl)
      BY <2>1, <2>2 DEF TokenInv, Reach
    <2> QED  BY <2>1, <2>2, <2>3 DEF Valid, TokenInv
  <1> QED  BY <1>1, SessionInvInit, SessionInvStep, PTL DEF SessionSpec


-----------------------------------------------------------------------------
(* Planner: numbers in increasing order.                                   *)

UpTo(D, p) == {q \in D : q <= p}

\* A sequence of N numbers that goes up counts what it lists.
LEMMA RisingCounts ==
    ASSUME NEW N \in Nat, NEW st \in [1 .. N -> Nat],
           \A m, n \in 1 .. N : m < n => st[m] < st[n]
    PROVE  LET S == {st[n] : n \in 1 .. N}
           IN  /\ IsFiniteSet(S) /\ Cardinality(S) = N
               /\ \A n \in 1 .. N : Cardinality(UpTo(S, st[n])) = n
  <1> DEFINE S == {st[n] : n \in 1 .. N}
  <1>1. ASSUME NEW k \in 0 .. N
        PROVE  LET R == {st[n] : n \in 1 .. k} IN IsFiniteSet(R) /\ Cardinality(R) = k
    <2> DEFINE R == {st[n] : n \in 1 .. k}
               f == [n \in 1 .. k |-> st[n]]
    <2>1. IsFiniteSet(1 .. k) /\ Cardinality(1 .. k) = k
      BY <1>1, FS_Interval
    <2>2. \A m, n \in 1 .. k : m # n => st[m] # st[n]
      <3> SUFFICES ASSUME NEW m \in 1 .. k, NEW n \in 1 .. k, m < n PROVE st[m] < st[n] /\ st[m] \in Nat /\ st[n] \in Nat
        OBVIOUS
      <3> QED OBVIOUS
    <2>3. f \in Bijection(1 .. k, R)
      BY <2>2 DEF Bijection, Injection, Surjection, IsInjective
    <2>4. ExistsBijection(1 .. k, R)
      BY <2>3 DEF ExistsBijection
    <2> QED BY <2>1, <2>4, FS_Bijection
  <1>2. ASSUME NEW n \in 1 .. N PROVE UpTo(S, st[n]) = {st[m] : m \in 1 .. n}
    <2>1. \A m \in 1 .. N : st[m] <= st[n] <=> m <= n
      <3> SUFFICES ASSUME NEW m \in 1 .. N PROVE st[m] <= st[n] <=> m <= n
        OBVIOUS
      <3>1. st[m] \in Nat /\ st[n] \in Nat
        BY <1>2
      <3> QED BY <1>2, <3>1
    <2> QED BY <1>2, <2>1 DEF UpTo
  <1>3. \A n \in 1 .. N : n \in 0 .. N
    OBVIOUS
  <1>4. N \in 0 .. N
    OBVIOUS
  <1> QED BY <1>1, <1>2, <1>3, <1>4

\* The n-th smallest of a set of numbers: they go up, and are all of them.
LEMMA NthFacts ==
    ASSUME NEW D \in SUBSET Nat, IsFiniteSet(D)
    PROVE  /\ Cardinality(D) \in Nat
           /\ \A n \in 1 .. Cardinality(D) : Nth(D, n) \in D
           /\ \A m, n \in 1 .. Cardinality(D) : m < n => Nth(D, m) < Nth(D, n)
           /\ \A p \in D : \E n \in 1 .. Cardinality(D) : Nth(D, n) = p
  <1> DEFINE C == Cardinality(D)
             rank == [p \in D |-> Cardinality(UpTo(D, p))]
             R == {rank[p] : p \in D}
  <1>0. C \in Nat
    BY FS_CardinalityType
  <1>1. \A p \in D : /\ IsFiniteSet(UpTo(D, p)) /\ rank[p] \in 1 .. C
    <2> SUFFICES ASSUME NEW p \in D PROVE IsFiniteSet(UpTo(D, p)) /\ rank[p] \in 1 .. C
      OBVIOUS
    <2>1. UpTo(D, p) \in SUBSET D /\ p \in UpTo(D, p)
      BY DEF UpTo
    <2>2. IsFiniteSet(UpTo(D, p)) /\ Cardinality(UpTo(D, p)) <= C
      BY <2>1, FS_Subset
    <2>3. Cardinality(UpTo(D, p)) \in Nat /\ Cardinality(UpTo(D, p)) # 0
      BY <2>1, <2>2, FS_CardinalityType, FS_EmptySet
    <2> QED BY <1>0, <2>2, <2>3
  <1>2. \A p, q \in D : p < q => rank[p] < rank[q]
    <2> SUFFICES ASSUME NEW p \in D, NEW q \in D, p < q PROVE rank[p] < rank[q]
      OBVIOUS
    <2>0. p \in Nat /\ q \in Nat /\ ~ q <= p /\ q <= q /\ \A r \in D : r <= p => r <= q
      OBVIOUS
    <2>1. UpTo(D, p) \in SUBSET UpTo(D, q) /\ q \in UpTo(D, q) /\ q \notin UpTo(D, p)
      BY <2>0 DEF UpTo
    <2>2. rank[p] <= rank[q] /\ rank[p] # rank[q]
      BY <1>1, <2>1, FS_Subset
    <2> QED BY <1>0, <1>1, <2>2
  <1>3. R = 1 .. C
    <2>1. \A p, q \in D : p # q => rank[p] # rank[q]
      <3> SUFFICES ASSUME NEW p \in D, NEW q \in D, p # q PROVE rank[p] # rank[q]
        OBVIOUS
      <3>1. p < q \/ q < p
        OBVIOUS
      <3>2. rank[p] \in Nat /\ rank[q] \in Nat
        BY <1>0, <1>1
      <3> HIDE DEF rank
      <3> QED BY <1>2, <3>1, <3>2
    <2>2. rank \in Bijection(D, R)
      BY <2>1 DEF Bijection, Injection, Surjection, IsInjective
    <2>3. Cardinality(R) = C
      BY <2>2, FS_Bijection DEF ExistsBijection
    <2>4. R \in SUBSET (1 .. C)
      BY <1>1
    <2>5. IsFiniteSet(1 .. C) /\ Cardinality(1 .. C) = C
      BY <1>0, FS_Interval
    <2> HIDE DEF R, C
    <2> QED BY <2>3, <2>4, <2>5, FS_Subset
  <1>4. ASSUME NEW n \in 1 .. C PROVE Nth(D, n) \in D /\ rank[Nth(D, n)] = n
    <2>1. PICK p \in D : rank[p] = n
      BY <1>3, <1>4
    <2>2. \A q \in D : rank[q] = Cardinality({r \in D : r <= q})
      BY DEF UpTo
    <2> HIDE DEF rank
    <2>3. Nth(D, n) \in D /\ Cardinality({q \in D : q <= Nth(D, n)}) = n
      BY <2>1, <2>2 DEF Nth
    <2> QED BY <2>2, <2>3
  <1>5. ASSUME NEW p \in D PROVE Nth(D, rank[p]) = p /\ rank[p] \in 1 .. C
    <2>1. rank[p] \in 1 .. C
      BY <1>1
    <2>2. Nth(D, rank[p]) \in D /\ rank[Nth(D, rank[p])] = rank[p]
      BY <1>4, <2>1
    <2>3. \A q \in D : rank[q] \in Nat
      BY <1>0, <1>1
    <2> HIDE DEF rank
    <2>4. Nth(D, rank[p]) \in Nat /\ p \in Nat
      BY <2>2
    <2> QED BY <1>2, <2>1, <2>2, <2>3, <2>4
  <1>6. ASSUME NEW m \in 1 .. C, NEW n \in 1 .. C, m < n PROVE Nth(D, m) < Nth(D, n)
    <2>1. /\ Nth(D, m) \in D /\ rank[Nth(D, m)] = m
          /\ Nth(D, n) \in D /\ rank[Nth(D, n)] = n
      BY <1>4
    <2> HIDE DEF rank
    <2>2. Nth(D, m) \in Nat /\ Nth(D, n) \in Nat
      BY <2>1
    <2> QED BY <1>2, <1>6, <2>1, <2>2
  <1> HIDE DEF rank
  <1> QED BY <1>0, <1>4, <1>5, <1>6

-----------------------------------------------------------------------------
(* Planner: splitting.                                                     *)

\* Where a sequence is cut into G parts: before it, at each separator, and behind it.
Cuts(s, separator, G, cut) ==
    /\ G \in Nat \ {0} /\ cut \in [0 .. G -> 0 .. Len(s) + 1]
    /\ cut[0] = 0 /\ cut[G] = Len(s) + 1
    /\ \A i, j \in 0 .. G : i < j => cut[i] < cut[j]
    /\ \A i \in 1 .. G - 1 : cut[i] \in DOMAIN s /\ s[cut[i]] = separator
    /\ \A p \in DOMAIN s : s[p] = separator => \E i \in 1 .. G - 1 : cut[i] = p

LEMMA CutNumbers ==
    ASSUME NEW X, NEW s \in Seq(X), NEW separator, NEW G, NEW cut, Cuts(s, separator, G, cut)
    PROVE  /\ \A i \in 0 .. G : cut[i] \in Nat /\ cut[i] <= Len(s) + 1
           /\ \A i \in 1 .. G : /\ i - 1 \in 0 .. G /\ i \in 0 .. G
                                /\ cut[i - 1] \in Nat /\ cut[i] \in Nat
           /\ \A p \in DOMAIN s : p \in Nat
  <1>1. G \in Nat /\ cut \in [0 .. G -> 0 .. Len(s) + 1] /\ Len(s) \in Nat
    BY DEF Cuts
  <1>2. \A i \in 0 .. G : cut[i] \in Nat /\ cut[i] <= Len(s) + 1
    BY <1>1
  <1>3. \A i \in 1 .. G : i - 1 \in 0 .. G /\ i \in 0 .. G
    BY <1>1
  <1>4. DOMAIN s = 1 .. Len(s)
    OBVIOUS
  <1> QED BY <1>2, <1>3, <1>4

\* A position stands at one of the cuts or between two of them.
LEMMA BetweenCuts ==
    ASSUME NEW X, NEW s \in Seq(X), NEW separator, NEW G, NEW cut, Cuts(s, separator, G, cut)
    PROVE  /\ \A i \in 1 .. G, p \in DOMAIN s :
                 cut[i - 1] < p /\ p < cut[i] => s[p] # separator
           /\ \A p \in DOMAIN s : s[p] # separator =>
                 \E i \in 1 .. G : cut[i - 1] < p /\ p < cut[i]
  <1>1. /\ G \in Nat \ {0} /\ \A i \in 0 .. G : cut[i] \in Nat
        /\ \A i, j \in 0 .. G : i < j => cut[i] < cut[j]
        /\ Len(s) \in Nat /\ DOMAIN s = 1 .. Len(s)
    BY DEF Cuts
  <1>2. ASSUME NEW i \in 1 .. G, NEW p \in DOMAIN s, cut[i - 1] < p, p < cut[i],
               s[p] = separator
        PROVE  FALSE
    <2>1. PICK j \in 1 .. G - 1 : cut[j] = p
      BY <1>2 DEF Cuts
    <2>2. i - 1 \in 0 .. G /\ i \in 0 .. G /\ j \in 0 .. G
      BY <1>1, <2>1
    <2>3. cut[i - 1] \in Nat /\ cut[i] \in Nat /\ cut[j] \in Nat
      BY <1>1, <2>2
    <2>4. j < i - 1 \/ j = i - 1 \/ i = j \/ i < j
      BY <2>2
    <2> QED BY <1>1, <1>2, <2>1, <2>2, <2>3, <2>4
  <1>3. ASSUME NEW p \in DOMAIN s, s[p] # separator
        PROVE  \E i \in 1 .. G : cut[i - 1] < p /\ p < cut[i]
    <2> DEFINE T == {i \in 0 .. G : p < cut[i]}
    <2>1. G \in T /\ 0 \notin T /\ T \in SUBSET Nat
      BY <1>1 DEF Cuts
    <2>2. PICK i \in T : \A m \in T : i <= m
      BY <2>1, SmallestOf
    <2>3. i \in 1 .. G /\ i - 1 \in 0 .. G /\ i - 1 \notin T
      BY <1>1, <2>1, <2>2
    <2>4. cut[i - 1] <= p
      BY <1>1, <2>3
    <2>5. cut[i - 1] # p
      <3>1. CASE i = 1
        BY <3>1, <1>1 DEF Cuts
      <3>2. CASE i # 1
        <4>1. i - 1 \in 1 .. G - 1
          BY <1>1, <2>3, <3>2
        <4> QED BY <1>3, <4>1 DEF Cuts
      <3> QED BY <3>1, <3>2
    <2>6. cut[i - 1] \in Nat /\ p \in Nat
      BY <1>1, <2>3
    <2> QED BY <2>2, <2>3, <2>4, <2>5, <2>6
  <1> QED BY <1>2, <1>3

\* The parts are what lies between the cuts.
PartsOf(s, separator, G, cut) ==
    /\ Cuts(s, separator, G, cut)
    /\ Split(s, separator) = [i \in 1 .. G |-> SubSeq(s, cut[i - 1] + 1, cut[i] - 1)]

LEMMA SplitFacts ==
    ASSUME NEW X, NEW s \in Seq(X), NEW separator
    PROVE  \E G, cut : PartsOf(s, separator, G, cut)
  <1> DEFINE ends == {p \in DOMAIN s : s[p] = separator} \cup {0, Len(s) + 1}
             C == Cardinality(ends)
             G == C - 1
             cut == [i \in 0 .. G |-> Nth(ends, i + 1)]
  <1>1. Len(s) \in Nat /\ DOMAIN s = 1 .. Len(s)
    OBVIOUS
  <1>2. ends \in SUBSET (0 .. Len(s) + 1) /\ 0 \in ends /\ Len(s) + 1 \in ends
    BY <1>1
  <1>3. IsFiniteSet(ends)
    <2>1. IsFiniteSet(0 .. Len(s) + 1)
      BY <1>1, FS_Interval
    <2> QED BY <1>2, <2>1, FS_Subset
  <1>4. Split(s, separator) = [n \in 1 .. C - 1 |-> SubSeq(s, Nth(ends, n) + 1, Nth(ends, n + 1) - 1)]
    BY DEF Split
  <1>5. \A p \in DOMAIN s : p \in ends <=> s[p] = separator
    BY <1>1
  <1>6. \A p \in ends : p \in DOMAIN s \/ p = 0 \/ p = Len(s) + 1
    BY <1>1
  <1> HIDE DEF ends
  <1>7. ends \in SUBSET Nat
    BY <1>1, <1>2
  <1>8. /\ C \in Nat
        /\ \A n \in 1 .. C : Nth(ends, n) \in ends
        /\ \A m, n \in 1 .. C : m < n => Nth(ends, m) < Nth(ends, n)
        /\ \A p \in ends : \E n \in 1 .. C : Nth(ends, n) = p
    BY <1>3, <1>7, NthFacts
  <1> HIDE DEF C
  <1>9. PICK first \in 1 .. C, last \in 1 .. C : Nth(ends, first) = 0 /\ Nth(ends, last) = Len(s) + 1
    BY <1>2, <1>8
  <1>10. first = 1 /\ last = C /\ C > 1
    <2>1. \A n \in 1 .. C : Nth(ends, n) \in 0 .. Len(s) + 1
      BY <1>2, <1>8
    <2>2. 1 \in 1 .. C /\ C \in 1 .. C
      BY <1>8, <1>9
    <2>3. ~ 1 < first
      BY <1>1, <1>8, <1>9, <2>1, <2>2
    <2>4. ~ last < C
      BY <1>1, <1>8, <1>9, <2>1, <2>2
    <2> QED BY <1>1, <1>8, <1>9, <2>3, <2>4
  <1>11. G \in Nat \ {0} /\ \A i \in 0 .. G : i + 1 \in 1 .. C /\ cut[i] = Nth(ends, i + 1)
    BY <1>8, <1>10
  <1>12. cut \in [0 .. G -> 0 .. Len(s) + 1]
    BY <1>2, <1>8, <1>11
  <1>13. cut[0] = 0 /\ cut[G] = Len(s) + 1
    <2>1. 0 \in 0 .. G /\ G \in 0 .. G /\ G + 1 = C
      BY <1>8, <1>11
    <2> HIDE DEF cut, G
    <2> QED BY <1>9, <1>10, <1>11, <2>1
  <1>14. \A i, j \in 0 .. G : i < j => cut[i] < cut[j]
    <2> SUFFICES ASSUME NEW i \in 0 .. G, NEW j \in 0 .. G, i < j PROVE cut[i] < cut[j]
      OBVIOUS
    <2>1. i + 1 < j + 1 /\ i + 1 \in 1 .. C /\ j + 1 \in 1 .. C
      BY <1>11
    <2> HIDE DEF cut, G
    <2> QED BY <1>8, <1>11, <2>1
  <1>15. \A i \in 1 .. G - 1 : cut[i] \in DOMAIN s /\ s[cut[i]] = separator
    <2> SUFFICES ASSUME NEW i \in 1 .. G - 1 PROVE cut[i] \in DOMAIN s /\ s[cut[i]] = separator
      OBVIOUS
    <2>1. 0 < i /\ i < G /\ 0 \in 0 .. G /\ G \in 0 .. G /\ i \in 0 .. G
      BY <1>11
    <2>2. cut[i] \in ends
      BY <1>8, <1>11, <2>1
    <2> HIDE DEF cut, G
    <2>3. 0 < cut[i] /\ cut[i] < Len(s) + 1
      BY <1>13, <1>14, <2>1
    <2>4. cut[i] \in DOMAIN s
      BY <1>1, <1>6, <2>2, <2>3
    <2> QED BY <1>5, <2>2, <2>4
  <1>16. \A p \in DOMAIN s : s[p] = separator => \E i \in 1 .. G - 1 : cut[i] = p
    <2> SUFFICES ASSUME NEW p \in DOMAIN s, s[p] = separator PROVE \E i \in 1 .. G - 1 : cut[i] = p
      OBVIOUS
    <2>1. PICK n \in 1 .. C : Nth(ends, n) = p
      BY <1>5, <1>8
    <2>2. n # 1 /\ n # C
      BY <1>1, <1>9, <1>10, <2>1
    <2>3. n - 1 \in 1 .. G - 1 /\ n - 1 \in 0 .. G /\ (n - 1) + 1 = n
      BY <1>8, <2>2
    <2>4. cut[n - 1] = p
      BY <1>11, <2>1, <2>3
    <2> QED BY <2>3, <2>4
  <1>17. Split(s, separator) = [i \in 1 .. G |-> SubSeq(s, cut[i - 1] + 1, cut[i] - 1)]
    <2>1. \A i \in 1 .. G : cut[i - 1] = Nth(ends, i) /\ cut[i] = Nth(ends, i + 1)
      <3> SUFFICES ASSUME NEW i \in 1 .. G
                   PROVE  cut[i - 1] = Nth(ends, i) /\ cut[i] = Nth(ends, i + 1)
        OBVIOUS
      <3>1. i - 1 \in 0 .. G /\ i \in 0 .. G /\ (i - 1) + 1 = i
        BY <1>11
      <3> HIDE DEF cut, G
      <3> QED BY <1>11, <3>1
    <2> HIDE DEF cut
    <2> QED BY <1>4, <2>1
  <1>18. Cuts(s, separator, G, cut)
    <2> HIDE DEF cut, G
    <2> QED BY <1>11, <1>12, <1>13, <1>14, <1>15, <1>16 DEF Cuts
  <1>19. PartsOf(s, separator, G, cut)
    BY <1>17, <1>18 DEF PartsOf
  <1> QED BY <1>19

\* Where the clauses of a group begin, seen from the group.
Starts(g) ==
    {p \in DOMAIN g : g[p] # "and" /\ (p = 1 \/ g[p - 1] = "and")}
        \cup IF \E p \in DOMAIN g : g[p] # "and" THEN {} ELSE {1}

\* The N clauses c of a group begin where they should, in order.
ClausesAt(g, N, c, st) ==
    /\ N \in Nat \ {0}
    /\ Clauses(g) = [n \in 1 .. N |-> c[n]]
    /\ st \in [1 .. N -> DOMAIN g]
    /\ \A m, n \in 1 .. N : m < n => st[m] < st[n]
    /\ {st[n] : n \in 1 .. N} = Starts(g)
    /\ \A n \in 1 .. N : Head(c[n]) = g[st[n]]

LEMMA ClauseFacts ==
    ASSUME NEW X, NEW g \in Seq(X), g # <<>>
    PROVE  \E N, c, st : ClausesAt(g, N, c, st)
  <1>0. Len(g) \in Nat \ {0} /\ DOMAIN g = 1 .. Len(g)
    BY EmptySeq
  <1>p. PICK G, cut : PartsOf(g, "and", G, cut)
    BY SplitFacts
  <1>1. /\ Cuts(g, "and", G, cut)
        /\ Split(g, "and") = [i \in 1 .. G |-> SubSeq(g, cut[i - 1] + 1, cut[i] - 1)]
    BY <1>p DEF PartsOf
  <1>2. /\ G \in Nat \ {0} /\ \A i \in 0 .. G : cut[i] \in 0 .. Len(g) + 1 /\ cut[i] \in Nat
        /\ \A i, j \in 0 .. G : i < j => cut[i] < cut[j]
        /\ cut[0] = 0
    <2>1. /\ G \in Nat \ {0} /\ cut \in [0 .. G -> 0 .. Len(g) + 1]
          /\ \A i, j \in 0 .. G : i < j => cut[i] < cut[j]
          /\ cut[0] = 0
      BY <1>1 DEF Cuts
    <2> QED BY <1>0, <2>1
  <1> DEFINE parts == Split(g, "and")
             said == {n \in DOMAIN parts : parts[n] # <<>>}
             c == [n \in 1 .. Cardinality(said) |-> parts[Nth(said, n)]]
             st == [n \in 1 .. Cardinality(said) |-> cut[Nth(said, n) - 1] + 1]
  <1>3. DOMAIN parts = 1 .. G /\ \A i \in 1 .. G : parts[i] = SubSeq(g, cut[i - 1] + 1, cut[i] - 1)
    BY <1>1
  <1>4. Clauses(g) = IF said = {} THEN <<g>> ELSE c
    BY DEF Clauses
  <1>5. \A i \in 1 .. G : i - 1 \in 0 .. G /\ i \in 0 .. G /\ cut[i - 1] < cut[i]
    BY <1>2
  <1> HIDE DEF parts
  <1>6. \A i \in 1 .. G : i \in said <=> cut[i - 1] + 1 < cut[i]
    <2> SUFFICES ASSUME NEW i \in 1 .. G PROVE i \in said <=> cut[i - 1] + 1 < cut[i]
      OBVIOUS
    <2>1. cut[i - 1] \in 0 .. Len(g) + 1 /\ cut[i] \in 0 .. Len(g) + 1 /\ cut[i - 1] < cut[i]
      BY <1>2, <1>5
    <2>2. \A p \in cut[i - 1] + 1 .. cut[i] - 1 : g[p] \in X
      BY <1>0, <2>1
    <2> DEFINE a == cut[i - 1] + 1
               b == cut[i] - 1
    <2>a. a \in Int /\ b \in Int
      BY <2>1
    <2> HIDE DEF a, b
    <2>b. \A p \in a .. b : g[p] \in X
      BY <2>2 DEF a, b
    <2>c. /\ SubSeq(g, a, b) \in Seq(X)
          /\ Len(SubSeq(g, a, b)) = IF a <= b THEN b - a + 1 ELSE 0
      BY <2>a, <2>b, SubSeqProperties
    <2>3. Len(parts[i]) = IF a <= b THEN b - a + 1 ELSE 0
      BY <1>3, <2>c DEF a, b
    <2>4. parts[i] \in Seq(X)
      BY <1>3, <2>c DEF a, b
    <2>5. parts[i] # <<>> <=> Len(parts[i]) # 0
      BY <2>4, EmptySeq
    <2> QED BY <1>3, <2>1, <2>3, <2>5 DEF a, b
  <1>7. said \in SUBSET (1 .. G) /\ said \in SUBSET Nat /\ IsFiniteSet(said)
    <2>1. said \in SUBSET (1 .. G)
      BY <1>3
    <2>2. IsFiniteSet(1 .. G)
      BY <1>2, FS_Interval
    <2> QED BY <1>2, <2>1, <2>2, FS_Subset
  <1>8. /\ \A i \in 1 .. G, p \in DOMAIN g : cut[i - 1] < p /\ p < cut[i] => g[p] # "and"
        /\ \A p \in DOMAIN g : g[p] # "and" => \E i \in 1 .. G : cut[i - 1] < p /\ p < cut[i]
    BY <1>1, BetweenCuts
  <1>9. CASE said = {}
    <2>1. \A p \in DOMAIN g : g[p] = "and"
      <3> SUFFICES ASSUME NEW p \in DOMAIN g, g[p] # "and" PROVE FALSE
        OBVIOUS
      <3>1. PICK i \in 1 .. G : cut[i - 1] < p /\ p < cut[i]
        BY <1>8
      <3>2. cut[i - 1] \in Nat /\ cut[i] \in Nat /\ p \in Nat
        BY <1>0, <1>2, <1>5
      <3> QED BY <1>6, <1>9, <3>1, <3>2
    <2> DEFINE d == [n \in 1 .. 1 |-> g]
               at == [n \in 1 .. 1 |-> 1]
    <2>2. Clauses(g) = [n \in 1 .. 1 |-> d[n]]
      BY <1>4, <1>9
    <2>3. Starts(g) = {1} /\ 1 \in DOMAIN g
      BY <1>0, <2>1 DEF Starts
    <2>4. {at[n] : n \in 1 .. 1} = {1} /\ at \in [1 .. 1 -> DOMAIN g]
      BY <2>3
    <2>5. \A n \in 1 .. 1 : Head(d[n]) = g[at[n]]
      BY <1>0
    <2>6. \A m, n \in 1 .. 1 : m < n => at[m] < at[n]
      OBVIOUS
    <2>7. 1 \in Nat \ {0}
      OBVIOUS
    <2> HIDE DEF d, at
    <2>8. ClausesAt(g, 1, d, at)
      BY <2>2, <2>3, <2>4, <2>5, <2>6, <2>7 DEF ClausesAt
    <2> QED BY <2>8
  <1>10. CASE said # {}
    <2> DEFINE N == Cardinality(said)
    <2>1. /\ N \in Nat
          /\ \A n \in 1 .. N : Nth(said, n) \in said
          /\ \A m, n \in 1 .. N : m < n => Nth(said, m) < Nth(said, n)
          /\ \A p \in said : \E n \in 1 .. N : Nth(said, n) = p
      BY <1>7, NthFacts
    <2>2. N # 0
      BY <1>7, <1>10, FS_EmptySet
    <2>3. \A n \in 1 .. N : st[n] = cut[Nth(said, n) - 1] + 1 /\ c[n] = parts[Nth(said, n)]
      OBVIOUS
    <2>4. Clauses(g) = [n \in 1 .. N |-> c[n]]
      BY <1>4, <1>10
    <2>5. st = [n \in 1 .. N |-> st[n]]
      OBVIOUS
    <2> HIDE DEF st, c, said, N
    <2>6. ASSUME NEW i \in said
          PROVE  /\ i \in 1 .. G /\ cut[i - 1] \in Nat /\ cut[i] \in 0 .. Len(g) + 1
                 /\ cut[i - 1] + 1 < cut[i] /\ cut[i - 1] + 1 \in DOMAIN g
      BY <1>0, <1>2, <1>5, <1>6, <1>7, <2>6
    <2>7. ASSUME NEW n \in 1 .. N PROVE st[n] \in DOMAIN g /\ Head(c[n]) = g[st[n]]
      <3> DEFINE i == Nth(said, n)
      <3>1. i \in said
        BY <2>1
      <3> HIDE DEF i
      <3>2. /\ i \in 1 .. G /\ cut[i - 1] \in Nat /\ cut[i] \in 0 .. Len(g) + 1
            /\ cut[i - 1] + 1 < cut[i] /\ cut[i - 1] + 1 \in DOMAIN g
        BY <2>6, <3>1
      <3>3. Head(SubSeq(g, cut[i - 1] + 1, cut[i] - 1)) = g[cut[i - 1] + 1]
        BY <1>0, <3>2, HeadTailOfSubSeq
      <3> QED BY <1>3, <2>3, <3>2, <3>3 DEF i
    <2>8. st \in [1 .. N -> DOMAIN g]
      BY <2>5, <2>7
    <2>9. ASSUME NEW m \in 1 .. N, NEW n \in 1 .. N, m < n PROVE st[m] < st[n]
      <3> DEFINE i == Nth(said, m)
                 j == Nth(said, n)
      <3>1. i \in said /\ j \in said /\ i < j
        BY <2>1, <2>9
      <3>2. st[m] = cut[i - 1] + 1 /\ st[n] = cut[j - 1] + 1
        BY <2>3
      <3> HIDE DEF i, j
      <3>3. i \in 1 .. G /\ j \in 1 .. G
        BY <2>6, <3>1
      <3>4. i - 1 < j - 1 /\ i - 1 \in 0 .. G /\ j - 1 \in 0 .. G
        BY <1>5, <3>1, <3>3
      <3>5. cut[i - 1] < cut[j - 1] /\ cut[i - 1] \in Nat /\ cut[j - 1] \in Nat
        BY <1>2, <3>4
      <3> QED BY <3>2, <3>5
    <2>10. ASSUME NEW n \in 1 .. N PROVE st[n] \in Starts(g)
      <3> DEFINE i == Nth(said, n)
      <3>1. i \in said /\ st[n] = cut[i - 1] + 1
        BY <2>1, <2>3
      <3> HIDE DEF i
      <3>2. /\ i \in 1 .. G /\ cut[i - 1] \in Nat /\ cut[i] \in 0 .. Len(g) + 1
            /\ cut[i - 1] + 1 < cut[i] /\ cut[i - 1] + 1 \in DOMAIN g
        BY <2>6, <3>1
      <3>3. g[st[n]] # "and"
        BY <1>8, <3>1, <3>2
      <3>4. st[n] = 1 \/ g[st[n] - 1] = "and"
        <4>1. CASE i = 1
          BY <1>2, <3>1, <4>1
        <4>2. CASE i # 1
          <5>1. i - 1 \in 1 .. G - 1
            BY <1>2, <3>2, <4>2
          <5>2. g[cut[i - 1]] = "and"
            BY <1>1, <5>1 DEF Cuts
          <5>3. st[n] - 1 = cut[i - 1]
            BY <3>1, <3>2
          <5> QED BY <5>2, <5>3
        <4> QED BY <4>1, <4>2
      <3> QED BY <3>1, <3>2, <3>3, <3>4 DEF Starts
    <2>11. \E p \in DOMAIN g : g[p] # "and"
      <3>1. PICK i \in said : TRUE
        BY <1>10
      <3>2. /\ i \in 1 .. G /\ cut[i - 1] \in Nat /\ cut[i] \in 0 .. Len(g) + 1
            /\ cut[i - 1] + 1 < cut[i] /\ cut[i - 1] + 1 \in DOMAIN g
        BY <2>6
      <3> QED BY <1>8, <3>2
    <2>12. ASSUME NEW p \in Starts(g) PROVE \E n \in 1 .. N : st[n] = p
      <3>1. p \in DOMAIN g /\ g[p] # "and" /\ (p = 1 \/ g[p - 1] = "and")
        BY <2>11, <2>12 DEF Starts
      <3>2. PICK i \in 1 .. G : cut[i - 1] < p /\ p < cut[i]
        BY <1>8, <3>1
      <3>3. cut[i - 1] \in Nat /\ cut[i] \in 0 .. Len(g) + 1
        BY <1>2, <1>5
      <3>4. cut[i - 1] = p - 1
        <4>1. CASE p = 1
          BY <3>2, <3>3, <4>1
        <4>2. CASE p # 1
          <5>1. p - 1 \in DOMAIN g /\ g[p - 1] = "and" /\ p - 1 < cut[i]
            BY <1>0, <3>1, <3>2, <3>3, <4>2
          <5>2. ~ cut[i - 1] < p - 1
            BY <1>8, <5>1
          <5> QED BY <1>0, <3>1, <3>2, <3>3, <5>2
        <4> QED BY <4>1, <4>2
      <3>5. i \in said
        BY <1>0, <1>6, <3>1, <3>2, <3>3, <3>4
      <3>6. PICK n \in 1 .. N : Nth(said, n) = i
        BY <2>1, <3>5
      <3>7. p = cut[i - 1] + 1
        BY <1>0, <3>1, <3>4
      <3> QED BY <2>3, <3>6, <3>7
    <2>13. {st[n] : n \in 1 .. N} = Starts(g)
      BY <2>10, <2>12
    <2>14. N \in Nat \ {0}
      BY <2>1, <2>2
    <2>15. ClausesAt(g, N, c, st)
      BY <2>4, <2>7, <2>8, <2>9, <2>13, <2>14 DEF ClausesAt
    <2> QED BY <2>15
  <1> QED BY <1>9, <1>10

-----------------------------------------------------------------------------
(* Planner: layers, and where clauses begin in an objective.               *)

Plain(o, p) == o[p] \notin {"then", "and"}

\* What the word at p, if it is a separator, needs to begin a clause.
BeginsAlone(o, p) ==
    /\ o[p] = "and" /\ (p = 1 \/ o[p - 1] = "then")
    /\ \A q \in DOMAIN o : Layer(o, q) = Layer(o, p) => ~ Plain(o, q)

LEMMA BeginningsUnfold ==
    \A o, p : p \in Beginnings(o) <=>
        /\ p \in DOMAIN o
        /\ \/ Plain(o, p) /\ (p = 1 \/ ~ Plain(o, p - 1))
           \/ BeginsAlone(o, p)
  BY DEF Beginnings, Plain, BeginsAlone

\* The i-th group is the layer i - 1, the "then" behind it included.
LEMMA LayerFacts ==
    ASSUME NEW X, NEW o \in Seq(X), NEW G, NEW cut, Cuts(o, "then", G, cut),
           NEW i \in 1 .. G, NEW p \in Nat, cut[i - 1] < p, p <= cut[i]
    PROVE  Layer(o, p) = i - 1
  <1>1. /\ G \in Nat \ {0} /\ cut \in [0 .. G -> 0 .. Len(o) + 1]
        /\ \A j, k \in 0 .. G : j < k => cut[j] < cut[k]
        /\ Len(o) \in Nat /\ DOMAIN o = 1 .. Len(o)
    BY DEF Cuts
  <1>2. /\ \A j \in 1 .. G - 1 : cut[j] \in DOMAIN o /\ o[cut[j]] = "then"
        /\ \A q \in DOMAIN o : o[q] = "then" => \E j \in 1 .. G - 1 : cut[j] = q
    BY DEF Cuts
  <1> DEFINE st == [j \in 1 .. i - 1 |-> cut[j]]
             S == {st[j] : j \in 1 .. i - 1}
             Q == {q \in 1 .. p - 1 : o[q] = "then"}
  <1>3. \A j \in 1 .. i - 1 : j \in 1 .. G - 1 /\ j \in 0 .. G /\ j <= i - 1 /\ st[j] = cut[j]
    BY <1>1
  <1>4. i - 1 \in Nat /\ i - 1 \in 0 .. G /\ i \in 0 .. G
    BY <1>1
  <1>5. \A j \in 0 .. G : cut[j] \in Nat /\ cut[j] <= Len(o) + 1
    BY <1>1
  <1>6. st \in [1 .. i - 1 -> Nat]
    BY <1>3, <1>5
  <1> HIDE DEF st
  <1>7. \A j, k \in 1 .. i - 1 : j < k => st[j] < st[k]
    BY <1>1, <1>3
  <1>8. Cardinality(S) = i - 1
    BY <1>4, <1>6, <1>7, RisingCounts
  <1>9. \A j \in 1 .. i - 1 : cut[j] <= cut[i - 1]
    <2> SUFFICES ASSUME NEW j \in 1 .. i - 1 PROVE cut[j] <= cut[i - 1]
      OBVIOUS
    <2>1. j = i - 1 \/ j < i - 1
      OBVIOUS
    <2>2. cut[j] \in Nat /\ cut[i - 1] \in Nat /\ j \in 0 .. G
      BY <1>3, <1>4, <1>5
    <2>3. \A k \in 0 .. G : j < k => cut[j] < cut[k]
      BY <1>1, <2>2
    <2>4. j < i - 1 => cut[j] < cut[i - 1]
      BY <1>4, <2>3
    <2> QED BY <2>1, <2>2, <2>4
  <1>10. S \subseteq Q
    <2> SUFFICES ASSUME NEW j \in 1 .. i - 1 PROVE cut[j] \in Q
      BY <1>3
    <2>1. cut[j] \in DOMAIN o /\ o[cut[j]] = "then" /\ cut[j] <= cut[i - 1] /\ cut[i - 1] \in Nat
      BY <1>2, <1>3, <1>4, <1>5, <1>9
    <2> QED BY <1>1, <2>1
  <1>11. Q \subseteq S
    <2> SUFFICES ASSUME NEW q \in Q PROVE q \in S
      OBVIOUS
    <2>1. q \in DOMAIN o
      BY <1>1, <1>4, <1>5
    <2>2. PICK j \in 1 .. G - 1 : cut[j] = q
      BY <1>2, <2>1
    <2>3. j \in 0 .. G /\ cut[j] < p /\ cut[j] \in Nat /\ cut[i] \in Nat
      BY <1>1, <1>4, <1>5, <2>2
    <2>4. cut[j] < cut[i]
      BY <2>3
    <2>5. ~ i < j /\ i # j
      BY <1>1, <1>4, <2>3, <2>4
    <2>6. j \in 1 .. i - 1
      BY <2>2, <2>5
    <2> QED BY <1>3, <2>2, <2>6
  <1>12. S = Q
    BY <1>10, <1>11
  <1> QED BY <1>8, <1>12 DEF Layer

\* Between two cuts, clauses begin where those of the group do.
LEMMA BeginningFacts ==
    ASSUME NEW X, NEW o \in Seq(X), NEW G, NEW cut, Cuts(o, "then", G, cut), NEW i \in 1 .. G,
           NEW g \in Seq(X), Len(g) = cut[i] - 1 - cut[i - 1],
           \A q \in DOMAIN g : g[q] = o[cut[i - 1] + q]
    PROVE  \A p \in Nat : cut[i - 1] < p /\ p < cut[i] =>
              (p \in Beginnings(o) <=> p - cut[i - 1] \in Starts(g))
  <1> DEFINE a == cut[i - 1]
             b == cut[i]
  <1>1. /\ G \in Nat \ {0} /\ cut \in [0 .. G -> 0 .. Len(o) + 1]
        /\ \A j, k \in 0 .. G : j < k => cut[j] < cut[k]
        /\ Len(o) \in Nat /\ DOMAIN o = 1 .. Len(o)
    BY DEF Cuts
  <1>2. a \in 0 .. Len(o) + 1 /\ b \in 0 .. Len(o) + 1 /\ a < b
    BY <1>1
  <1>3. /\ \A q \in DOMAIN o : a < q /\ q < b => o[q] # "then"
        /\ \A q \in DOMAIN o : o[q] # "then" => \E j \in 1 .. G : cut[j - 1] < q /\ q < cut[j]
    BY BetweenCuts
  <1>4. a = 0 \/ (a \in DOMAIN o /\ o[a] = "then")
    <2>1. CASE i = 1
      <3>1. i - 1 = 0
        BY <2>1
      <3>2. cut[i - 1] = cut[0]
        BY <3>1
      <3>3. cut[0] = 0
        BY DEF Cuts
      <3> QED BY <3>2, <3>3
    <2>2. CASE i # 1
      <3>1. i - 1 \in 1 .. G - 1
        BY <1>1, <2>2
      <3> QED BY <3>1 DEF Cuts
    <2> QED BY <2>1, <2>2
  <1>5. DOMAIN g = 1 .. b - 1 - a /\ \A q \in DOMAIN g : g[q] = o[a + q]
    OBVIOUS
  <1>l. \A q \in Nat : a < q /\ q <= b => Layer(o, q) = i - 1
    BY LayerFacts
  <1>6. ASSUME NEW q \in DOMAIN o, Layer(o, q) = i - 1, Plain(o, q) PROVE a < q /\ q < b
    <2>1. PICK j \in 1 .. G : cut[j - 1] < q /\ q < cut[j]
      BY <1>3, <1>6 DEF Plain
    <2>2. q \in Nat /\ cut[j] \in Nat /\ q <= cut[j]
      <3>1. q \in Nat /\ cut[j] \in Nat
        BY CutNumbers
      <3> QED BY <2>1, <3>1
    <2>3. Layer(o, q) = j - 1
      BY <2>1, <2>2, LayerFacts
    <2>4. j = i
      BY <1>6, <2>3
    <2> QED BY <2>1, <2>4
  <1> HIDE DEF a, b
  <1> SUFFICES ASSUME NEW p \in Nat, a < p, p < b
               PROVE  p \in Beginnings(o) <=> p - a \in Starts(g)
    BY DEF a, b
  <1> DEFINE q == p - a
  <1>7. p \in DOMAIN o /\ q \in DOMAIN g /\ g[q] = o[p] /\ o[p] # "then" /\ 1 \in DOMAIN g
    <2>1. p \in DOMAIN o /\ q \in DOMAIN g /\ a + q = p /\ 1 \in DOMAIN g
      <3>1. /\ Len(o) \in Nat /\ DOMAIN o = 1 .. Len(o) /\ DOMAIN g = 1 .. b - 1 - a
            /\ a \in Nat /\ b \in Nat /\ b <= Len(o) + 1
        BY <1>1, <1>2, <1>5
      <3>2. p \in 1 .. Len(o) /\ q \in 1 .. b - 1 - a /\ a + q = p /\ 1 \in 1 .. b - 1 - a
        BY <3>1
      <3> QED BY <3>1, <3>2
    <2> QED BY <1>3, <1>5, <2>1
  <1>8. g[q] # "and" <=> Plain(o, p)
    BY <1>7 DEF Plain
  <1>9. CASE q = 1
    <2>1. p - 1 = a
      BY <1>2, <1>9
    <2>2. p = 1 \/ o[p - 1] = "then"
      BY <1>4, <2>1
    <2>3. p = 1 \/ ~ Plain(o, p - 1)
      BY <2>2 DEF Plain
    <2>4. (\E x \in DOMAIN g : g[x] # "and") <=>
             \E x \in DOMAIN o : Layer(o, x) = Layer(o, p) /\ Plain(o, x)
      <3>1. ASSUME NEW x \in DOMAIN g, g[x] # "and"
            PROVE  \E y \in DOMAIN o : Layer(o, y) = Layer(o, p) /\ Plain(o, y)
        <4>0. x \in 1 .. b - 1 - a
          BY <1>5
        <4>1. /\ a + x \in DOMAIN o /\ a < a + x /\ a + x < b /\ a + x \in Nat
              /\ g[x] = o[a + x]
          <5>1. a \in Nat /\ b \in Nat /\ b <= Len(o) + 1 /\ x \in Nat /\ 1 <= x /\ x <= b - 1 - a
            <6>1. a \in Nat /\ b \in Nat /\ b <= Len(o) + 1
              BY <1>1, <1>2
            <6> QED BY <4>0, <6>1
          <5>3. a < a + x /\ a + x < b /\ a + x \in Nat
            BY <5>1
          <5>4. Len(o) \in Nat
            OBVIOUS
          <5>2. 1 <= a + x /\ a + x <= Len(o)
            BY <5>1, <5>3, <5>4
          <5> QED BY <1>1, <1>5, <5>2, <5>3
        <4>2. Layer(o, a + x) = i - 1 /\ Layer(o, p) = i - 1
          BY <1>2, <1>l, <4>1
        <4>3. Plain(o, a + x)
          BY <1>3, <3>1, <4>1 DEF Plain
        <4> QED BY <4>1, <4>2, <4>3
      <3>2. ASSUME NEW y \in DOMAIN o, Layer(o, y) = Layer(o, p), Plain(o, y)
            PROVE  \E x \in DOMAIN g : g[x] # "and"
        <4>1. Layer(o, p) = i - 1
          BY <1>2, <1>l
        <4>2. a < y /\ y < b
          BY <1>6, <3>2, <4>1
        <4>3. y - a \in DOMAIN g /\ a + (y - a) = y
          <5>1. a \in Nat /\ b \in Nat /\ y \in Nat
            BY <1>1, <1>2
          <5>2. y - a \in 1 .. b - 1 - a /\ a + (y - a) = y
            BY <4>2, <5>1
          <5> QED BY <1>5, <5>2
        <4> QED BY <1>5, <3>2, <4>3 DEF Plain
      <3> QED BY <3>1, <3>2
    <2>5. p \in Beginnings(o) <=> Plain(o, p) \/ BeginsAlone(o, p)
      BY <1>7, <2>3, BeginningsUnfold
    <2>6. BeginsAlone(o, p) <=> o[p] = "and" /\ ~ \E x \in DOMAIN g : g[x] # "and"
      BY <2>2, <2>4 DEF BeginsAlone
    <2>7. q \in Starts(g) <=> g[q] # "and" \/ ~ \E x \in DOMAIN g : g[x] # "and"
      BY <1>7, <1>9 DEF Starts
    <2> QED BY <1>7, <1>8, <2>5, <2>6, <2>7
  <1>10. CASE q # 1
    <2>1. p - 1 \in DOMAIN o /\ q - 1 \in DOMAIN g /\ a + (q - 1) = p - 1 /\ a < p - 1 /\ p - 1 < b /\ p # 1
      <3>1. /\ Len(o) \in Nat /\ DOMAIN o = 1 .. Len(o) /\ DOMAIN g = 1 .. b - 1 - a
            /\ a \in Nat /\ b \in Nat /\ b <= Len(o) + 1
        BY <1>1, <1>2, <1>5
      <3>2. q \in Nat /\ 1 < q /\ q <= b - 1 - a
        BY <1>7, <1>10, <3>1
      <3>3. /\ p - 1 \in 1 .. Len(o) /\ q - 1 \in 1 .. b - 1 - a
            /\ a + (q - 1) = p - 1 /\ a < p - 1 /\ p - 1 < b /\ p # 1
        BY <3>1, <3>2
      <3> QED BY <3>1, <3>3
    <2>2. o[p - 1] # "then" /\ g[q - 1] = o[p - 1]
      BY <1>3, <1>5, <2>1
    <2>3. ~ BeginsAlone(o, p)
      BY <2>1, <2>2 DEF BeginsAlone
    <2>4. Plain(o, p - 1) <=> g[q - 1] # "and"
      BY <2>2 DEF Plain
    <2>5. p \in Beginnings(o) <=> Plain(o, p) /\ ~ Plain(o, p - 1)
      BY <1>7, <2>1, <2>3, BeginningsUnfold
    <2>6. q \in Starts(g) <=> g[q] # "and" /\ g[q - 1] = "and"
      BY <1>7, <1>10 DEF Starts
    <2> QED BY <1>8, <2>4, <2>5, <2>6
  <1> QED BY <1>9, <1>10

\* A clause begins in a layer, layers follow one another, and a group begins its own.
InLayer(o, n) == {p \in Beginnings(o) : Layer(o, p) = n}

LEMMA LayersFollow ==
    ASSUME NEW X, NEW o \in Seq(X), NEW G, NEW cut, Cuts(o, "then", G, cut)
    PROVE  /\ \A p \in Beginnings(o) :
                 /\ p \in DOMAIN o /\ p \in Nat /\ Layer(o, p) \in 0 .. G - 1
                 /\ cut[Layer(o, p)] < p /\ p < cut[Layer(o, p) + 1]
           /\ \A p, q \in Beginnings(o) : Layer(o, p) < Layer(o, q) => p < q
  <1>1. /\ G \in Nat \ {0} /\ cut \in [0 .. G -> 0 .. Len(o) + 1]
        /\ \A j, k \in 0 .. G : j < k => cut[j] < cut[k]
        /\ Len(o) \in Nat /\ DOMAIN o = 1 .. Len(o)
    BY DEF Cuts
  <1>2. ASSUME NEW p \in Beginnings(o)
        PROVE  /\ p \in DOMAIN o /\ p \in Nat /\ Layer(o, p) \in 0 .. G - 1
               /\ cut[Layer(o, p)] < p /\ p < cut[Layer(o, p) + 1]
    <2>1. p \in DOMAIN o /\ o[p] # "then"
      BY BeginningsUnfold DEF Plain, BeginsAlone
    <2>2. PICK i \in 1 .. G : cut[i - 1] < p /\ p < cut[i]
      BY <2>1, BetweenCuts
    <2>3. p \in Nat /\ cut[i] \in Nat /\ p <= cut[i]
      <3>1. p \in Nat /\ cut[i] \in Nat
        BY <2>1, CutNumbers
      <3> QED BY <2>2, <3>1
    <2>4. Layer(o, p) = i - 1
      BY <2>2, <2>3, LayerFacts
    <2>5. i - 1 \in 0 .. G - 1 /\ (i - 1) + 1 = i
      BY <1>1
    <2> QED BY <2>1, <2>2, <2>3, <2>4, <2>5
  <1>3. ASSUME NEW p \in Beginnings(o), NEW q \in Beginnings(o), Layer(o, p) < Layer(o, q)
        PROVE  p < q
    <2>1. /\ Layer(o, p) \in 0 .. G - 1 /\ Layer(o, q) \in 0 .. G - 1
          /\ p < cut[Layer(o, p) + 1] /\ cut[Layer(o, q)] < q
          /\ p \in Nat /\ q \in Nat
      BY <1>2
    <2>2. Layer(o, p) + 1 \in 0 .. G /\ Layer(o, q) \in 0 .. G
      <3>1. G \in Nat
        BY <1>1
      <3> QED BY <2>1, <3>1
    <2>3. Layer(o, p) + 1 = Layer(o, q) \/ Layer(o, p) + 1 < Layer(o, q)
      BY <1>3, <2>1
    <2>4. cut[Layer(o, p) + 1] \in Nat /\ cut[Layer(o, q)] \in Nat
      BY <2>2, CutNumbers
    <2>5. cut[Layer(o, p) + 1] <= cut[Layer(o, q)]
      <3>1. \A j, k \in 0 .. G : j < k => cut[j] < cut[k]
        BY <1>1
      <3>2. Layer(o, p) + 1 < Layer(o, q) => cut[Layer(o, p) + 1] < cut[Layer(o, q)]
        BY <2>2, <3>1
      <3> QED BY <2>3, <2>4, <3>2
    <2> QED BY <2>1, <2>4, <2>5
  <1> QED BY <1>2, <1>3

\* The M clauses c of a group, and where they begin in the objective.
GroupAt(o, n, g, M, c, st) ==
    /\ M \in Nat \ {0}
    /\ Clauses(g) = [k \in 1 .. M |-> c[k]]
    /\ st \in [1 .. M -> Nat]
    /\ \A j, k \in 1 .. M : j < k => st[j] < st[k]
    /\ {st[k] : k \in 1 .. M} = InLayer(o, n)
    /\ \A k \in 1 .. M : Head(c[k]) = o[st[k]]

LEMMA GroupFacts ==
    ASSUME NEW X, NEW o \in Seq(X), NEW G, NEW cut, Cuts(o, "then", G, cut), NEW i \in 1 .. G
    PROVE  LET g == SubSeq(o, cut[i - 1] + 1, cut[i] - 1)
           IN  IF g = <<>> THEN InLayer(o, i - 1) = {}
               ELSE \E M, c, st : GroupAt(o, i - 1, g, M, c, st)
  <1> DEFINE a == cut[i - 1] + 1
             b == cut[i] - 1
             g == SubSeq(o, a, b)
  <1>1. /\ G \in Nat \ {0} /\ cut \in [0 .. G -> 0 .. Len(o) + 1]
        /\ \A j, k \in 0 .. G : j < k => cut[j] < cut[k]
        /\ Len(o) \in Nat /\ DOMAIN o = 1 .. Len(o)
    BY DEF Cuts
  <1>2. cut[i - 1] \in 0 .. Len(o) + 1 /\ cut[i] \in 0 .. Len(o) + 1 /\ cut[i - 1] < cut[i]
    BY <1>1
  <1>3. a \in Int /\ b \in Int /\ a <= b + 1 /\ 1 <= a /\ b <= Len(o)
    BY <1>1, <1>2
  <1>4. \A p \in a .. b : o[p] \in X
    BY <1>1, <1>3
  <1> HIDE DEF a, b
  <1>5. /\ g \in Seq(X) /\ Len(g) = IF a <= b THEN b - a + 1 ELSE 0
        /\ \A q \in 1 .. b - a + 1 : g[q] = o[a + q - 1]
    BY <1>3, <1>4, SubSeqProperties
  <1> HIDE DEF g
  <1>6. Len(g) = b - a + 1 /\ DOMAIN g = 1 .. b - a + 1
    BY <1>3, <1>5
  <1>7. Len(g) = cut[i] - 1 - cut[i - 1]
    BY <1>2, <1>6 DEF a, b
  <1>8. \A q \in DOMAIN g : g[q] = o[cut[i - 1] + q]
    <2> SUFFICES ASSUME NEW q \in DOMAIN g PROVE g[q] = o[cut[i - 1] + q]
      OBVIOUS
    <2>1. g[q] = o[a + q - 1] /\ q \in Nat
      BY <1>3, <1>5, <1>6
    <2>2. a + q - 1 = cut[i - 1] + q
      BY <1>2, <2>1 DEF a
    <2> QED BY <2>1, <2>2
  <1>9. \A p \in Nat : cut[i - 1] < p /\ p < cut[i] =>
              (p \in Beginnings(o) <=> p - cut[i - 1] \in Starts(g))
    BY <1>5, <1>7, <1>8, BeginningFacts
  <1>10. \A p \in InLayer(o, i - 1) : p \in Nat /\ p \in Beginnings(o) /\ cut[i - 1] < p /\ p < cut[i]
    <2> SUFFICES ASSUME NEW p \in InLayer(o, i - 1)
                 PROVE  p \in Nat /\ p \in Beginnings(o) /\ cut[i - 1] < p /\ p < cut[i]
      OBVIOUS
    <2>1. p \in Beginnings(o) /\ Layer(o, p) = i - 1 /\ (i - 1) + 1 = i
      BY DEF InLayer
    <2> QED BY <2>1, LayersFollow
  <1>11. CASE g = <<>>
    <2>1. Len(g) = 0
      BY <1>11
    <2>2. cut[i] = cut[i - 1] + 1
      BY <1>2, <1>7, <2>1
    <2>3. InLayer(o, i - 1) = {}
      BY <1>2, <1>10, <2>2
    <2> QED BY <1>11, <2>3 DEF g, a, b
  <1>12. CASE g # <<>>
    <2>1. PICK N, c, at : ClausesAt(g, N, c, at)
      BY <1>5, <1>12, ClauseFacts
    <2> DEFINE st == [k \in 1 .. N |-> cut[i - 1] + at[k]]
    <2>2. /\ N \in Nat \ {0}
          /\ Clauses(g) = [n \in 1 .. N |-> c[n]]
          /\ at \in [1 .. N -> DOMAIN g]
          /\ \A m, n \in 1 .. N : m < n => at[m] < at[n]
          /\ {at[n] : n \in 1 .. N} = Starts(g)
          /\ \A n \in 1 .. N : Head(c[n]) = g[at[n]]
      BY <2>1 DEF ClausesAt
    <2>3. \A k \in 1 .. N : at[k] \in DOMAIN g /\ at[k] \in 1 .. b - a + 1 /\ at[k] \in Nat
      BY <1>3, <1>6, <2>2
    <2>4. st \in [1 .. N -> Nat] /\ \A k \in 1 .. N : st[k] = cut[i - 1] + at[k]
      BY <1>2, <2>3
    <2> HIDE DEF st
    <2>5. \A j, k \in 1 .. N : j < k => st[j] < st[k]
      <3> SUFFICES ASSUME NEW j \in 1 .. N, NEW k \in 1 .. N, j < k PROVE st[j] < st[k]
        OBVIOUS
      <3>1. at[j] < at[k] /\ at[j] \in Nat /\ at[k] \in Nat
        BY <2>2, <2>3
      <3>2. st[j] = cut[i - 1] + at[j] /\ st[k] = cut[i - 1] + at[k]
        BY <2>4
      <3> QED BY <1>2, <3>1, <3>2
    <2>6. \A k \in 1 .. N : Head(c[k]) = o[st[k]]
      BY <1>8, <2>2, <2>3, <2>4
    <2>7. ASSUME NEW k \in 1 .. N PROVE st[k] \in InLayer(o, i - 1)
      <3>1. at[k] \in 1 .. Len(g) /\ at[k] \in Starts(g) /\ st[k] = cut[i - 1] + at[k] /\ st[k] \in Nat
        BY <1>6, <2>2, <2>3, <2>4
      <3>2. cut[i - 1] < st[k] /\ st[k] < cut[i] /\ st[k] - cut[i - 1] = at[k] /\ st[k] <= cut[i]
        BY <1>2, <1>7, <3>1
      <3>3. st[k] \in Beginnings(o)
        BY <1>9, <3>1, <3>2
      <3>4. Layer(o, st[k]) = i - 1
        BY <3>1, <3>2, LayerFacts
      <3> QED BY <3>3, <3>4 DEF InLayer
    <2>8. ASSUME NEW p \in InLayer(o, i - 1) PROVE \E k \in 1 .. N : st[k] = p
      <3>1. p \in Nat /\ p - cut[i - 1] \in Starts(g)
        BY <1>9, <1>10
      <3>2. PICK k \in 1 .. N : at[k] = p - cut[i - 1]
        BY <2>2, <3>1
      <3>3. st[k] = p
        BY <1>2, <2>4, <3>1, <3>2
      <3> QED BY <3>3
    <2>9. {st[k] : k \in 1 .. N} = InLayer(o, i - 1)
      BY <2>7, <2>8
    <2>10. GroupAt(o, i - 1, g, N, c, st)
      BY <2>2, <2>4, <2>5, <2>6, <2>9 DEF GroupAt
    <2> QED BY <1>12, <2>10 DEF g, a, b
  <1> QED BY <1>11, <1>12

-----------------------------------------------------------------------------
(* Planner: the plan, group by group.                                      *)

\* The plans of the first n groups, for a function that gives them.
Building(plan, groups, L) ==
    plan = [n \in 0 .. L |->
              IF n = 0 THEN [steps |-> <<>>, previous |-> {}]
              ELSE AddGroup(plan[n - 1], groups[n])]

LEMMA BuildingExists ==
    ASSUME NEW L \in Nat, NEW groups
    PROVE  \E plan : Building(plan, groups, L)
  <1> DEFINE T == {m \in Nat : ~ \E plan : Building(plan, groups, m)}
             none == [steps |-> <<>>, previous |-> {}]
  <1> SUFFICES ASSUME T # {} PROVE FALSE
    OBVIOUS
  <1>1. PICK m \in T : \A i \in T : m <= i
    BY SmallestOf
  <1>2. CASE m = 0
    <2> DEFINE plan == [n \in 0 .. 0 |-> none]
    <2>1. Building(plan, groups, 0)
      BY DEF Building
    <2> QED BY <1>2, <2>1
  <1>3. CASE m # 0
    <2>1. m - 1 \in Nat /\ m - 1 \notin T
      BY <1>1, <1>3
    <2>2. PICK b : Building(b, groups, m - 1)
      BY <2>1
    <2> DEFINE last == AddGroup(b[m - 1], groups[m])
               c == [n \in 0 .. m |-> IF n = m THEN last ELSE b[n]]
               e == [n \in 0 .. m |-> IF n = 0 THEN none ELSE AddGroup(c[n - 1], groups[n])]
    <2>3. ASSUME NEW n \in 0 .. m PROVE c[n] = e[n]
      <3>1. CASE n = m
        <4>1. m - 1 \in 0 .. m /\ m - 1 # m /\ c[m - 1] = b[m - 1]
          BY <1>3
        <4> QED BY <1>3, <3>1, <4>1
      <3>2. CASE n # m
        <4>1. n \in 0 .. m - 1
          BY <3>2
        <4>2. n # 0 => n - 1 \in 0 .. m /\ n - 1 # m
          BY <4>1
        <4>3. b[n] = IF n = 0 THEN none ELSE AddGroup(b[n - 1], groups[n])
          BY <2>2, <4>1 DEF Building
        <4> QED BY <3>2, <4>2, <4>3
      <3> QED BY <3>1, <3>2
    <2>4. c = e
      <3> HIDE DEF last
      <3>1. \A n \in 0 .. m : c[n] = e[n]
        BY <2>3
      <3>2. e = [n \in 0 .. m |-> e[n]] /\ c = [n \in 0 .. m |-> c[n]]
        OBVIOUS
      <3> HIDE DEF c, e
      <3> QED BY <3>1, <3>2
    <2>5. Building(c, groups, m)
      BY <2>4 DEF Building
    <2> QED BY <2>5
  <1> QED BY <1>2, <1>3

LEMMA PlanOfFacts ==
    ASSUME NEW groups, Len(groups) \in Nat
    PROVE  /\ PlanOf(groups)[0] = [steps |-> <<>>, previous |-> {}]
           /\ \A n \in 1 .. Len(groups) :
                 PlanOf(groups)[n] = AddGroup(PlanOf(groups)[n - 1], groups[n])
  <1> DEFINE L == Len(groups)
             e(f) == [n \in 0 .. Len(groups) |->
                        IF n = 0 THEN [steps |-> <<>>, previous |-> {}]
                        ELSE AddGroup(f[n - 1], groups[n])]
             plan == CHOOSE f : f = e(f)
  <1>1. \A f : f = e(f) <=> Building(f, groups, L)
    BY DEF Building
  <1>2. Building(plan, groups, L)
    <2>1. \E f : f = e(f)
      BY <1>1, BuildingExists
    <2>2. plan = e(plan)
      <3> HIDE DEF e
      <3> QED BY <2>1
    <2> HIDE DEF plan, e
    <2> QED BY <1>1, <2>2
  <1>3. PlanOf(groups) = plan
    BY DEF PlanOf
  <1> HIDE DEF plan, e
  <1>4. \A n \in 0 .. L : plan[n] = IF n = 0 THEN [steps |-> <<>>, previous |-> {}]
                                   ELSE AddGroup(plan[n - 1], groups[n])
    BY <1>2 DEF Building
  <1>5. 0 \in 0 .. L /\ \A n \in 1 .. L : n \in 0 .. L /\ n # 0
    OBVIOUS
  <1> QED BY <1>3, <1>4, <1>5

\* The clauses of the last layer before layer n that has any.
Latest(o, n) ==
    {q \in Beginnings(o) : /\ Layer(o, q) < n
                           /\ \A r \in Beginnings(o) : Layer(o, r) < n => Layer(o, r) <= Layer(o, q)}

Below(o, n) == {p \in Beginnings(o) : Layer(o, p) < n}

\* The plan P of the first n groups: N steps s, one for each clause of these layers in
\* the order they begin, after those of the nearest layer before their own; and the next
\* ones will wait for the latest of them.
Built(o, n, P, N, s, st) ==
    /\ N \in Nat
    /\ P.steps = [m \in 1 .. N |-> s[m]]
    /\ st \in [1 .. N -> Nat]
    /\ \A j, k \in 1 .. N : j < k => st[j] < st[k]
    /\ {st[m] : m \in 1 .. N} = Below(o, n)
    /\ \A m \in 1 .. N : Head(s[m].objective) = o[st[m]]
    /\ \A m \in 1 .. N : s[m].depends_on = {k \in 1 .. N : st[k] \in Latest(o, Layer(o, st[m]))}
    /\ P.previous = {k \in 1 .. N : st[k] \in Latest(o, n)}

FirstOf(N, f) == [n \in 1 .. N |-> f[n]]
Joined(M, e, N, f) == [k \in 1 .. M + N |-> IF k <= M THEN e[k] ELSE f[k - M]]

LEMMA Joining ==
    ASSUME NEW M \in Nat, NEW N \in Nat, NEW e, NEW f
    PROVE  FirstOf(M, e) \o FirstOf(N, f) = Joined(M, e, N, f)
  <1> DEFINE a == [m \in 1 .. M |-> e[m]]
             b == [n \in 1 .. N |-> f[n]]
             Y == {e[m] : m \in 1 .. M} \cup {f[n] : n \in 1 .. N}
             j == [k \in 1 .. M + N |-> IF k <= M THEN e[k] ELSE f[k - M]]
  <1>1. a \in Seq(Y) /\ Len(a) = M /\ \A m \in 1 .. M : a[m] = e[m]
    OBVIOUS
  <1>2. b \in Seq(Y) /\ Len(b) = N /\ \A n \in 1 .. N : b[n] = f[n]
    OBVIOUS
  <1> HIDE DEF a, b, Y
  <1>3. /\ a \o b \in Seq(Y) /\ Len(a \o b) = M + N
        /\ \A i \in 1 .. M + N : (a \o b)[i] = IF i <= M THEN a[i] ELSE b[i - M]
    BY <1>1, <1>2, ConcatProperties
  <1>4. \A i \in 1 .. M + N : (a \o b)[i] = j[i]
    <2> SUFFICES ASSUME NEW i \in 1 .. M + N PROVE (a \o b)[i] = j[i]
      OBVIOUS
    <2>1. CASE i <= M
      BY <1>1, <1>3, <2>1
    <2>2. CASE ~ (i <= M)
      <3>1. i - M \in 1 .. N
        BY <2>2
      <3> QED BY <1>2, <1>3, <2>2, <3>1
    <2> QED BY <2>1, <2>2
  <1>5. a \o b = [i \in 1 .. M + N |-> (a \o b)[i]]
    <2> DEFINE w == a \o b
    <2>1. w \in Seq(Y) /\ Len(w) = M + N
      BY <1>3
    <2> HIDE DEF w
    <2>2. w = [i \in 1 .. Len(w) |-> w[i]]
      BY <2>1
    <2> QED BY <2>1, <2>2 DEF w
  <1>6. j = [i \in 1 .. M + N |-> j[i]]
    OBVIOUS
  <1> HIDE DEF j
  <1>7. a \o b = j
    BY <1>4, <1>5, <1>6
  <1> QED BY <1>7 DEF a, b, j, FirstOf, Joined

LEMMA PlanStepHas ==
    \A c, after : PlanStep(c, after).objective = c /\ PlanStep(c, after).depends_on = after
  BY DEF PlanStep

LEMMA BuildStep ==
    ASSUME NEW X, NEW o \in Seq(X), NEW G, NEW cut, Cuts(o, "then", G, cut), NEW i \in 1 .. G,
           NEW P, NEW N, NEW s, NEW st, Built(o, i - 1, P, N, s, st)
    PROVE  \E N2, s2, st2 :
              Built(o, i, AddGroup(P, SubSeq(o, cut[i - 1] + 1, cut[i] - 1)), N2, s2, st2)
  <1> DEFINE g == SubSeq(o, cut[i - 1] + 1, cut[i] - 1)
             B == Beginnings(o)
  <1>1. /\ N \in Nat /\ P.steps = [m \in 1 .. N |-> s[m]]
        /\ st \in [1 .. N -> Nat] /\ \A j, k \in 1 .. N : j < k => st[j] < st[k]
        /\ {st[m] : m \in 1 .. N} = Below(o, i - 1)
        /\ \A m \in 1 .. N : Head(s[m].objective) = o[st[m]]
        /\ \A m \in 1 .. N :
              s[m].depends_on = {k \in 1 .. N : st[k] \in Latest(o, Layer(o, st[m]))}
        /\ P.previous = {k \in 1 .. N : st[k] \in Latest(o, i - 1)}
    BY DEF Built
  <1>2. /\ \A p \in B : p \in Nat /\ Layer(o, p) \in Nat
        /\ \A p, q \in B : Layer(o, p) < Layer(o, q) => p < q
    <2>1. G \in Nat
      BY DEF Cuts
    <2> QED BY <2>1, LayersFollow
  <1>3. i - 1 \in Nat /\ i \in Nat
    BY DEF Cuts
  <1>4. \A p \in B : Layer(o, p) < i <=> Layer(o, p) < i - 1 \/ Layer(o, p) = i - 1
    BY <1>2, <1>3
  <1>5. Below(o, i) = Below(o, i - 1) \cup InLayer(o, i - 1)
    BY <1>4 DEF Below, InLayer
  <1>6. IF g = <<>> THEN InLayer(o, i - 1) = {}
        ELSE \E M, c, at : GroupAt(o, i - 1, g, M, c, at)
    BY GroupFacts
  <1> HIDE DEF g
  <1>7. CASE g = <<>>
    <2>1. InLayer(o, i - 1) = {}
      BY <1>6, <1>7
    <2>2. Below(o, i) = Below(o, i - 1)
      BY <1>5, <2>1
    <2>3. \A p \in B : Layer(o, p) < i <=> Layer(o, p) < i - 1
      BY <1>4, <2>1 DEF InLayer
    <2>4. Latest(o, i) = Latest(o, i - 1)
      BY <2>3 DEF Latest
    <2>5. AddGroup(P, g) = P
      BY <1>7 DEF AddGroup
    <2>6. Built(o, i, P, N, s, st)
      BY <1>1, <2>2, <2>4 DEF Built
    <2> QED BY <2>5, <2>6 DEF g
  <1>8. CASE g # <<>>
    <2>1. PICK M, c, at : GroupAt(o, i - 1, g, M, c, at)
      BY <1>6, <1>8
    <2>2. /\ M \in Nat \ {0} /\ Clauses(g) = [k \in 1 .. M |-> c[k]]
          /\ at \in [1 .. M -> Nat] /\ \A j, k \in 1 .. M : j < k => at[j] < at[k]
          /\ {at[k] : k \in 1 .. M} = InLayer(o, i - 1)
          /\ \A k \in 1 .. M : Head(c[k]) = o[at[k]]
      BY <2>1 DEF GroupAt
    <2> DEFINE new == [n \in 1 .. M |-> PlanStep(c[n], P.previous)]
               s2 == [m \in 1 .. N + M |-> IF m <= N THEN s[m] ELSE new[m - N]]
               st2 == [m \in 1 .. N + M |-> IF m <= N THEN st[m] ELSE at[m - N]]
               Q == AddGroup(P, g)
    <2>3. Len(P.steps) = N /\ Len(Clauses(g)) = M /\ DOMAIN Clauses(g) = 1 .. M
      BY <1>1, <2>2
    <2>4. [n \in DOMAIN Clauses(g) |-> PlanStep(Clauses(g)[n], P.previous)] = new
      BY <2>2, <2>3
    <2>5. Q.steps = P.steps \o new /\ Q.previous = N + 1 .. N + M
      BY <1>8, <2>3, <2>4 DEF AddGroup
    <2>6. P.steps \o new = s2
      <3>1. new = [n \in 1 .. M |-> new[n]]
        OBVIOUS
      <3> HIDE DEF new
      <3>0. N \in Nat /\ M \in Nat
        BY <1>1, <2>2
      <3>2. FirstOf(N, s) \o FirstOf(M, new) = Joined(N, s, M, new)
        BY <3>0, Joining
      <3>3. P.steps = FirstOf(N, s)
        BY <1>1 DEF FirstOf
      <3>4. new = FirstOf(M, new)
        BY <3>1 DEF FirstOf
      <3>5. Joined(N, s, M, new) = s2
        BY DEF Joined
      <3> QED BY <3>2, <3>3, <3>4, <3>5
    <2>7. s2 = [m \in 1 .. N + M |-> s2[m]]
      OBVIOUS
    <2>8. \A m \in 1 .. N : s2[m] = s[m] /\ st2[m] = st[m] /\ m \in 1 .. N + M
      BY <1>1, <2>2
    <2>9. \A m \in 1 .. N + M : m \notin 1 .. N =>
             /\ m - N \in 1 .. M /\ st2[m] = at[m - N]
             /\ s2[m] = PlanStep(c[m - N], P.previous)
      BY <1>1, <2>2
    <2>10. st2 \in [1 .. N + M -> Nat]
      <3>1. \A m \in 1 .. N + M : st2[m] \in Nat
        <4> SUFFICES ASSUME NEW m \in 1 .. N + M PROVE st2[m] \in Nat
          OBVIOUS
        <4> HIDE DEF st2
        <4> QED BY <1>1, <2>2, <2>8, <2>9
      <3> QED BY <3>1
    <2>11. Q.previous = N + 1 .. N + M /\ Q.steps = [m \in 1 .. N + M |-> s2[m]]
      BY <2>5, <2>6, <2>7
    <2> HIDE DEF new, s2, st2, Q
    <2>12. \A m \in 1 .. N : /\ st2[m] \in B /\ Layer(o, st2[m]) < i - 1
                             /\ st2[m] \in Below(o, i - 1)
      BY <1>1, <2>8 DEF Below
    <2>13. \A m \in 1 .. N + M : m \notin 1 .. N =>
              st2[m] \in B /\ Layer(o, st2[m]) = i - 1 /\ st2[m] \in InLayer(o, i - 1)
      BY <2>2, <2>9 DEF InLayer
    <2>14. ASSUME NEW j \in 1 .. N + M, NEW k \in 1 .. N + M, j < k PROVE st2[j] < st2[k]
      <3>1. CASE k \in 1 .. N
        <4>1. j \in 1 .. N
          BY <1>1, <2>14, <3>1
        <4> QED BY <1>1, <2>8, <2>14, <3>1, <4>1
      <3>2. CASE k \notin 1 .. N /\ j \in 1 .. N
        BY <1>2, <2>12, <2>13, <3>2
      <3>3. CASE k \notin 1 .. N /\ j \notin 1 .. N
        <4>0. j \in Nat /\ k \in Nat /\ N \in Nat
          BY <1>1, <2>2, <2>14
        <4>1. j - N \in 1 .. M /\ k - N \in 1 .. M /\ j - N < k - N
          BY <2>9, <2>14, <3>3, <4>0
        <4> QED BY <2>2, <2>9, <3>3, <4>1
      <3> QED BY <3>1, <3>2, <3>3
    <2>15. {st2[m] : m \in 1 .. N + M} = Below(o, i)
      <3>1. \A m \in 1 .. N + M : st2[m] \in Below(o, i)
        BY <1>5, <2>12, <2>13
      <3>2. ASSUME NEW p \in Below(o, i - 1) PROVE \E m \in 1 .. N + M : st2[m] = p
        <4>1. PICK m \in 1 .. N : st[m] = p
          BY <1>1
        <4> QED BY <2>8, <4>1
      <3>3. ASSUME NEW p \in InLayer(o, i - 1) PROVE \E m \in 1 .. N + M : st2[m] = p
        <4>1. PICK k \in 1 .. M : at[k] = p
          BY <2>2
        <4>2. N + k \in 1 .. N + M /\ N + k \notin 1 .. N /\ (N + k) - N = k
          BY <1>1, <2>2, <4>1
        <4> QED BY <2>9, <4>1, <4>2
      <3> QED BY <1>5, <3>1, <3>2, <3>3
    <2>16. ASSUME NEW m \in 1 .. N + M PROVE Head(s2[m].objective) = o[st2[m]]
      <3>1. CASE m \in 1 .. N
        BY <1>1, <2>8, <3>1
      <3>2. CASE m \notin 1 .. N
        <4>1. s2[m].objective = c[m - N] /\ m - N \in 1 .. M /\ st2[m] = at[m - N]
          BY <2>9, <3>2, PlanStepHas
        <4> QED BY <2>2, <4>1
      <3> QED BY <3>1, <3>2
    <2>17. ASSUME NEW m \in 1 .. N + M
           PROVE  s2[m].depends_on = {k \in 1 .. N + M : st2[k] \in Latest(o, Layer(o, st2[m]))}
      <3> DEFINE l == Layer(o, st2[m])
      <3>1. l <= i - 1 /\ l \in Nat
        BY <1>2, <1>3, <2>12, <2>13
      <3>2. s2[m].depends_on = {k \in 1 .. N : st[k] \in Latest(o, l)}
        <4>1. CASE m \in 1 .. N
          BY <1>1, <2>8, <4>1
        <4>2. CASE m \notin 1 .. N
          <5>1. s2[m].depends_on = P.previous
            BY <2>9, <4>2, PlanStepHas
          <5>2. Layer(o, st2[m]) = i - 1
            BY <2>13, <4>2
          <5> QED BY <1>1, <5>1, <5>2
        <4> QED BY <4>1, <4>2
      <3> HIDE DEF l
      <3>3. \A k \in 1 .. N + M : k \notin 1 .. N => st2[k] \notin Latest(o, l)
        BY <1>3, <2>13, <3>1 DEF Latest
      <3>4. \A k : k \in 1 .. N + M /\ st2[k] \in Latest(o, l)
                     <=> k \in 1 .. N /\ st[k] \in Latest(o, l)
        BY <2>8, <3>3
      <3> QED BY <3>2, <3>4 DEF l
    <2>18. Q.previous = {k \in 1 .. N + M : st2[k] \in Latest(o, i)}
      <3>1. \A k \in 1 .. N + M : k \in N + 1 .. N + M <=> k \notin 1 .. N
        BY <1>1, <2>2
      <3>2. PICK r \in B : Layer(o, r) = i - 1
        <4>1. 1 \in 1 .. M
          BY <2>2
        <4>2. at[1] \in InLayer(o, i - 1)
          BY <2>2, <4>1
        <4> QED BY <4>2 DEF InLayer
      <3>3. \A k \in 1 .. N : st2[k] \notin Latest(o, i)
        <4> SUFFICES ASSUME NEW k \in 1 .. N, st2[k] \in Latest(o, i) PROVE FALSE
          OBVIOUS
        <4>1. Layer(o, r) <= Layer(o, st2[k])
          BY <1>3, <3>2 DEF Latest
        <4> QED BY <1>2, <1>3, <2>12, <3>2, <4>1
      <3>4. \A k \in 1 .. N + M : k \notin 1 .. N => st2[k] \in Latest(o, i)
        <4> SUFFICES ASSUME NEW k \in 1 .. N + M, k \notin 1 .. N PROVE st2[k] \in Latest(o, i)
          OBVIOUS
        <4>1. st2[k] \in B /\ Layer(o, st2[k]) = i - 1
          BY <2>13
        <4>2. \A q \in B : Layer(o, q) < i => Layer(o, q) <= i - 1
          BY <1>2, <1>3
        <4> QED BY <1>3, <4>1, <4>2 DEF Latest
      <3>5. N + 1 .. N + M \subseteq 1 .. N + M
        BY <1>1, <2>2
      <3> QED BY <2>11, <3>1, <3>3, <3>4, <3>5
    <2>19. N + M \in Nat
      BY <1>1, <2>2
    <2>20. Built(o, i, Q, N + M, s2, st2)
      BY <2>10, <2>11, <2>14, <2>15, <2>16, <2>17, <2>18, <2>19 DEF Built
    <2> QED BY <2>20 DEF Q, g
  <1> QED BY <1>7, <1>8

SomeBuilt(o, n, P) == \E N, s, st : Built(o, n, P, N, s, st)

LEMMA BuiltAll ==
    ASSUME NEW X, NEW o \in Seq(X), NEW G, NEW cut, PartsOf(o, "then", G, cut)
    PROVE  /\ Len(Split(o, "then")) = G
           /\ SomeBuilt(o, G, PlanOf(Split(o, "then"))[G])
  <1> DEFINE groups == Split(o, "then")
             plan == PlanOf(groups)
             T == {n \in 0 .. G : ~ SomeBuilt(o, n, plan[n])}
  <1>1. /\ Cuts(o, "then", G, cut) /\ G \in Nat \ {0}
        /\ groups = [i \in 1 .. G |-> SubSeq(o, cut[i - 1] + 1, cut[i] - 1)]
    BY DEF PartsOf, Cuts
  <1>2. Len(groups) = G /\ \A i \in 1 .. G : groups[i] = SubSeq(o, cut[i - 1] + 1, cut[i] - 1)
    BY <1>1
  <1> HIDE DEF groups
  <1>3. /\ plan[0] = [steps |-> <<>>, previous |-> {}]
        /\ \A n \in 1 .. G : plan[n] = AddGroup(plan[n - 1], groups[n])
    BY <1>1, <1>2, PlanOfFacts
  <1>4. \A p \in Beginnings(o) : Layer(o, p) \in 0 .. G - 1
    BY <1>1, LayersFollow
  <1> HIDE DEF plan
  <1>5. T = {}
    <2> SUFFICES ASSUME T # {} PROVE FALSE
      OBVIOUS
    <2>1. PICK n \in T : \A m \in T : n <= m
      <3>1. T \in SUBSET Nat
        OBVIOUS
      <3> QED BY <3>1, SmallestOf
    <2>2. CASE n = 0
      <3> DEFINE none == [m \in 1 .. 0 |-> 0]
      <3>1. Below(o, 0) = {} /\ Latest(o, 0) = {}
        BY <1>4 DEF Below, Latest
      <3>2. plan[0].steps = [m \in 1 .. 0 |-> none[m]] /\ plan[0].previous = {}
        BY <1>3
      <3>3. Built(o, 0, plan[0], 0, none, none)
        BY <3>1, <3>2 DEF Built
      <3> HIDE DEF none
      <3>4. SomeBuilt(o, 0, plan[0])
        BY <3>3 DEF SomeBuilt
      <3> QED BY <2>1, <2>2, <3>4
    <2>3. CASE n # 0
      <3>1. n \in 1 .. G /\ n - 1 \in 0 .. G /\ n - 1 \notin T
        BY <1>1, <2>1, <2>3
      <3> DEFINE P == plan[n - 1]
      <3>2. plan[n] = AddGroup(P, SubSeq(o, cut[n - 1] + 1, cut[n] - 1))
        BY <1>2, <1>3, <3>1
      <3>3. SomeBuilt(o, n - 1, P)
        BY <3>1
      <3> HIDE DEF P
      <3>4. PICK N, s, st : Built(o, n - 1, P, N, s, st)
        BY <3>3 DEF SomeBuilt
      <3>5. \E N2, s2, st2 :
               Built(o, n, AddGroup(P, SubSeq(o, cut[n - 1] + 1, cut[n] - 1)), N2, s2, st2)
        BY <1>1, <3>1, <3>4, BuildStep
      <3>6. SomeBuilt(o, n, plan[n])
        BY <3>2, <3>5 DEF SomeBuilt
      <3> QED BY <2>1, <3>6
    <2> QED BY <2>2, <2>3
  <1> QED BY <1>1, <1>2, <1>5 DEF plan, groups

\* For every objective the plan is the one the objective describes.
LEMMA PlanIsLayered ==
    ASSUME NEW X, NEW o \in Seq(X)
    PROVE  Layered(o)
  <1> DEFINE B == Beginnings(o)
             L == Len(Split(o, "then"))
             final == PlanOf(Split(o, "then"))[L].steps
  <1>1. PICK G, cut : PartsOf(o, "then", G, cut)
    BY SplitFacts
  <1>2. Cuts(o, "then", G, cut) /\ G \in Nat
    BY <1>1 DEF PartsOf, Cuts
  <1>3. /\ \A p \in B : p \in Nat /\ Layer(o, p) \in 0 .. G - 1
        /\ \A p, q \in B : Layer(o, p) < Layer(o, q) => p < q
    BY <1>2, LayersFollow
  <1>4. L = G /\ SomeBuilt(o, G, PlanOf(Split(o, "then"))[G])
    BY <1>1, BuiltAll
  <1>5. PICK N, s, st : Built(o, G, PlanOf(Split(o, "then"))[G], N, s, st)
    BY <1>4 DEF SomeBuilt
  <1>6. Plan(o) = IF final # <<>> THEN final
                  ELSE <<[general |-> DefaultGeneral, objective |-> o, depends_on |-> {}]>>
    BY DEF Plan
  <1>7. Below(o, G) = B
    BY <1>2, <1>3 DEF Below
  <1>8. /\ N \in Nat /\ final = [m \in 1 .. N |-> s[m]]
        /\ st \in [1 .. N -> Nat] /\ \A j, k \in 1 .. N : j < k => st[j] < st[k]
        /\ {st[m] : m \in 1 .. N} = B
        /\ \A m \in 1 .. N : Head(s[m].objective) = o[st[m]]
        /\ \A m \in 1 .. N :
              s[m].depends_on = {k \in 1 .. N : st[k] \in Latest(o, Layer(o, st[m]))}
    BY <1>4, <1>5, <1>7 DEF Built
  <1> DEFINE Index(p) == Cardinality({q \in B : q <= p})
             Earlier(p) == {q \in B : Layer(o, q) < Layer(o, p)}
             Nearest(p) == {q \in Earlier(p) : \A r \in Earlier(p) : Layer(o, r) <= Layer(o, q)}
  <1>9. /\ Cardinality(B) = N
        /\ \A m \in 1 .. N : Index(st[m]) = m
    <2> DEFINE S == {st[m] : m \in 1 .. N}
    <2>1. Cardinality(S) = N /\ \A m \in 1 .. N : Cardinality(UpTo(S, st[m])) = m
      BY <1>8, RisingCounts
    <2>2. S = B
      BY <1>8
    <2> HIDE DEF S
    <2> QED BY <2>1, <2>2 DEF UpTo
  <1>10. \A m \in 1 .. N : st[m] \in B /\ Index(st[m]) = m
    BY <1>8, <1>9
  <1>11. \A p : Nearest(p) = Latest(o, Layer(o, p))
    BY DEF Latest
  <1> SUFFICES /\ Len(Plan(o)) = IF B = {} THEN 1 ELSE Cardinality(B)
               /\ \A p \in B : /\ Plan(o)[Index(p)].depends_on = {Index(q) : q \in Nearest(p)}
                               /\ Head(Plan(o)[Index(p)].objective) = o[p]
               /\ \A n \in DOMAIN Plan(o) : Plan(o)[n].depends_on \subseteq 1 .. n - 1
    BY DEF Layered
  <1> HIDE DEF Index, Nearest, B, L, final
  <1>13. CASE N = 0
    <2>1. B = {} /\ final = <<>>
      BY <1>8, <1>13
    <2>2. Plan(o) = <<[general |-> DefaultGeneral, objective |-> o, depends_on |-> {}]>>
      BY <1>6, <2>1
    <2> QED BY <2>1, <2>2
  <1>14. CASE N # 0
    <2>1. 1 \in 1 .. N /\ B # {}
      BY <1>8, <1>10, <1>14
    <2>2. final # <<>>
      <3>1. Len(final) = N
        BY <1>8
      <3> QED BY <1>14, <3>1
    <2>3. Len(Plan(o)) = N /\ DOMAIN Plan(o) = 1 .. N /\ \A m \in 1 .. N : Plan(o)[m] = s[m]
      BY <1>8, <1>6, <2>2
    <2>4. ASSUME NEW p \in B
          PROVE  /\ Plan(o)[Index(p)].depends_on = {Index(q) : q \in Nearest(p)}
                 /\ Head(Plan(o)[Index(p)].objective) = o[p]
      <3>1. PICK m \in 1 .. N : st[m] = p
        BY <1>8
      <3>2. Index(p) = m /\ Plan(o)[m] = s[m]
        BY <1>10, <2>3, <3>1
      <3>3. s[m].depends_on = {k \in 1 .. N : st[k] \in Nearest(p)}
        BY <1>8, <1>11, <3>1
      <3>4. Nearest(p) \subseteq B
        BY <1>11 DEF Latest, B
      <3>5. \A k \in 1 .. N : st[k] \in Nearest(p) => k \in {Index(q) : q \in Nearest(p)}
        BY <1>10
      <3>6. \A q \in Nearest(p) : \E k \in 1 .. N : st[k] = q /\ Index(q) = k
        BY <1>8, <1>10, <3>4
      <3>7. {k \in 1 .. N : st[k] \in Nearest(p)} = {Index(q) : q \in Nearest(p)}
        BY <3>5, <3>6
      <3> QED BY <1>8, <3>1, <3>2, <3>3, <3>7
    <2>5. ASSUME NEW n \in 1 .. N PROVE Plan(o)[n].depends_on \subseteq 1 .. n - 1
      <3> SUFFICES ASSUME NEW k \in 1 .. N, st[k] \in Latest(o, Layer(o, st[n]))
                   PROVE  k \in 1 .. n - 1
        BY <1>8, <2>3
      <3>1. st[k] \in B /\ st[n] \in B /\ Layer(o, st[k]) < Layer(o, st[n])
        BY <1>10 DEF Latest
      <3>2. st[k] < st[n] /\ st[k] \in Nat /\ st[n] \in Nat
        BY <1>3, <3>1
      <3>3. ~ n < k /\ n # k
        BY <1>8, <3>2
      <3> QED BY <1>8, <3>3
    <2> QED BY <1>9, <2>1, <2>3, <2>4, <2>5
  <1> QED BY <1>8, <1>13, <1>14

-----------------------------------------------------------------------------
(* The services side by side.                                              *)

ObjectiveTypeOK == objective \in Seq(Words \cup {"then", "and"})

\* A step of one service is a step of it that leaves the others where they are: every
\* part sees its own steps and stutters.
LEMMA StepOfEveryPart ==
    [UNCHANGED part /\ Next]_vars =>
        /\ [SoldierNext]_soldierVars /\ [MemoryNext]_memoryVars
        /\ [WorkflowNext]_workflowVars /\ [LimiterNext]_limiterVars
        /\ [SessionNext]_sessionVars /\ [PlannerNext]_objective /\ [SkillsNext]_skillVars
  <1> SUFFICES ASSUME [UNCHANGED part /\ Next]_vars
               PROVE  /\ [SoldierNext]_soldierVars /\ [MemoryNext]_memoryVars
                      /\ [WorkflowNext]_workflowVars /\ [LimiterNext]_limiterVars
                      /\ [SessionNext]_sessionVars /\ [PlannerNext]_objective
                      /\ [SkillsNext]_skillVars
    OBVIOUS
  <1>1. CASE UNCHANGED vars
    BY <1>1 DEF vars
  <1>2. CASE Next
    BY <1>2 DEF Next
  <1> QED BY <1>1, <1>2

\* So a behaviour of the services is a behaviour of each.
LEMMA BehaviourOfEveryPart ==
    Spec => /\ SoldierSpec /\ MemorySpec /\ WorkflowSpec /\ LimiterSpec /\ SessionSpec
            /\ SkillsSpec
  <1>1. Init => /\ SoldierInit /\ MemoryInit /\ WorkflowInit /\ LimiterInit /\ SessionInit
                /\ SkillsInit
    BY DEF Init
  <1> QED BY <1>1, StepOfEveryPart, PTL
          DEF Spec, SoldierSpec, MemorySpec, WorkflowSpec, LimiterSpec, SessionSpec, SkillsSpec

LEMMA ObjectiveTypeCorrect == Spec => []ObjectiveTypeOK
  <1>1. Init => ObjectiveTypeOK
    BY DEF Init, PlannerInit, ObjectiveTypeOK
  <1>2. ObjectiveTypeOK /\ [PlannerNext]_objective => ObjectiveTypeOK'
    BY DEF ObjectiveTypeOK, PlannerNext, Say
  <1> QED BY <1>1, <1>2, StepOfEveryPart, PTL DEF Spec

\* Whichever service is exercised, the state of every one of them stays of its type.
THEOREM ServicesTypeCorrect == Spec => []TypeOK
  <1>1. /\ SoldierTypeOK /\ MemoryTypeOK /\ WorkflowTypeOK /\ LimiterTypeOK
        /\ SessionTypeOK /\ SkillsTypeOK /\ ObjectiveTypeOK
        => TypeOK
    BY DEF TypeOK, ObjectiveTypeOK
  <1> QED BY <1>1, BehaviourOfEveryPart, ObjectiveTypeCorrect, TypeCorrect, MemoryTypeCorrect,
             WorkflowTypeCorrect, LimiterTypeCorrect, SessionTypeCorrect, SkillsTypeCorrect, PTL

\* What several worker processes keep in the stores they share, the memories
\* (memory.py) and the skills (skill_registry.py), is sound.
THEOREM StoresSoundHolds == Spec => []StoresSound
  <1>1. MemorySound /\ SkillsSound => StoresSound
    BY DEF StoresSound
  <1> QED BY <1>1, BehaviourOfEveryPart, MemorySoundHolds, SkillsSoundHolds, PTL

\* The plan of every objective, however long and with whatever table of keywords, is
\* the one it describes: a step for each clause in the order said, after exactly the
\* steps of the nearest earlier group that has any (KeywordPlanner.plan).
THEOREM PlanLayeredHolds == Spec => []PlanLayered
  <1>1. ObjectiveTypeOK => PlanLayered
    <2> SUFFICES ASSUME ObjectiveTypeOK PROVE PlanLayered
      OBVIOUS
    <2> DEFINE X == Words \cup {"then", "and"}
    <2>1. objective \in Seq(X)
      BY DEF ObjectiveTypeOK
    <2> HIDE DEF X
    <2>2. Layered(objective)
      BY <2>1, PlanIsLayered
    <2> QED BY <2>2 DEF PlanLayered
  <1> QED BY <1>1, ObjectiveTypeCorrect, PTL

=============================================================================
