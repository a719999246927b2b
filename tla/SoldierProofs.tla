---------------------------- MODULE SoldierProofs ----------------------------
(***************************************************************************)
(* Proofs about Soldier and the tool registry under it, for any requests   *)
(* of the Soldiers, any tools and keys, and any changes of the gates.      *)
(***************************************************************************)
EXTENDS Soldier, FiniteSetTheorems, SequenceTheorems, TLAPS

Stage == ToolStage \cup Ended \cup {"new", "memory"}
Links == {"none", "store", "home", "results", "web", "watch", "booking"}
Wordings == {j.words : j \in UNION {Jobs[r] : r \in Caller}}

JobRecord == [who : DOMAIN Catalog, words : Wordings, at : Stage, left : Stage \cup {""},
              why : {"", "refused", "raised", "odd"}, seen : Seq({1, 3, 10}),
              kept : {0, 1, 3, 10}, link : Links, models : Nat]

IsBooking(j) == Kind(j.who) = "movie" /\ Books(j.words)
IsAct(j) == Kind(j.who) = "media" /\ MediaAct(j.words)
Weak(j) == j.seen[1] < Threshold /\ ActionLink(j.words) = "none"

\* Whether a request waits for a tool.
Waits(r) == call[r] # NoTool

\* Which kind of Soldier a request can be where it stands.
PlaceInv(j, busy) ==
    /\ busy => j.at \in ToolStage
    /\ j.at = "memory" => Kind(j.who) = "memory"
    /\ j.at = "tool" => Kind(j.who) = "tool"
    /\ j.at \in ToolStage \ {"tool"} => Kind(j.who) \in {"super", "llm", "media", "movie"}
    /\ j.at \in {"play", "skills", "plan", "youtube"} => Kind(j.who) # "llm"
    /\ j.at \in {"plan", "youtube"} => IsAct(j) /\ j.seen = <<>>
    /\ IsBooking(j) => j.at \in {"new", "completed"}
    /\ Kind(j.who) \in {"tool", "memory"} => j.seen = <<>>

\* What a request has spent on models: the plan of a medium, an answer, and a second
\* one after a weak first.
SpentInv(j, busy) ==
    LET plan == IF IsAct(j) THEN 1 ELSE 0
        heard == IF j.seen = <<>> THEN 0 ELSE 1
        asked == IF busy /\ j.at \in {"model", "plan"} THEN 1 ELSE 0
    IN  /\ j.at = "new" => j.models = 0 /\ j.seen = <<>>
        /\ j.at = "plan" => j.models <= asked
        /\ j.at \in ToolStage \ {"plan"} => j.models <= plan + heard + asked
        /\ j.at \in ToolStage /\ j.seen # <<>> => Weak(j)
        /\ j.models <= plan + 2
        /\ j.models > plan + 1 => j.seen # <<>> /\ Weak(j)
        /\ Kind(j.who) \in {"tool", "memory"} => j.models = 0
        /\ IsBooking(j) => j.models = 0 /\ ~ busy

\* A link to a video is looked for only when the words ask for one.
MayWatch(j) == HasWeb /\ PlayIntent(j.words) /\ ActionLink(j.words) = "results"

HasSkills == "skills.invoke" \in tools

\* The link a request has so far, the tools that brought it where it stands, and what
\* it may end with.
LinkInv(j) ==
    /\ j.at \notin Ended => j.link \in {"none", "watch"}
    /\ j.at \in {"new", "memory", "tool", "plan"} => j.link = "none"
    /\ j.at \notin Ended /\ Kind(j.who) = "llm" => j.link = "none"
    /\ j.at \notin Ended /\ j.link = "watch" => MayWatch(j)
    /\ j.at = "play" => MayWatch(j)
    /\ j.at \in {"web", "youtube"} => HasWeb
    /\ j.at = "skills" => HasSkills
    /\ j.at = "failed" => j.left \in {"model", "tool", "memory"} \/ j.why = "odd"
    /\ j.at = "completed" => j.link \in LinksOf(j)

\* The best answer seen is the one kept.
KeptInv(j) == \A n \in DOMAIN j.seen : j.kept >= j.seen[n]

JobInv(j, busy) == /\ j \in JobRecord
                   /\ PlaceInv(j, busy)
                   /\ SpentInv(j, busy)
                   /\ LinkInv(j)
                   /\ KeptInv(j)

RequestInv(r) == JobInv(run[r], Waits(r))

\* The inductive invariant.
IInv == /\ RegistryTypeOK
        /\ BooksAgree
        /\ run \in [Caller -> JobRecord]
        /\ \A r \in Caller : RequestInv(r)

-----------------------------------------------------------------------------
(* The operators the stages are made of.                                   *)

\* The kinds of Soldier there are.
LEMMA Kinds ==
    ASSUME NEW s \in DOMAIN Catalog
    PROVE  Kind(s) \in {"super", "llm", "media", "movie", "memory", "tool"}
  BY DEF Kind, Catalog, KeepTool

\* A stage has its tool.
Leads(at) == (at = "web" => HasWeb) /\ (at = "skills" => HasSkills)

\* The stages a Soldier may go to, and what makes it go there.
LEMMA Turns ==
    ASSUME NEW j
    PROVE  /\ SkillsOrModel \in {"skills", "model"} /\ Leads(SkillsOrModel)
           /\ Reason(j) \in {"web", "skills", "model"} /\ Leads(Reason(j))
           /\ Leads(Pipeline(j))
           /\ \/ Pipeline(j) \in {"web", "skills", "model"}
              \/ /\ Pipeline(j) = "play"
                 /\ HasWeb /\ PlayIntent(j.words) /\ ActionLink(j.words) = "results"
  BY DEF SkillsOrModel, Reason, Pipeline, Leads, HasSkills

LEMMA ActionLinks == \A w : ActionLink(w) \in {"none", "store", "home", "results", "web"}
  BY DEF ActionLink

LEMMA HeardFacts ==
    ASSUME NEW j \in JobRecord, NEW c \in {1, 3, 10}
    PROVE  /\ Heard(j, c) \in JobRecord
           /\ Heard(j, c).at = j.at /\ Heard(j, c).link = j.link
           /\ Heard(j, c).who = j.who /\ Heard(j, c).words = j.words
           /\ Heard(j, c).models = j.models
           /\ Heard(j, c).left = j.left /\ Heard(j, c).why = j.why
           /\ Heard(j, c).seen = Append(j.seen, c)
           /\ Heard(j, c).kept = IF c >= j.kept THEN c ELSE j.kept
  <1> DEFINE s == Append(j.seen, c)
             m == IF c >= j.kept THEN c ELSE j.kept
  <1>1. s \in Seq({1, 3, 10})
    <2> DEFINE C == {1, 3, 10}
    <2>1. j.seen \in Seq(C) /\ c \in C
      BY DEF JobRecord
    <2> HIDE DEF C
    <2>2. s \in Seq(C)
      BY <2>1
    <2> QED BY <2>2 DEF C
  <1>2. m \in {0, 1, 3, 10}
    BY DEF JobRecord
  <1>3. Heard(j, c) = [j EXCEPT !.seen = s, !.kept = m]
    BY DEF Heard, JobRecord
  <1> HIDE DEF s, m
  <1>4. /\ [j EXCEPT !.seen = s, !.kept = m] \in JobRecord
        /\ [j EXCEPT !.seen = s, !.kept = m].at = j.at
        /\ [j EXCEPT !.seen = s, !.kept = m].link = j.link
        /\ [j EXCEPT !.seen = s, !.kept = m].who = j.who
        /\ [j EXCEPT !.seen = s, !.kept = m].words = j.words
        /\ [j EXCEPT !.seen = s, !.kept = m].models = j.models
        /\ [j EXCEPT !.seen = s, !.kept = m].left = j.left
        /\ [j EXCEPT !.seen = s, !.kept = m].why = j.why
        /\ [j EXCEPT !.seen = s, !.kept = m].seen = s
        /\ [j EXCEPT !.seen = s, !.kept = m].kept = m
    BY <1>1, <1>2 DEF JobRecord
  <1> QED BY <1>3, <1>4 DEF s, m

-----------------------------------------------------------------------------
(* What a request keeps as it goes from stage to stage.                    *)

\* Nothing but the stage, the link and the reason of an end has changed.
SameWork(j, k) == /\ k.who = j.who /\ k.words = j.words
                  /\ k.seen = j.seen /\ k.kept = j.kept /\ k.models = j.models

LEMMA SameFacts ==
    ASSUME NEW j, NEW k, SameWork(j, k)
    PROVE  /\ Kind(k.who) = Kind(j.who) /\ k.seen = j.seen /\ k.models = j.models
           /\ k.words = j.words
           /\ IsAct(k) <=> IsAct(j)
           /\ IsBooking(k) <=> IsBooking(j)
           /\ Weak(k) <=> Weak(j)
           /\ KeptInv(k) <=> KeptInv(j)
  BY DEF SameWork, IsAct, IsBooking, Weak, KeptInv

\* Between two calls nothing is spent.
LEMMA SpentGoingOn ==
    ASSUME NEW j \in JobRecord, NEW busy \in BOOLEAN, JobInv(j, busy),
           NEW k \in JobRecord, SameWork(j, k),
           j.at \in {"new", "plan", "play", "web", "skills", "youtube"}, ~ IsBooking(j),
           k.at \in {"play", "web", "skills", "model", "youtube"}
    PROVE  SpentInv(k, FALSE) /\ KeptInv(k)
  <1>1. j.models \in Nat
    BY DEF JobRecord
  <1>2. KeptInv(k)
    BY SameFacts DEF JobInv
  <1> DEFINE plan == IF IsAct(j) THEN 1 ELSE 0
             heard == IF j.seen = <<>> THEN 0 ELSE 1
  <1>3. /\ k.at \in ToolStage \ {"plan"}
        /\ k.at \in ToolStage /\ k.at # "new" /\ k.at # "plan"
    BY DEF ToolStage
  <1>4. j.models <= plan + heard
    <2>1. CASE j.at = "new"
      BY <2>1, <1>1 DEF JobInv, SpentInv
    <2>2. CASE j.at = "plan"
      BY <2>2, <1>1 DEF JobInv, SpentInv, PlaceInv
    <2>3. CASE j.at \in {"play", "web", "skills", "youtube"}
      BY <2>3, <1>1 DEF JobInv, SpentInv, ToolStage
    <2> QED BY <2>1, <2>2, <2>3
  <1>5. j.seen # <<>> => Weak(j)
    BY DEF JobInv, SpentInv, PlaceInv, ToolStage
  <1>6. /\ j.models <= plan + 2
        /\ j.models > plan + 1 => j.seen # <<>> /\ Weak(j)
        /\ Kind(j.who) \in {"tool", "memory"} => j.models = 0
    BY <1>1 DEF JobInv, SpentInv
  <1> QED BY <1>2, <1>3, <1>4, <1>5, <1>6, SameFacts DEF SpentInv

\* At an end nothing more is spent than before.
LEMMA AtAnEnd ==
    ASSUME NEW j \in JobRecord, NEW busy \in BOOLEAN, JobInv(j, busy),
           NEW k \in JobRecord, SameWork(j, k), k.at \in Ended, ~ IsBooking(j)
    PROVE  PlaceInv(k, FALSE) /\ SpentInv(k, FALSE) /\ KeptInv(k)
  <1>1. /\ k.at \notin ToolStage /\ k.at # "new" /\ k.at # "plan"
        /\ k.at \notin {"memory", "tool", "plan", "youtube", "play", "skills"}
    BY DEF ToolStage, Ended
  <1>2. KeptInv(k)
    BY SameFacts DEF JobInv
  <1>3. SpentInv(k, FALSE)
    BY <1>1, SameFacts DEF JobInv, SpentInv
  <1>4. PlaceInv(k, FALSE)
    BY <1>1, SameFacts DEF JobInv, PlaceInv, ToolStage
  <1> QED BY <1>2, <1>3, <1>4

\* The assignments of the stages.
LEMMA GoTo ==
    ASSUME NEW j \in JobRecord, NEW at \in Stage
    PROVE  LET k == [j EXCEPT !.at = at]
           IN  k \in JobRecord /\ SameWork(j, k) /\ k.at = at /\ k.link = j.link
               /\ k.left = j.left /\ k.why = j.why
  BY DEF JobRecord, SameWork

LEMMA CompleteFacts ==
    ASSUME NEW j \in JobRecord, NEW link \in Links
    PROVE  /\ Complete(j, link) \in JobRecord
           /\ SameWork(j, Complete(j, link))
           /\ Complete(j, link).at = "completed" /\ Complete(j, link).link = link
  BY DEF Complete, JobRecord, SameWork, Stage, Ended

LEMMA FailedFacts ==
    ASSUME NEW j \in JobRecord, NEW why \in {"refused", "raised", "odd"}
    PROVE  /\ Failed(j, why) \in JobRecord
           /\ SameWork(j, Failed(j, why))
           /\ Failed(j, why).at = "failed" /\ Failed(j, why).left = j.at
           /\ Failed(j, why).why = why
  BY DEF Failed, JobRecord, SameWork, Stage, Ended

\* A request that ends has a link it may end with.
LEMMA EndsWith ==
    ASSUME NEW j \in JobRecord, NEW busy \in BOOLEAN, JobInv(j, busy), ~ IsBooking(j),
           NEW link \in Links, link \in LinksOf(Complete(j, link))
    PROVE  JobInv(Complete(j, link), FALSE)
  <1> DEFINE k == Complete(j, link)
  <1>1. k \in JobRecord /\ SameWork(j, k) /\ k.at = "completed" /\ k.link = link
    BY CompleteFacts
  <1>2. link \in LinksOf(k)
    OBVIOUS
  <1> HIDE DEF k
  <1>3. PlaceInv(k, FALSE) /\ SpentInv(k, FALSE) /\ KeptInv(k)
    <2>1. k.at \in Ended
      BY <1>1 DEF Ended
    <2> QED BY <2>1, <1>1, AtAnEnd
  <1>4. LinkInv(k)
    BY <1>1, <1>2 DEF LinkInv, Ended
  <1>5. JobInv(k, FALSE)
    BY <1>1, <1>3, <1>4 DEF JobInv
  <1> QED BY <1>5 DEF k

\* A request that fails does so where it consists of what failed, or on an odd plan.
LEMMA FailsAt ==
    ASSUME NEW j \in JobRecord, NEW busy \in BOOLEAN, JobInv(j, busy), ~ IsBooking(j),
           NEW why \in {"refused", "raised", "odd"},
           j.at \in {"model", "tool"} \/ why = "odd"
    PROVE  JobInv(Failed(j, why), FALSE)
  <1> DEFINE k == Failed(j, why)
  <1>1. k \in JobRecord /\ SameWork(j, k) /\ k.at = "failed" /\ k.left = j.at /\ k.why = why
    BY FailedFacts
  <1> HIDE DEF k
  <1>2. PlaceInv(k, FALSE) /\ SpentInv(k, FALSE) /\ KeptInv(k)
    <2>1. k.at \in Ended
      BY <1>1 DEF Ended
    <2> QED BY <2>1, <1>1, AtAnEnd
  <1>3. LinkInv(k)
    BY <1>1 DEF LinkInv, Ended
  <1>4. JobInv(k, FALSE)
    BY <1>1, <1>2, <1>3 DEF JobInv
  <1> QED BY <1>4 DEF k

\* What the links of an end are, of a request that is not a booking.
LEMMA LinksOfFacts ==
    ASSUME NEW j \in JobRecord, NEW k \in JobRecord, k.who = j.who, k.words = j.words,
           ~ IsBooking(j)
    PROVE  /\ Kind(j.who) \in {"tool", "memory"} => LinksOf(k) = {"none"}
           /\ IsAct(j) /\ k.seen = <<>> =>
                 {"none", "results"} \subseteq LinksOf(k) /\ (HasWeb => "watch" \in LinksOf(k))
           /\ Kind(j.who) \notin {"tool", "memory"} /\ (IsAct(j) => k.seen # <<>>) =>
                 /\ ActionLink(j.words) \in LinksOf(k)
                 /\ Kind(j.who) # "llm" /\ HasWeb /\ PlayIntent(j.words)
                      /\ ActionLink(j.words) = "results" => "watch" \in LinksOf(k)
  BY DEF LinksOf, IsBooking, IsAct

-----------------------------------------------------------------------------
(* From stage to stage.                                                    *)

Working == {"super", "llm", "media", "movie"}

\* To a search, the skills or the model.
LEMMA Onward ==
    ASSUME NEW j \in JobRecord, NEW busy \in BOOLEAN, JobInv(j, busy), ~ IsBooking(j),
           j.at \in {"new", "plan", "play", "web", "skills"}, Kind(j.who) \in Working,
           NEW k \in JobRecord, SameWork(j, k),
           k.at \in {"play", "web", "skills", "model"},
           k.at \in {"play", "skills"} => Kind(j.who) # "llm",
           k.at = "play" => MayWatch(j), Leads(k.at),
           k.link = j.link \/ (k.link = "watch" /\ Kind(j.who) # "llm" /\ MayWatch(j))
    PROVE  JobInv(k, FALSE)
  <1>1. SpentInv(k, FALSE) /\ KeptInv(k)
    BY SpentGoingOn
  <1>2. k.at \in ToolStage /\ k.at \notin Ended /\ j.at \notin Ended
    BY DEF ToolStage, Ended
  <1>3. PlaceInv(k, FALSE)
    BY <1>2, SameFacts DEF PlaceInv, Working
  <1>4. MayWatch(k) <=> MayWatch(j)
    BY DEF MayWatch, SameWork
  <1>5. LinkInv(k)
    <2>1. /\ j.link \in {"none", "watch"}
          /\ j.link = "watch" => MayWatch(j)
          /\ Kind(j.who) = "llm" => j.link = "none"
      BY <1>2 DEF JobInv, LinkInv
    <2> QED BY <1>2, <1>4, <2>1, SameFacts DEF LinkInv, Ended, Leads
  <1> QED BY <1>1, <1>3, <1>5 DEF JobInv

\* What comes of an extra, whatever it has found.
LEMMA AfterExtraStep ==
    ASSUME NEW j \in JobRecord, NEW busy \in BOOLEAN, JobInv(j, busy), NEW found \in BOOLEAN,
           j.at \in {"play", "web", "skills", "youtube"}
    PROVE  JobInv(AfterExtra(j, found), FALSE)
  <1>1. /\ ~ IsBooking(j) /\ Kind(j.who) \in Working
        /\ j.at \in {"play", "skills", "youtube"} => Kind(j.who) # "llm"
    BY DEF JobInv, PlaceInv, ToolStage, Working
  <1>2. CASE j.at = "play"
    <2> DEFINE at == Reason(j)
               link == IF found THEN "watch" ELSE j.link
               k == [j EXCEPT !.at = at, !.link = link]
    <2>1. at \in {"web", "skills", "model"} /\ at \in Stage /\ Leads(at)
      BY Turns DEF Stage, ToolStage
    <2>2. link \in Links
      BY DEF JobRecord, Links
    <2>3. AfterExtra(j, found) = k
      BY <1>2 DEF AfterExtra, JobRecord
    <2>4. link = j.link \/ link = "watch"
      OBVIOUS
    <2> HIDE DEF at, link
    <2>5. k \in JobRecord /\ SameWork(j, k) /\ k.at = at /\ k.link = link
      BY <2>1, <2>2 DEF JobRecord, SameWork
    <2>6. MayWatch(j)
      BY <1>2 DEF JobInv, LinkInv
    <2> HIDE DEF k
    <2>7. JobInv(k, FALSE)
      BY <1>1, <1>2, <2>1, <2>4, <2>5, <2>6, Onward
    <2> QED BY <2>3, <2>7
  <1>3. CASE j.at \in {"web", "skills"}
    <2> DEFINE at == IF j.at = "web" /\ Kind(j.who) # "llm" THEN SkillsOrModel ELSE "model"
               k == [j EXCEPT !.at = at]
    <2>1. /\ at \in {"skills", "model"} /\ at \in Stage /\ Leads(at)
          /\ at = "skills" => Kind(j.who) # "llm"
      BY Turns DEF Stage, ToolStage, Leads
    <2>2. AfterExtra(j, found) = k
      BY <1>3 DEF AfterExtra
    <2> HIDE DEF at
    <2>3. k \in JobRecord /\ SameWork(j, k) /\ k.at = at /\ k.link = j.link
      BY <2>1, GoTo
    <2> HIDE DEF k
    <2>4. JobInv(k, FALSE)
      BY <1>1, <1>3, <2>1, <2>3, Onward
    <2> QED BY <2>2, <2>4
  <1>4. CASE j.at = "youtube"
    <2> DEFINE link == IF found THEN "watch" ELSE "results"
    <2>1. link \in Links /\ link \in {"watch", "results"}
      BY DEF Links
    <2>2. AfterExtra(j, found) = Complete(j, link)
      BY <1>4 DEF AfterExtra
    <2> HIDE DEF link
    <2>3. IsAct(j) /\ j.seen = <<>> /\ HasWeb
      BY <1>4 DEF JobInv, PlaceInv, LinkInv
    <2>4. Complete(j, link) \in JobRecord /\ SameWork(j, Complete(j, link))
      BY <2>1, CompleteFacts
    <2>5. link \in LinksOf(Complete(j, link))
      BY <1>1, <2>1, <2>3, <2>4, LinksOfFacts DEF SameWork
    <2> QED BY <1>1, <2>1, <2>2, <2>5, EndsWith
  <1> QED BY <1>2, <1>3, <1>4

\* What comes of a medium's plan.
LEMMA AfterPlanStep ==
    ASSUME NEW j \in JobRecord, NEW busy \in BOOLEAN, JobInv(j, busy), NEW plan \in Plans,
           j.at = "plan"
    PROVE  JobInv(AfterPlan(j, plan), FALSE)
  <1>1. /\ ~ IsBooking(j) /\ IsAct(j) /\ j.seen = <<>> /\ j.link = "none"
        /\ Kind(j.who) \in Working /\ Kind(j.who) # "llm"
    BY DEF JobInv, PlaceInv, LinkInv, ToolStage, Working, IsAct
  <1>2. plan \in {"play", "ask", "none", "odd"}
    BY DEF Plans, AskedFor
  <1>3. ASSUME NEW link \in {"none", "results"} PROVE JobInv(Complete(j, link), FALSE)
    <2>1. link \in Links
      BY DEF Links
    <2>2. Complete(j, link) \in JobRecord /\ SameWork(j, Complete(j, link))
      BY <2>1, CompleteFacts
    <2>3. link \in LinksOf(Complete(j, link))
      BY <1>1, <2>2, LinksOfFacts DEF SameWork
    <2> QED BY <1>1, <2>1, <2>3, EndsWith
  <1>4. CASE plan = "play" /\ HasWeb
    <2> DEFINE k == [j EXCEPT !.at = "youtube"]
    <2>1. "youtube" \in Stage /\ "youtube" \in ToolStage
      BY DEF Stage, ToolStage
    <2>2. AfterPlan(j, plan) = k
      BY <1>4 DEF AfterPlan
    <2>3. k \in JobRecord /\ SameWork(j, k) /\ k.at = "youtube" /\ k.link = j.link
      BY <2>1, GoTo
    <2> HIDE DEF k
    <2>4. SpentInv(k, FALSE) /\ KeptInv(k)
      BY <1>1, <2>3, SpentGoingOn
    <2>5. PlaceInv(k, FALSE)
      BY <1>1, <2>1, <2>3, SameFacts DEF PlaceInv, Working
    <2>6. LinkInv(k)
      BY <1>1, <1>4, <2>3 DEF LinkInv, Ended
    <2> QED BY <2>2, <2>3, <2>4, <2>5, <2>6 DEF JobInv
  <1>5. CASE plan = "play" /\ ~ HasWeb
    BY <1>3, <1>5 DEF AfterPlan
  <1>6. CASE plan = "ask"
    BY <1>3, <1>6 DEF AfterPlan
  <1>7. CASE plan = "none"
    <2> DEFINE at == Pipeline(j)
               k == [j EXCEPT !.at = at]
    <2>1. /\ at \in {"play", "web", "skills", "model"} /\ at \in Stage /\ Leads(at)
          /\ at = "play" => MayWatch(j)
      BY Turns DEF MayWatch, Stage, ToolStage
    <2>2. AfterPlan(j, plan) = k
      BY <1>7 DEF AfterPlan
    <2> HIDE DEF at
    <2>3. k \in JobRecord /\ SameWork(j, k) /\ k.at = at /\ k.link = j.link
      BY <2>1, GoTo
    <2> HIDE DEF k
    <2>4. JobInv(k, FALSE)
      BY <1>1, <2>1, <2>3, Onward
    <2> QED BY <2>2, <2>4
  <1>8. CASE plan = "odd"
    BY <1>1, <1>8, FailsAt DEF AfterPlan
  <1> QED BY <1>2, <1>4, <1>5, <1>6, <1>7, <1>8

\* A call that raises, or is refused.
LEMMA RaisedStep ==
    ASSUME NEW j \in JobRecord, NEW busy \in BOOLEAN, JobInv(j, busy), j.at \in ToolStage,
           NEW why \in {"refused", "raised"}
    PROVE  JobInv(Raised(j, why), FALSE)
  <1>1. CASE j.at \in {"play", "web", "skills", "youtube"}
    BY <1>1, AfterExtraStep DEF Raised
  <1>2. CASE j.at = "plan"
    <2>1. "none" \in Plans
      BY DEF Plans
    <2> QED BY <1>2, <2>1, AfterPlanStep DEF Raised
  <1>3. CASE j.at \in {"model", "tool"}
    <2>1. ~ IsBooking(j)
      BY <1>3 DEF JobInv, PlaceInv
    <2> QED BY <1>3, <2>1, FailsAt DEF Raised
  <1> QED BY <1>1, <1>2, <1>3 DEF ToolStage

-----------------------------------------------------------------------------
(* The answer of a model.                                                  *)

LEMMA AppendFacts ==
    ASSUME NEW S, NEW s \in Seq(S), NEW c \in S
    PROVE  /\ Append(s, c) # <<>>
           /\ Append(s, c)[1] = IF s = <<>> THEN c ELSE s[1]
           /\ \A n \in DOMAIN Append(s, c) : Append(s, c)[n] = c \/ (n \in DOMAIN s /\ Append(s, c)[n] = s[n])
  <1>1. Len(s) \in Nat /\ Append(s, c) # <<>> /\ (s # <<>> => 1 \in 1 .. Len(s))
    <2>1. Len(s) \in Nat /\ (s # <<>> => Len(s) # 0)
      BY EmptySeq
    <2>2. Append(s, c) # <<>>
      BY AppendProperties
    <2> QED BY <2>1, <2>2
  <1>2. /\ DOMAIN Append(s, c) = 1 .. Len(s) + 1
        /\ DOMAIN s = 1 .. Len(s)
        /\ \A n \in 1 .. Len(s) : Append(s, c)[n] = s[n]
        /\ Append(s, c)[Len(s) + 1] = c
    <2>1. Append(s, c) \in Seq(S) /\ Len(Append(s, c)) = Len(s) + 1
      OBVIOUS
    <2>2. DOMAIN Append(s, c) = 1 .. Len(s) + 1 /\ DOMAIN s = 1 .. Len(s)
      BY <2>1
    <2>3. /\ \A n \in 1 .. Len(s) : Append(s, c)[n] = s[n]
          /\ Append(s, c)[Len(s) + 1] = c
      OBVIOUS
    <2> QED BY <2>2, <2>3
  <1>3. s = <<>> => Len(s) = 0
    OBVIOUS
  <1> QED BY <1>1, <1>2, <1>3

\* Hearing an answer spends what was asked; a second answer follows a weak first.
LEMMA HeardWork ==
    ASSUME NEW j \in JobRecord, NEW busy \in BOOLEAN, JobInv(j, busy), j.at = "model",
           NEW c \in {1, 3, 10}
    PROVE  LET h == Heard(j, c)
               plan == IF IsAct(j) THEN 1 ELSE 0
           IN  /\ h.seen # <<>> /\ KeptInv(h)
               /\ h.models <= plan + 2
               /\ h.models > plan + 1 => Weak(h)
               /\ j.seen = <<>> => h.models <= plan + 1 /\ h.seen[1] = c
  <1> DEFINE h == Heard(j, c)
             plan == IF IsAct(j) THEN 1 ELSE 0
  <1>1. /\ h.seen = Append(j.seen, c) /\ h.words = j.words /\ h.models = j.models
        /\ h.kept = IF c >= j.kept THEN c ELSE j.kept
    BY HeardFacts
  <1> HIDE DEF h
  <1>2. /\ h.seen # <<>>
        /\ h.seen[1] = IF j.seen = <<>> THEN c ELSE j.seen[1]
        /\ \A n \in DOMAIN h.seen : h.seen[n] = c \/ (n \in DOMAIN j.seen /\ h.seen[n] = j.seen[n])
    <2> DEFINE C == {1, 3, 10}
    <2>1. j.seen \in Seq(C) /\ c \in C
      BY DEF JobRecord
    <2> HIDE DEF C
    <2> QED BY <1>1, <2>1, AppendFacts
  <1>3. KeptInv(h)
    <2>1. /\ j.kept \in Nat /\ c \in Nat
          /\ \A n \in DOMAIN j.seen : j.seen[n] \in Nat
      <3>1. j.seen \in Seq({1, 3, 10}) /\ j.kept \in {0, 1, 3, 10}
        BY DEF JobRecord
      <3>2. \A n \in DOMAIN j.seen : j.seen[n] \in {1, 3, 10}
        BY <3>1
      <3> QED BY <3>1, <3>2
    <2>2. h.kept \in Nat /\ h.kept >= c /\ h.kept >= j.kept
      BY <1>1, <2>1
    <2>3. \A n \in DOMAIN j.seen : j.kept >= j.seen[n]
      BY DEF JobInv, KeptInv
    <2> QED BY <1>2, <2>1, <2>2, <2>3 DEF KeptInv
  <1>4. /\ j.models \in Nat
        /\ j.models <= plan + (IF j.seen = <<>> THEN 0 ELSE 1) + 1
        /\ j.seen # <<>> => Weak(j)
    <2>1. j.models \in Nat
      BY DEF JobRecord
    <2>2. j.at \in ToolStage /\ j.at \in ToolStage \ {"plan"}
      BY DEF ToolStage
    <2>3. j.seen # <<>> => Weak(j)
      BY <2>2 DEF JobInv, SpentInv
    <2>4. j.models <= plan + (IF j.seen = <<>> THEN 0 ELSE 1)
                        + (IF busy /\ j.at \in {"model", "plan"} THEN 1 ELSE 0)
      BY <2>2 DEF JobInv, SpentInv
    <2> QED BY <2>1, <2>3, <2>4
  <1>5. j.seen # <<>> => Weak(h)
    BY <1>1, <1>2, <1>4 DEF Weak
  <1>6. h.models <= plan + 2 /\ (j.seen = <<>> => h.models <= plan + 1)
    BY <1>1, <1>4
  <1>7. h.models > plan + 1 => Weak(h)
    BY <1>1, <1>4, <1>5, <1>6
  <1> QED BY <1>2, <1>3, <1>6, <1>7 DEF h

\* A request that ends with an answer.
LEMMA AnsweredStep ==
    ASSUME NEW j \in JobRecord, NEW busy \in BOOLEAN, JobInv(j, busy), j.at = "model",
           NEW c \in {1, 3, 10}, NEW link \in Links,
           \/ link = ActionLink(j.words)
           \/ link = "watch" /\ Kind(j.who) # "llm" /\ MayWatch(j)
    PROVE  JobInv(Complete(Heard(j, c), link), FALSE)
  <1> DEFINE h == Heard(j, c)
             k == Complete(h, link)
             plan == IF IsAct(j) THEN 1 ELSE 0
  <1>1. h \in JobRecord /\ h.who = j.who /\ h.words = j.words
    BY HeardFacts
  <1>2. /\ h.seen # <<>> /\ KeptInv(h)
        /\ h.models <= plan + 2
        /\ h.models > plan + 1 => Weak(h)
    BY HeardWork
  <1>3. /\ ~ IsBooking(j) /\ Kind(j.who) \in Working
    BY DEF JobInv, PlaceInv, ToolStage, Working
  <1> HIDE DEF h
  <1>4. k \in JobRecord /\ SameWork(h, k) /\ k.at = "completed" /\ k.link = link
    BY <1>1, CompleteFacts
  <1> HIDE DEF k
  <1>5. /\ Kind(k.who) = Kind(j.who) /\ k.who = j.who /\ k.words = j.words
        /\ k.seen # <<>> /\ KeptInv(k)
        /\ k.models <= plan + 2 /\ (k.models > plan + 1 => Weak(k))
        /\ IsAct(k) <=> IsAct(j)
        /\ ~ IsBooking(k)
    <2>1. k.who = j.who /\ k.words = j.words /\ k.seen = h.seen /\ k.models = h.models
      BY <1>1, <1>4 DEF SameWork
    <2>2. (Weak(k) <=> Weak(h)) /\ (KeptInv(k) <=> KeptInv(h))
      BY <1>4, SameFacts
    <2>3. (IsAct(k) <=> IsAct(j)) /\ (IsBooking(k) <=> IsBooking(j))
      BY <2>1 DEF IsAct, IsBooking
    <2> QED BY <2>1, <2>2, <2>3, <1>2, <1>3
  <1>6. k.at \notin ToolStage /\ k.at \in Ended /\ Kind(k.who) \notin {"tool", "memory"}
    BY <1>3, <1>4, <1>5 DEF ToolStage, Ended, Working
  <1>7. PlaceInv(k, FALSE)
    BY <1>4, <1>5, <1>6 DEF PlaceInv, ToolStage
  <1>8. SpentInv(k, FALSE)
    BY <1>4, <1>5, <1>6 DEF SpentInv
  <1>9. link \in LinksOf(k)
    BY <1>3, <1>4, <1>5, <1>6, LinksOfFacts DEF MayWatch
  <1>10. LinkInv(k)
    BY <1>4, <1>9, <1>6 DEF LinkInv
  <1> QED BY <1>4, <1>5, <1>7, <1>8, <1>10 DEF JobInv, k, h

\* A weak first answer to a request without an action leads to a second.
LEMMA RecoveryStep ==
    ASSUME NEW j \in JobRecord, NEW busy \in BOOLEAN, JobInv(j, busy), j.at = "model",
           NEW c \in {1, 3, 10}, Recovers(j, c), Kind(j.who) # "llm"
    PROVE  JobInv([Heard(j, c) EXCEPT !.at = Reason(j)], FALSE)
  <1> DEFINE h == Heard(j, c)
             at == Reason(j)
             k == [h EXCEPT !.at = at]
             plan == IF IsAct(j) THEN 1 ELSE 0
  <1>1. h \in JobRecord /\ h.who = j.who /\ h.words = j.words /\ h.link = j.link
    BY HeardFacts
  <1>2. /\ h.seen # <<>> /\ KeptInv(h)
        /\ h.models <= plan + 1 /\ h.seen[1] = c
        /\ c < Threshold /\ ActionLink(j.words) = "none"
    BY HeardWork DEF Recovers
  <1>3. Weak(h)
    BY <1>1, <1>2 DEF Weak
  <1>4. /\ ~ IsBooking(j) /\ Kind(j.who) \in Working
        /\ j.link \in {"none", "watch"} /\ (j.link = "watch" => MayWatch(j))
    BY DEF JobInv, PlaceInv, LinkInv, ToolStage, Working, Ended
  <1>5. at \in {"web", "skills", "model"} /\ at \in Stage /\ Leads(at)
    BY Turns DEF Stage, ToolStage
  <1> HIDE DEF h, at
  <1>6. k \in JobRecord /\ SameWork(h, k) /\ k.at = at /\ k.link = h.link
    BY <1>1, <1>5, GoTo
  <1> HIDE DEF k
  <1>7. /\ Kind(k.who) = Kind(j.who) /\ k.words = j.words /\ k.link = j.link
        /\ k.seen # <<>> /\ KeptInv(k) /\ Weak(k)
        /\ k.models <= plan + 1 /\ k.models \in Nat
        /\ IsAct(k) <=> IsAct(j)
        /\ ~ IsBooking(k)
        /\ MayWatch(k) <=> MayWatch(j)
    <2>1. k.who = j.who /\ k.words = j.words /\ k.seen = h.seen /\ k.models = h.models
      BY <1>1, <1>6 DEF SameWork
    <2>2. (Weak(k) <=> Weak(h)) /\ (KeptInv(k) <=> KeptInv(h))
      BY <1>6, SameFacts
    <2>3. /\ IsAct(k) <=> IsAct(j)
          /\ IsBooking(k) <=> IsBooking(j)
          /\ MayWatch(k) <=> MayWatch(j)
      BY <2>1 DEF IsAct, IsBooking, MayWatch
    <2>4. k.models \in Nat
      BY <1>6 DEF JobRecord
    <2> QED BY <2>1, <2>2, <2>3, <2>4, <1>1, <1>2, <1>3, <1>4, <1>6
  <1>8. k.at \in {"web", "skills", "model"} /\ k.at \in ToolStage /\ k.at \notin Ended
    BY <1>5, <1>6 DEF ToolStage, Ended
  <1>9. PlaceInv(k, FALSE)
    BY <1>4, <1>7, <1>8 DEF PlaceInv, Working
  <1>10. SpentInv(k, FALSE)
    BY <1>4, <1>7, <1>8 DEF SpentInv, Working
  <1>11. LinkInv(k)
    <2>1. Leads(k.at)
      BY <1>5, <1>6
    <2> QED BY <1>4, <1>7, <1>8, <2>1 DEF LinkInv, Ended, Leads
  <1>12. JobInv(k, FALSE)
    BY <1>6, <1>7, <1>9, <1>10, <1>11 DEF JobInv
  <1> QED BY <1>12 DEF k, h, at

\* What may come of an answer, at whatever stage.
LEMMA AnswersStep ==
    ASSUME NEW j \in JobRecord, NEW busy \in BOOLEAN, JobInv(j, busy), j.at \in ToolStage,
           NEW k \in Answers(j)
    PROVE  JobInv(k, FALSE)
  <1>1. CASE j.at = "model"
    <2>1. PICK text \in {"good", "short", "empty"} :
            k = IF Kind(j.who) = "llm" THEN LlmAnswer(j, Confidence(text))
                ELSE Judge(j, Confidence(text))
      BY <1>1 DEF Answers
    <2> DEFINE c == Confidence(text)
               link == IF Kind(j.who) # "llm" /\ j.link = "watch" THEN "watch"
                       ELSE ActionLink(j.words)
    <2>2. c \in {1, 3, 10}
      BY DEF Confidence
    <2>3. \/ k = Complete(Heard(j, c), link)
          \/ /\ Recovers(j, c) /\ Kind(j.who) # "llm"
             /\ k = [Heard(j, c) EXCEPT !.at = Reason(j)]
      BY <2>1 DEF LlmAnswer, Judge
    <2>4. link \in Links
      BY ActionLinks DEF Links
    <2>5. j.link = "watch" => MayWatch(j)
      BY <1>1 DEF JobInv, LinkInv, Ended
    <2>6. link = ActionLink(j.words) \/ (link = "watch" /\ Kind(j.who) # "llm" /\ MayWatch(j))
      BY <2>5
    <2> HIDE DEF c, link
    <2> QED BY <1>1, <2>2, <2>3, <2>4, <2>6, AnsweredStep, RecoveryStep
  <1>2. CASE j.at = "plan"
    BY <1>2, AfterPlanStep DEF Answers
  <1>3. CASE j.at = "tool"
    <2>1. k = Complete(j, "none") /\ "none" \in Links
      BY <1>3 DEF Answers, Links
    <2>2. ~ IsBooking(j) /\ Kind(j.who) = "tool"
      BY <1>3 DEF JobInv, PlaceInv
    <2>3. Complete(j, "none") \in JobRecord /\ SameWork(j, Complete(j, "none"))
      BY <2>1, CompleteFacts
    <2>4. "none" \in LinksOf(Complete(j, "none"))
      BY <2>2, <2>3, LinksOfFacts DEF SameWork
    <2> QED BY <2>1, <2>2, <2>4, EndsWith
  <1>4. CASE j.at \in {"play", "web", "skills", "youtube"}
    <2>1. PICK found \in BOOLEAN : k = AfterExtra(j, found)
      BY <1>4 DEF Answers
    <2> QED BY <1>4, <2>1, AfterExtraStep
  <1> QED BY <1>1, <1>2, <1>3, <1>4 DEF ToolStage

-----------------------------------------------------------------------------
(* Beginning, calling and giving up.                                       *)

\* A booking is prepared, and that is all.
LEMMA BookingStep ==
    ASSUME NEW j \in JobRecord, JobInv(j, FALSE), j.at = "new", IsBooking(j)
    PROVE  JobInv(BookingApproval(j), FALSE)
  <1> DEFINE k == Complete(j, "booking")
  <1>1. "booking" \in Links
    BY DEF Links
  <1>2. k \in JobRecord /\ SameWork(j, k) /\ k.at = "completed" /\ k.link = "booking"
    BY <1>1, CompleteFacts
  <1> HIDE DEF k
  <1>3. j.models = 0 /\ j.seen = <<>> /\ Kind(j.who) = "movie"
    BY DEF JobInv, SpentInv, IsBooking
  <1>4. /\ k.seen = <<>> /\ k.models = 0 /\ Kind(k.who) = "movie" /\ KeptInv(k)
        /\ Books(k.words)
    BY <1>2, <1>3, SameFacts DEF JobInv, IsBooking
  <1>5. k.at \notin ToolStage /\ k.at \in Ended
    BY <1>2 DEF ToolStage, Ended
  <1>6. PlaceInv(k, FALSE)
    BY <1>2, <1>4, <1>5 DEF PlaceInv, ToolStage
  <1>7. SpentInv(k, FALSE)
    BY <1>2, <1>4, <1>5 DEF SpentInv
  <1>8. LinkInv(k)
    BY <1>2, <1>4, <1>5 DEF LinkInv, LinksOf
  <1> QED BY <1>2, <1>4, <1>6, <1>7, <1>8 DEF JobInv, k, BookingApproval

\* work, up to its first call.
LEMMA StartStep ==
    ASSUME NEW j \in JobRecord, JobInv(j, FALSE), j.at = "new", ~ IsBooking(j)
    PROVE  JobInv([j EXCEPT !.at = FirstStage(j)], FALSE)
  <1> DEFINE at == FirstStage(j)
             k == [j EXCEPT !.at = at]
  <1>1. j.who \in DOMAIN Catalog
    BY DEF JobRecord
  <1>2. Kind(j.who) \in {"super", "llm", "media", "movie", "memory", "tool"}
    BY <1>1, Kinds
  <1>3. /\ j.models = 0 /\ j.seen = <<>> /\ j.link = "none" /\ KeptInv(j)
    BY DEF JobInv, SpentInv, LinkInv
  <1>4. Pipeline(j) \in {"play", "web", "skills", "model"}
        /\ (Pipeline(j) = "play" => MayWatch(j)) /\ Leads(Pipeline(j))
    BY Turns DEF MayWatch
  <1>5. \/ Kind(j.who) \in {"super", "media", "movie"} /\ at = Pipeline(j)
        \/ Kind(j.who) = "llm" /\ at \in {"web", "model"} /\ Leads(at)
        \/ Kind(j.who) = "media" /\ MediaAct(j.words) /\ at = "plan"
        \/ Kind(j.who) = "memory" /\ at = "memory"
        \/ Kind(j.who) = "tool" /\ at = "tool"
    <2> HIDE DEF at
    <2>1. CASE Kind(j.who) = "super"
      BY <2>1 DEF FirstStage, at
    <2>2. CASE Kind(j.who) = "llm"
      BY <2>2 DEF FirstStage, at, Leads
    <2>3. CASE Kind(j.who) = "media"
      BY <2>3 DEF FirstStage, at
    <2>4. CASE Kind(j.who) = "movie"
      BY <2>4 DEF FirstStage, at
    <2>5. CASE Kind(j.who) = "memory"
      BY <2>5 DEF FirstStage, at
    <2>6. CASE Kind(j.who) = "tool"
      BY <2>6 DEF FirstStage, at
    <2> QED BY <1>2, <2>1, <2>2, <2>3, <2>4, <2>5, <2>6
  <1>6. at \in Stage
    BY <1>4, <1>5 DEF Stage, ToolStage
  <1> HIDE DEF at
  <1>7. k \in JobRecord /\ SameWork(j, k) /\ k.at = at /\ k.link = j.link
    BY <1>6, GoTo
  <1> HIDE DEF k
  <1>8. CASE \/ Kind(j.who) \in {"super", "media", "movie"} /\ at = Pipeline(j)
             \/ Kind(j.who) = "llm" /\ at \in {"web", "model"} /\ Leads(at)
    <2>1. /\ at \in {"play", "web", "skills", "model"} /\ Leads(at)
          /\ at \in {"play", "skills"} => Kind(j.who) # "llm"
          /\ at = "play" => MayWatch(j)
          /\ Kind(j.who) \in Working
      BY <1>4, <1>8 DEF Working
    <2>2. JobInv(k, FALSE)
      BY <1>7, <2>1, Onward
    <2> QED BY <2>2 DEF k, at
  <1>9. CASE at \in {"plan", "memory", "tool"}
    <2>1. /\ k.seen = <<>> /\ k.models = 0 /\ k.link = "none" /\ KeptInv(k) /\ ~ IsBooking(k)
          /\ Kind(k.who) = Kind(j.who) /\ (IsAct(k) <=> IsAct(j))
      BY <1>3, <1>7, SameFacts
    <2>2. /\ at = "plan" => Kind(j.who) = "media" /\ IsAct(j)
          /\ at = "memory" => Kind(j.who) = "memory"
          /\ at = "tool" => Kind(j.who) = "tool"
      BY <1>4, <1>5, <1>9 DEF IsAct
    <2>3. PlaceInv(k, FALSE)
      BY <1>7, <1>9, <2>1, <2>2 DEF PlaceInv, ToolStage
    <2>4. SpentInv(k, FALSE)
      BY <1>7, <1>9, <2>1 DEF SpentInv
    <2>5. LinkInv(k)
      BY <1>7, <1>9, <2>1 DEF LinkInv, Ended
    <2> QED BY <1>7, <2>1, <2>3, <2>4, <2>5 DEF JobInv, k, at
  <1> QED BY <1>5, <1>8, <1>9

\* A call of a tool; that of a model is spent.
LEMMA CallStep ==
    ASSUME NEW j \in JobRecord, JobInv(j, FALSE), j.at \in ToolStage,
           NEW n \in Nat, n = IF j.at \in {"model", "plan"} THEN j.models + 1 ELSE j.models
    PROVE  JobInv([j EXCEPT !.models = n], TRUE)
  <1> DEFINE k == [j EXCEPT !.models = n]
  <1>1. /\ k \in JobRecord /\ k.models = n
        /\ k.who = j.who /\ k.words = j.words /\ k.at = j.at /\ k.link = j.link
        /\ k.seen = j.seen /\ k.kept = j.kept /\ k.left = j.left /\ k.why = j.why
    BY DEF JobRecord
  <1> HIDE DEF k
  <1>2. /\ IsAct(k) <=> IsAct(j)
        /\ IsBooking(k) <=> IsBooking(j)
        /\ Weak(k) <=> Weak(j)
        /\ KeptInv(k) <=> KeptInv(j)
        /\ MayWatch(k) <=> MayWatch(j)
    BY <1>1 DEF IsAct, IsBooking, Weak, KeptInv, MayWatch
  <1>3. PlaceInv(k, TRUE)
    BY <1>1, <1>2 DEF JobInv, PlaceInv
  <1>4. LinkInv(k)
    <2>1. j.at \notin Ended /\ j.at \notin {"completed", "failed"}
      BY DEF ToolStage, Ended
    <2> QED BY <1>1, <1>2, <2>1 DEF JobInv, LinkInv
  <1>5. SpentInv(k, TRUE)
    <2> DEFINE plan == IF IsAct(j) THEN 1 ELSE 0
               heard == IF j.seen = <<>> THEN 0 ELSE 1
               asked == IF j.at \in {"model", "plan"} THEN 1 ELSE 0
    <2>1. /\ j.models \in Nat /\ n = j.models + asked
          /\ j.at = "plan" => j.models <= 0 /\ plan = 1
          /\ j.at \in ToolStage \ {"plan"} => j.models <= plan + heard
          /\ j.seen # <<>> => Weak(j)
          /\ Kind(j.who) \in {"tool", "memory"} => j.models = 0
          /\ ~ IsBooking(j) /\ j.at # "new"
      <3>1. j.models \in Nat
        BY DEF JobRecord
      <3>2. n = j.models + asked
        BY <3>1
      <3>3. /\ ~ IsBooking(j) /\ j.at # "new"
            /\ j.at = "plan" => IsAct(j)
        BY DEF JobInv, PlaceInv, ToolStage
      <3>4. /\ j.at = "plan" => j.models <= 0
            /\ j.at \in ToolStage \ {"plan"} => j.models <= plan + heard
        BY <3>1 DEF JobInv, SpentInv
      <3>5. /\ j.seen # <<>> => Weak(j)
            /\ Kind(j.who) \in {"tool", "memory"} => j.models = 0
        BY DEF JobInv, SpentInv
      <3> QED BY <3>1, <3>2, <3>3, <3>4, <3>5
    <2>2. Kind(j.who) \in {"tool", "memory"} => asked = 0
      BY DEF JobInv, PlaceInv, ToolStage
    <2>3. /\ n <= plan + 2
          /\ n > plan + 1 => j.seen # <<>>
          /\ j.at = "plan" => n <= asked
          /\ j.at \in ToolStage \ {"plan"} => n <= plan + heard + asked
      <3>1. CASE j.at = "plan"
        BY <2>1, <3>1
      <3>2. CASE j.at # "plan"
        BY <2>1, <3>2
      <3> QED BY <3>1, <3>2
    <2> HIDE DEF plan, heard, asked
    <2>4. Kind(j.who) \in {"tool", "memory"} => n = 0
      BY <2>1, <2>2
    <2> QED BY <1>1, <1>2, <2>1, <2>3, <2>4 DEF SpentInv, plan, heard, asked
  <1> QED BY <1>1, <1>2, <1>3, <1>4, <1>5 DEF JobInv, k

\* A call that is cancelled, and a memory that answers or raises.
LEMMA CancelStep ==
    ASSUME NEW j \in JobRecord, NEW busy \in BOOLEAN, JobInv(j, busy), j.at \in ToolStage
    PROVE  JobInv([j EXCEPT !.at = "cancelled"], FALSE)
  <1> DEFINE k == [j EXCEPT !.at = "cancelled"]
  <1>1. "cancelled" \in Stage /\ "cancelled" \in Ended
    BY DEF Stage, Ended
  <1>2. k \in JobRecord /\ SameWork(j, k) /\ k.at = "cancelled"
    BY <1>1, GoTo
  <1> HIDE DEF k
  <1>3. ~ IsBooking(j)
    BY DEF JobInv, PlaceInv, ToolStage
  <1>4. PlaceInv(k, FALSE) /\ SpentInv(k, FALSE) /\ KeptInv(k)
    BY <1>1, <1>2, <1>3, AtAnEnd
  <1>5. LinkInv(k)
    BY <1>1, <1>2 DEF LinkInv
  <1> QED BY <1>2, <1>4, <1>5 DEF JobInv, k

LEMMA MemoryStep ==
    ASSUME NEW j \in JobRecord, JobInv(j, FALSE), j.at = "memory",
           NEW at \in {"completed", "failed"}
    PROVE  JobInv([j EXCEPT !.at = at, !.left = "memory"], FALSE)
  <1> DEFINE k == [j EXCEPT !.at = at, !.left = "memory"]
  <1>1. k \in JobRecord /\ SameWork(j, k) /\ k.at = at /\ k.left = "memory" /\ k.link = j.link
    BY DEF JobRecord, SameWork, Stage, Ended
  <1> HIDE DEF k
  <1>2. ~ IsBooking(j) /\ Kind(j.who) = "memory" /\ j.link = "none"
    BY DEF JobInv, PlaceInv, LinkInv, ToolStage
  <1>3. k.at \in Ended
    BY <1>1 DEF Ended
  <1>4. PlaceInv(k, FALSE) /\ SpentInv(k, FALSE) /\ KeptInv(k)
    BY <1>1, <1>2, <1>3, AtAnEnd
  <1>5. "none" \in LinksOf(k)
    BY <1>1, <1>2, LinksOfFacts DEF SameWork
  <1>6. LinkInv(k)
    BY <1>1, <1>2, <1>3, <1>5 DEF LinkInv
  <1> QED BY <1>1, <1>4, <1>6 DEF JobInv, k

-----------------------------------------------------------------------------
(* The registry and its books.                                             *)

InFlight == {r \in Caller : call[r] # NoTool}

LEMMA InFlightFinite == IsFiniteSet(InFlight) /\ Cardinality(InFlight) \in Nat
  <1>1. InFlight \in SUBSET Caller /\ IsFiniteSet(Caller)
    BY SoldierAssumption DEF InFlight
  <1>2. IsFiniteSet(InFlight)
    BY <1>1, FS_Subset
  <1> QED BY <1>2, FS_CardinalityType

\* What a call leaves alone: the gates, and who waits for another call.
OthersWait(r) == /\ tools' = tools
                 /\ \A q \in Caller : q # r => (Waits(q)' <=> Waits(q))

\* A call that passes the gates is written down and in flight.
LEMMA PassGatesFacts ==
    ASSUME RegistryTypeOK, BooksAgree, NEW r \in Caller, NEW a, NEW t, PassGates(r, a, t)
    PROVE  /\ RegistryTypeOK' /\ BooksAgree' /\ OthersWait(r)
           /\ ~ Waits(r) /\ Waits(r)'
  <1>1. /\ call[r] = NoTool /\ t \in tools
        /\ call' = [call EXCEPT ![r] = t] /\ begun' = begun + 1
        /\ audit' = [audit EXCEPT !["allow"] = audit["allow"] + 1]
        /\ UNCHANGED <<tools, allow, scopes, holders, counted>>
    BY DEF PassGates, gates
  <1>2. t \in Tool /\ t # NoTool
    BY <1>1, SoldierAssumption DEF RegistryTypeOK
  <1>3. /\ call' \in [Caller -> Tool \cup {NoTool}] /\ call'[r] = t
        /\ \A q \in Caller : q # r => call'[q] = call[q]
    BY <1>1, <1>2 DEF RegistryTypeOK
  <1>4. begun' \in Nat /\ audit' \in [{"allow", "deny"} -> Nat]
        /\ audit'["allow"] = audit["allow"] + 1
    BY <1>1 DEF RegistryTypeOK
  <1>5. RegistryTypeOK'
    BY <1>1, <1>3, <1>4 DEF RegistryTypeOK
  <1>6. InFlight' = InFlight \cup {r} /\ r \notin InFlight
    BY <1>1, <1>2, <1>3 DEF InFlight
  <1>7. Cardinality(InFlight') = Cardinality(InFlight) + 1
    BY <1>6, InFlightFinite, FS_AddElement
  <1>8. BooksAgree'
    <2>1. /\ audit["allow"] = begun
          /\ Cardinality(InFlight) + counted["ok"] + counted["error"] = begun
      BY DEF BooksAgree, InFlight
    <2>2. counted["ok"] \in Nat /\ counted["error"] \in Nat /\ begun \in Nat
      BY DEF RegistryTypeOK
    <2>3. /\ audit'["allow"] = begun'
          /\ Cardinality(InFlight') + counted'["ok"] + counted'["error"] = begun'
      BY <1>1, <1>4, <1>7, <2>1, <2>2, InFlightFinite
    <2> QED BY <2>3 DEF BooksAgree, InFlight
  <1> QED BY <1>1, <1>2, <1>3, <1>5, <1>8 DEF OthersWait, Waits

\* A call that is refused was never begun.
LEMMA RefuseFacts ==
    ASSUME RegistryTypeOK, BooksAgree, NEW r \in Caller, NEW a, NEW t, Refuse(r, a, t)
    PROVE  /\ RegistryTypeOK' /\ BooksAgree' /\ OthersWait(r)
           /\ ~ Waits(r) /\ ~ Waits(r)'
  <1>1. /\ call[r] = NoTool
        /\ UNCHANGED <<tools, allow, scopes, holders, call, begun, counted>>
        /\ \/ audit' = audit
           \/ audit' = [audit EXCEPT !["deny"] = audit["deny"] + 1]
    <2>1. Listed(a, t) => Decision(a, t) = "deny"
      BY DEF Refuse, Decision
    <2> QED BY <2>1 DEF Refuse, gates
  <1>2. audit' \in [{"allow", "deny"} -> Nat] /\ audit'["allow"] = audit["allow"]
    BY <1>1 DEF RegistryTypeOK
  <1>3. RegistryTypeOK'
    BY <1>1, <1>2 DEF RegistryTypeOK
  <1>4. BooksAgree'
    BY <1>1, <1>2 DEF BooksAgree
  <1> QED BY <1>1, <1>3, <1>4 DEF OthersWait, Waits

\* However a call ends, it is counted once.
LEMMA FinishFacts ==
    ASSUME RegistryTypeOK, BooksAgree, NEW r \in Caller, NEW how, Finish(r, how)
    PROVE  /\ RegistryTypeOK' /\ BooksAgree' /\ OthersWait(r)
           /\ Waits(r) /\ ~ Waits(r)'
  <1> DEFINE s == Status(how)
  <1>1. /\ call[r] # NoTool
        /\ call' = [call EXCEPT ![r] = NoTool]
        /\ counted' = [counted EXCEPT ![s] = counted[s] + 1]
        /\ UNCHANGED <<tools, allow, scopes, holders, begun, audit>>
    BY DEF Finish, gates
  <1>2. s \in {"ok", "error"}
    BY DEF Status
  <1> HIDE DEF s
  <1>3. /\ call' \in [Caller -> Tool \cup {NoTool}] /\ call'[r] = NoTool
        /\ \A q \in Caller : q # r => call'[q] = call[q]
    BY <1>1 DEF RegistryTypeOK
  <1>4. /\ counted' \in [{"ok", "error"} -> Nat]
        /\ counted["ok"] \in Nat /\ counted["error"] \in Nat
        /\ counted'["ok"] + counted'["error"] = counted["ok"] + counted["error"] + 1
    <2>1. counted \in [{"ok", "error"} -> Nat]
      BY DEF RegistryTypeOK
    <2>2. CASE s = "ok"
      BY <1>1, <2>1, <2>2
    <2>3. CASE s = "error"
      BY <1>1, <2>1, <2>3
    <2> QED BY <1>2, <2>2, <2>3
  <1>5. RegistryTypeOK'
    BY <1>1, <1>3, <1>4 DEF RegistryTypeOK
  <1>6. InFlight' = InFlight \ {r} /\ r \in InFlight
    BY <1>1, <1>3 DEF InFlight
  <1>7. Cardinality(InFlight') = Cardinality(InFlight) - 1
    BY <1>6, InFlightFinite, FS_RemoveElement
  <1>8. BooksAgree'
    <2>1. /\ audit["allow"] = begun
          /\ Cardinality(InFlight) + counted["ok"] + counted["error"] = begun
      BY DEF BooksAgree, InFlight
    <2>2. counted'["ok"] \in Nat /\ counted'["error"] \in Nat /\ begun \in Nat
      BY <1>4 DEF RegistryTypeOK
    <2>3. /\ audit'["allow"] = begun'
          /\ Cardinality(InFlight') + counted'["ok"] + counted'["error"] = begun'
      BY <1>1, <1>4, <1>7, <2>1, <2>2, InFlightFinite
    <2> QED BY <2>3 DEF BooksAgree, InFlight
  <1> QED BY <1>1, <1>3, <1>5, <1>8 DEF OthersWait, Waits

\* An administrator changes the gates, and nothing else.
LEMMA AdministerFacts ==
    ASSUME RegistryTypeOK, BooksAgree, Administer
    PROVE  /\ RegistryTypeOK' /\ BooksAgree'
           /\ UNCHANGED <<tools, call, run>>
  <1>1. {"llm.local"} \subseteq Tool /\ Agent = DOMAIN Catalog
    BY SoldierAssumption DEF Tool
  <1>2. "maps" \in Agent /\ "video" \in Agent
    BY <1>1 DEF Catalog
  <1>3. UNCHANGED <<tools, call, run, begun, audit, counted>>
    BY DEF Administer, Grant, Revoke, Assign, Unassign, Allow, books
  <1>4. BooksAgree'
    BY <1>3 DEF BooksAgree
  <1>5. /\ allow' \in [Agent -> (SUBSET Tool) \cup {NoList}]
        /\ scopes' \subseteq Tool \cup {AnyTool} /\ holders' \subseteq Agent
    BY <1>1, <1>2 DEF RegistryTypeOK, Administer, Grant, Revoke, Assign, Unassign, Allow
  <1>6. RegistryTypeOK'
    BY <1>3, <1>5 DEF RegistryTypeOK
  <1> QED BY <1>3, <1>4, <1>6

-----------------------------------------------------------------------------
(* The steps of the system.                                                *)

\* The tools never change, and with them what is said of a request.
LEMMA JobLift ==
    ASSUME tools' = tools, NEW r \in Caller, NEW k, NEW b \in BOOLEAN, JobInv(k, b),
           run'[r] = k, Waits(r)' <=> b
    PROVE  RequestInv(r)'
  <1>1. /\ KeptInv(run[r])' <=> KeptInv(k)
    BY DEF KeptInv
  <1>2. PlaceInv(run[r], Waits(r))'
    BY DEF JobInv, PlaceInv, IsAct, IsBooking, Waits
  <1>3. SpentInv(run[r], Waits(r))'
    BY DEF JobInv, SpentInv, IsAct, IsBooking, Waits, Weak
  <1>4. LinksOf(run[r])' = LinksOf(k)
    BY DEF LinksOf, HasWeb
  <1>5. LinkInv(run[r])'
    BY <1>4 DEF JobInv, LinkInv, MayWatch, HasWeb, HasSkills
  <1> QED BY <1>1, <1>2, <1>3, <1>5 DEF JobInv, RequestInv

\* A step of one request.
LEMMA StepOfOne ==
    ASSUME IInv, NEW r \in Caller, RegistryTypeOK', BooksAgree', OthersWait(r),
           NEW k, k \in JobRecord, run' = [run EXCEPT ![r] = k],
           NEW b \in BOOLEAN, JobInv(k, b), Waits(r)' <=> b
    PROVE  IInv'
  <1>1. /\ run \in [Caller -> JobRecord] /\ run' \in [Caller -> JobRecord]
        /\ run'[r] = k /\ \A q \in Caller : q # r => run'[q] = run[q]
    BY DEF IInv
  <1>2. RequestInv(r)'
    BY <1>1, JobLift DEF OthersWait
  <1>3. ASSUME NEW q \in Caller, q # r PROVE RequestInv(q)'
    <2>1. /\ JobInv(run[q], Waits(q)) /\ run'[q] = run[q] /\ tools' = tools
          /\ Waits(q)' <=> Waits(q)
          /\ Waits(q) \in BOOLEAN
      BY <1>1, <1>3 DEF IInv, RequestInv, OthersWait, Waits
    <2>2. PICK j : j = run[q]
      OBVIOUS
    <2>3. PICK c \in BOOLEAN : c <=> Waits(q)
      OBVIOUS
    <2>4. JobInv(j, c)
      BY <2>1, <2>2, <2>3 DEF JobInv, PlaceInv, SpentInv
    <2> QED BY <2>1, <2>2, <2>3, <2>4, JobLift
  <1> QED BY <1>1, <1>2, <1>3 DEF IInv

\* What the invariant says of one request, by itself.
LEMMA RequestFacts ==
    ASSUME IInv, NEW r \in Caller, NEW b \in BOOLEAN, Waits(r) <=> b
    PROVE  run[r] \in JobRecord /\ JobInv(run[r], b) /\ (b => run[r].at \in ToolStage)
  <1>1. run[r] \in JobRecord /\ JobInv(run[r], Waits(r))
    BY DEF IInv, RequestInv
  <1>2. JobInv(run[r], b)
    BY <1>1 DEF JobInv, PlaceInv, SpentInv
  <1> QED BY <1>1, <1>2 DEF JobInv, PlaceInv

LEMMA RegistryUntouched ==
    ASSUME IInv, UNCHANGED registryVars, NEW r \in Caller
    PROVE  RegistryTypeOK' /\ BooksAgree' /\ OthersWait(r) /\ (Waits(r)' <=> Waits(r))
  BY DEF IInv, registryVars, RegistryTypeOK, BooksAgree, OthersWait, Waits

LEMMA StartKeeps ==
    ASSUME IInv, NEW r \in Caller, Start(r)
    PROVE  IInv'
  <1>1. run[r].at = "new" /\ UNCHANGED registryVars
    BY DEF Start
  <1>2. ~ Waits(r)
    BY <1>1 DEF IInv, RequestInv, JobInv, PlaceInv, ToolStage
  <1>3. run[r] \in JobRecord /\ JobInv(run[r], FALSE)
    BY <1>2, RequestFacts
  <1> DEFINE k == IF IsBooking(run[r]) THEN BookingApproval(run[r])
                  ELSE [run[r] EXCEPT !.at = FirstStage(run[r])]
  <1>4. run' = [run EXCEPT ![r] = k]
    BY DEF Start, IsBooking
  <1>5. JobInv(k, FALSE)
    BY <1>1, <1>3, BookingStep, StartStep
  <1> HIDE DEF k
  <1>6. k \in JobRecord
    BY <1>5 DEF JobInv
  <1> QED BY <1>1, <1>2, <1>4, <1>5, <1>6, RegistryUntouched, StepOfOne

LEMMA UseMemoryKeeps ==
    ASSUME IInv, NEW r \in Caller, UseMemory(r)
    PROVE  IInv'
  <1>1. run[r].at = "memory" /\ UNCHANGED registryVars
    BY DEF UseMemory
  <1>2. ~ Waits(r)
    BY <1>1 DEF IInv, RequestInv, JobInv, PlaceInv, ToolStage
  <1>3. run[r] \in JobRecord /\ JobInv(run[r], FALSE)
    BY <1>2, RequestFacts
  <1>4. PICK end \in {"completed", "failed"} :
          run' = [run EXCEPT ![r].at = end, ![r].left = "memory"]
    BY DEF UseMemory
  <1> DEFINE k == [run[r] EXCEPT !.at = end, !.left = "memory"]
  <1>5. run' = [run EXCEPT ![r] = k]
    BY <1>4 DEF IInv
  <1>6. JobInv(k, FALSE)
    BY <1>1, <1>3, MemoryStep
  <1> HIDE DEF k
  <1>7. k \in JobRecord
    BY <1>6 DEF JobInv
  <1> QED BY <1>1, <1>2, <1>5, <1>6, <1>7, RegistryUntouched, StepOfOne

LEMMA CallKeeps ==
    ASSUME IInv, NEW r \in Caller, Call(r)
    PROVE  IInv'
  <1> DEFINE n == IF run[r].at \in {"model", "plan"} THEN run[r].models + 1 ELSE run[r].models
             k == [run[r] EXCEPT !.models = n]
  <1>1. /\ run[r].at \in ToolStage
        /\ PassGates(r, run[r].who, ToolOf(r))
        /\ run' = [run EXCEPT ![r].models = n]
    BY DEF Call, IInv
  <1>2. RegistryTypeOK' /\ BooksAgree' /\ OthersWait(r) /\ ~ Waits(r) /\ Waits(r)'
    BY <1>1, PassGatesFacts DEF IInv
  <1>3. run[r] \in JobRecord /\ JobInv(run[r], FALSE)
    BY <1>2, RequestFacts
  <1>4. n \in Nat
    <2>1. run[r].models \in Nat
      BY <1>3 DEF JobRecord
    <2> QED BY <2>1
  <1>5. run' = [run EXCEPT ![r] = k]
    BY <1>1
  <1>6. JobInv(k, TRUE)
    <2> DEFINE m == n
    <2>1. m \in Nat /\ m = IF run[r].at \in {"model", "plan"} THEN run[r].models + 1 ELSE run[r].models
      BY <1>4
    <2> HIDE DEF m
    <2>2. JobInv([run[r] EXCEPT !.models = m], TRUE)
      BY <1>1, <1>3, <2>1, CallStep
    <2> QED BY <2>2 DEF m
  <1> HIDE DEF k
  <1>7. k \in JobRecord
    BY <1>6 DEF JobInv
  <1> QED BY <1>2, <1>5, <1>6, <1>7, StepOfOne

LEMMA CallRefusedKeeps ==
    ASSUME IInv, NEW r \in Caller, CallRefused(r)
    PROVE  IInv'
  <1> DEFINE k == Raised(run[r], "refused")
  <1>1. /\ run[r].at \in ToolStage
        /\ Refuse(r, run[r].who, ToolOf(r))
        /\ run' = [run EXCEPT ![r] = k]
    BY DEF CallRefused
  <1>2. RegistryTypeOK' /\ BooksAgree' /\ OthersWait(r) /\ ~ Waits(r) /\ ~ Waits(r)'
    BY <1>1, RefuseFacts DEF IInv
  <1>3. run[r] \in JobRecord /\ JobInv(run[r], FALSE)
    BY <1>2, RequestFacts
  <1>4. JobInv(k, FALSE)
    BY <1>1, <1>3, RaisedStep
  <1> HIDE DEF k
  <1>5. k \in JobRecord
    BY <1>4 DEF JobInv
  <1> QED BY <1>1, <1>2, <1>4, <1>5, StepOfOne

LEMMA ToolAnswersKeeps ==
    ASSUME IInv, NEW r \in Caller, ToolAnswers(r)
    PROVE  IInv'
  <1>1. PICK k \in Answers(run[r]) : run' = [run EXCEPT ![r] = k]
    BY DEF ToolAnswers
  <1>2. RegistryTypeOK' /\ BooksAgree' /\ OthersWait(r) /\ Waits(r) /\ ~ Waits(r)'
    BY FinishFacts DEF IInv, ToolAnswers
  <1>3. run[r] \in JobRecord /\ JobInv(run[r], TRUE) /\ run[r].at \in ToolStage
    BY <1>2, RequestFacts
  <1>4. JobInv(k, FALSE)
    BY <1>1, <1>3, AnswersStep
  <1>5. k \in JobRecord
    BY <1>4 DEF JobInv
  <1> QED BY <1>1, <1>2, <1>4, <1>5, StepOfOne

LEMMA ToolRaisesKeeps ==
    ASSUME IInv, NEW r \in Caller, ToolRaises(r)
    PROVE  IInv'
  <1> DEFINE k == Raised(run[r], "raised")
  <1>1. run' = [run EXCEPT ![r] = k]
    BY DEF ToolRaises
  <1>2. RegistryTypeOK' /\ BooksAgree' /\ OthersWait(r) /\ Waits(r) /\ ~ Waits(r)'
    BY FinishFacts DEF IInv, ToolRaises
  <1>3. run[r] \in JobRecord /\ JobInv(run[r], TRUE) /\ run[r].at \in ToolStage
    BY <1>2, RequestFacts
  <1>4. JobInv(k, FALSE)
    BY <1>3, RaisedStep
  <1> HIDE DEF k
  <1>5. k \in JobRecord
    BY <1>4 DEF JobInv
  <1> QED BY <1>1, <1>2, <1>4, <1>5, StepOfOne

LEMMA CancelKeeps ==
    ASSUME IInv, NEW r \in Caller, Cancel(r)
    PROVE  IInv'
  <1> DEFINE k == [run[r] EXCEPT !.at = "cancelled"]
  <1>1. run' = [run EXCEPT ![r] = k]
    BY DEF Cancel
  <1>2. RegistryTypeOK' /\ BooksAgree' /\ OthersWait(r) /\ Waits(r) /\ ~ Waits(r)'
    BY FinishFacts DEF IInv, Cancel
  <1>3. run[r] \in JobRecord /\ JobInv(run[r], TRUE) /\ run[r].at \in ToolStage
    BY <1>2, RequestFacts
  <1>4. JobInv(k, FALSE)
    BY <1>3, CancelStep
  <1> HIDE DEF k
  <1>5. k \in JobRecord
    BY <1>4 DEF JobInv
  <1> QED BY <1>1, <1>2, <1>4, <1>5, StepOfOne

\* Where nothing a request rests on has changed, nothing is to be shown.
LEMMA RequestsStay ==
    ASSUME IInv, RegistryTypeOK', BooksAgree', UNCHANGED <<tools, call, run>>
    PROVE  IInv'
  <1>1. ASSUME NEW q \in Caller PROVE RequestInv(q)'
    BY DEF IInv, RequestInv, JobInv, PlaceInv, SpentInv, LinkInv, KeptInv, MayWatch, LinksOf,
           HasWeb, HasSkills, Waits, IsAct, IsBooking, Weak
  <1> QED BY <1>1 DEF IInv

LEMMA IInvStep == IInv /\ [SoldierNext]_soldierVars => IInv'
  <1> SUFFICES ASSUME IInv, [SoldierNext]_soldierVars PROVE IInv'
    OBVIOUS
  <1>1. CASE UNCHANGED soldierVars
    <2>1. RegistryTypeOK' /\ BooksAgree' /\ UNCHANGED <<tools, call, run>>
      BY <1>1 DEF soldierVars, registryVars, IInv, RegistryTypeOK, BooksAgree
    <2> QED BY <2>1, RequestsStay
  <1>2. CASE Administer
    BY <1>2, AdministerFacts, RequestsStay DEF IInv
  <1>3. ASSUME NEW r \in Caller, Work(r) PROVE IInv'
    BY <1>3, StartKeeps, UseMemoryKeeps, CallKeeps, CallRefusedKeeps, ToolAnswersKeeps,
       ToolRaisesKeeps, CancelKeeps DEF Work
  <1> QED BY <1>1, <1>2, <1>3 DEF SoldierNext

LEMMA IInvInitially == SoldierInit => IInv
  <1> SUFFICES ASSUME SoldierInit PROVE IInv
    OBVIOUS
  <1>1. /\ call = [c \in Caller |-> NoTool]
        /\ begun = 0 /\ audit = [d \in {"allow", "deny"} |-> 0]
        /\ counted = [s \in {"ok", "error"} |-> 0]
        /\ allow = BootLists /\ scopes = {AnyTool} /\ holders = Agent
        /\ \E keys \in KeySets : tools = Registered(keys)
    BY DEF SoldierInit, RegistryInit
  <1>2. PICK job \in [Caller -> UNION {Jobs[r] : r \in Caller}] :
          /\ \A r \in Caller : job[r] \in Jobs[r]
          /\ run = [r \in Caller |-> Request(job[r])]
    BY DEF SoldierInit
  <1>3. \A r \in Caller : ~ Waits(r)
    BY <1>1 DEF Waits
  <1>4. RegistryTypeOK
    <2>1. tools \subseteq Tool
      BY <1>1 DEF Registered, Tool
    <2>2. BootLists \in [Agent -> (SUBSET Tool) \cup {NoList}]
      <3>1. ASSUME NEW s \in DOMAIN Catalog
            PROVE  Catalog[s].cls = "none" => s \in {"weather", "maps"}
        BY DEF Catalog
      <3>2. {"weather", "maps"} \subseteq Tool
        BY SoldierAssumption DEF Tool
      <3>3. ASSUME NEW s \in DOMAIN Catalog
            PROVE  (IF Catalog[s].cls = "none" THEN {s} ELSE NoList)
                      \in (SUBSET Tool) \cup {NoList}
        <4>1. CASE Catalog[s].cls = "none"
          <5>1. s \in Tool
            BY <3>1, <3>2, <4>1
          <5> QED BY <4>1, <5>1
        <4>2. CASE Catalog[s].cls # "none"
          BY <4>2
        <4> QED BY <4>1, <4>2
      <3> QED BY <3>3, SoldierAssumption DEF BootLists
    <2>3. call \in [Caller -> Tool \cup {NoTool}]
      BY <1>1
    <2>4. begun \in Nat /\ audit \in [{"allow", "deny"} -> Nat] /\ counted \in [{"ok", "error"} -> Nat]
      BY <1>1
    <2> QED BY <1>1, <2>1, <2>2, <2>3, <2>4 DEF RegistryTypeOK
  <1>5. BooksAgree
    <2>1. {r \in Caller : call[r] # NoTool} = {}
      BY <1>1
    <2> QED BY <1>1, <2>1, FS_EmptySet DEF BooksAgree
  <1>6. ASSUME NEW r \in Caller
        PROVE  run[r] \in JobRecord /\ JobInv(run[r], FALSE)
    <2> DEFINE j == job[r]
               k == Request(j)
    <2>1. j \in Jobs[r] /\ run[r] = k
      BY <1>2
    <2>2. j.who \in DOMAIN Catalog /\ j.words \in Wordings
      BY <2>1, SoldierAssumption DEF Wordings
    <2> HIDE DEF j
    <2>3. /\ k.at = "new" /\ k.seen = <<>> /\ k.kept = 0 /\ k.models = 0 /\ k.link = "none"
          /\ k.who = j.who
      BY DEF Request
    <2>4. k \in JobRecord
      <3>1. <<>> \in Seq({1, 3, 10}) /\ "new" \in Stage /\ "none" \in Links
        BY DEF Stage, Links
      <3> QED BY <2>2, <3>1 DEF JobRecord, Request
    <2> HIDE DEF k
    <2>5. k.at \notin ToolStage /\ k.at \notin Ended
      BY <2>3 DEF ToolStage, Ended
    <2>6. PlaceInv(k, FALSE)
      BY <2>3, <2>5 DEF PlaceInv, ToolStage
    <2>7. SpentInv(k, FALSE)
      BY <2>3, <2>5 DEF SpentInv
    <2>8. LinkInv(k)
      BY <2>3, <2>5 DEF LinkInv
    <2>9. KeptInv(k)
      BY <2>3 DEF KeptInv
    <2>10. JobInv(k, FALSE)
      BY <2>4, <2>6, <2>7, <2>8, <2>9 DEF JobInv
    <2> QED BY <2>1, <2>4, <2>10
  <1>7. run \in [Caller -> JobRecord]
    BY <1>2, <1>6
  <1>8. \A r \in Caller : RequestInv(r)
    BY <1>3, <1>6 DEF RequestInv, JobInv, PlaceInv, SpentInv
  <1> QED BY <1>4, <1>5, <1>7, <1>8 DEF IInv

LEMMA Invariance == SoldierSpec => []IInv
  BY IInvInitially, IInvStep, PTL DEF SoldierSpec

-----------------------------------------------------------------------------
(* The theorems.                                                           *)

\* The books agree (ToolRegistry.invoke, PermissionManager.check): what passed the gates
\* is what has been counted and what is in flight, whatever is refused, raises or is
\* cancelled.
THEOREM BooksAgreeHolds == SoldierSpec => []BooksAgree
  <1>1. IInv => BooksAgree
    BY DEF IInv
  <1> QED BY <1>1, Invariance, PTL

\* Recovery pays (SuperSoldier.work): one answer of a model, a second after a weak first
\* to a request without an action, one plan before that of a medium, and no more; the
\* best answer seen is the one a request ends with.
THEOREM RecoveryPaysHolds == SoldierSpec => []RecoveryPays
  <1>1. ASSUME IInv PROVE RecoveryPays
    <2> SUFFICES ASSUME NEW r \in Caller
                 PROVE LET j == run[r]
                           plans == IF Kind(j.who) = "media" /\ MediaAct(j.words) THEN 1 ELSE 0
                       IN /\ j.models <= plans + 2
                          /\ j.models > plans + 1 =>
                                j.seen[1] < Threshold /\ ActionLink(j.words) = "none"
                          /\ Kind(j.who) \in {"tool", "memory"} => j.models = 0
                          /\ Kind(j.who) = "movie" /\ Books(j.words) =>
                                j.models = 0 /\ call[r] = NoTool
                          /\ j.at = "completed" => \A n \in DOMAIN j.seen : j.kept >= j.seen[n]
      BY DEF RecoveryPays
    <2>1. SpentInv(run[r], Waits(r)) /\ KeptInv(run[r])
      BY <1>1 DEF IInv, RequestInv, JobInv
    <2> QED BY <2>1 DEF SpentInv, KeptInv, IsAct, IsBooking, Weak, Waits
  <1> QED BY <1>1, Invariance, PTL

\* The extras never fail a request (SuperSoldier.work, MediaSoldier.work and what they
\* call): only what a Soldier consists of can, or a plan of the wrong types; and a
\* request that completes has the link it began with, or a better one.
THEOREM ExtrasNeverFailHolds == SoldierSpec => []ExtrasNeverFail
  <1>1. ASSUME IInv PROVE ExtrasNeverFail
    <2>1. ASSUME NEW r \in Caller
          PROVE  /\ run[r].at = "failed" =>
                       run[r].left \in {"model", "tool", "memory"} \/ run[r].why = "odd"
                 /\ run[r].at = "completed" => run[r].link \in LinksOf(run[r])
      BY <1>1 DEF IInv, RequestInv, JobInv, LinkInv
    <2> QED BY <2>1 DEF ExtrasNeverFail
  <1> QED BY <1>1, Invariance, PTL

-----------------------------------------------------------------------------
(* The types.                                                              *)

SameJob(j, k) == k.who = j.who /\ k.words = j.words

\* No step changes whose request it is, or its words.
LEMMA JobStays ==
    ASSUME NEW j \in JobRecord
    PROVE  /\ \A at : SameJob(j, [j EXCEPT !.at = at])
           /\ \A at, link : SameJob(j, [j EXCEPT !.at = at, !.link = link])
           /\ \A at, left : SameJob(j, [j EXCEPT !.at = at, !.left = left])
           /\ \A at, left, why : SameJob(j, [j EXCEPT !.at = at, !.left = left, !.why = why])
           /\ \A link : SameJob(j, Complete(j, link))
           /\ \A why : SameJob(j, Failed(j, why))
  BY DEF JobRecord, SameJob, Complete, Failed

LEMMA JobStaysAfterExtra ==
    ASSUME NEW j \in JobRecord, NEW found \in BOOLEAN,
           j.at \in {"play", "web", "skills", "youtube"}
    PROVE  SameJob(j, AfterExtra(j, found))
  <1>1. CASE j.at = "play"
    <2> DEFINE link == IF found THEN "watch" ELSE j.link
    <2>1. AfterExtra(j, found) = [j EXCEPT !.at = Reason(j), !.link = link]
      BY <1>1 DEF AfterExtra, JobRecord
    <2> HIDE DEF link
    <2> QED BY <2>1 DEF JobRecord, SameJob
  <1>2. CASE j.at \in {"web", "skills"}
    <2>1. PICK at : AfterExtra(j, found) = [j EXCEPT !.at = at]
      BY <1>2 DEF AfterExtra
    <2> QED BY <2>1 DEF JobRecord, SameJob
  <1>3. CASE j.at = "youtube"
    <2>1. PICK link : AfterExtra(j, found) = Complete(j, link)
      BY <1>3 DEF AfterExtra
    <2> QED BY <2>1, JobStays
  <1> QED BY <1>1, <1>2, <1>3

LEMMA JobStaysAfterPlan ==
    ASSUME NEW j \in JobRecord, NEW plan \in Plans
    PROVE  SameJob(j, AfterPlan(j, plan))
  <1>1. plan \in {"play", "ask", "none", "odd"}
    BY DEF Plans, AskedFor
  <1>2. \/ \E at : AfterPlan(j, plan) = [j EXCEPT !.at = at]
        \/ \E link : AfterPlan(j, plan) = Complete(j, link)
        \/ \E why : AfterPlan(j, plan) = Failed(j, why)
    BY <1>1 DEF AfterPlan
  <1> QED BY <1>2, JobStays

LEMMA JobStaysRaised ==
    ASSUME NEW j \in JobRecord, j.at \in ToolStage, NEW why
    PROVE  SameJob(j, Raised(j, why))
  <1>1. \/ j.at \in {"play", "web", "skills", "youtube"} /\ Raised(j, why) = AfterExtra(j, FALSE)
        \/ Raised(j, why) = AfterPlan(j, "none")
        \/ Raised(j, why) = Failed(j, why)
    BY DEF Raised, ToolStage
  <1>2. "none" \in Plans
    BY DEF Plans
  <1> QED BY <1>1, <1>2, JobStays, JobStaysAfterExtra, JobStaysAfterPlan

LEMMA JobStaysAnswers ==
    ASSUME NEW j \in JobRecord, j.at \in ToolStage, NEW k \in Answers(j)
    PROVE  SameJob(j, k)
  <1>1. CASE j.at = "model"
    <2>1. PICK text \in {"good", "short", "empty"} :
            k = IF Kind(j.who) = "llm" THEN LlmAnswer(j, Confidence(text))
                ELSE Judge(j, Confidence(text))
      BY <1>1 DEF Answers
    <2> DEFINE c == Confidence(text)
               h == Heard(j, c)
    <2>2. c \in {1, 3, 10}
      BY DEF Confidence
    <2>3. \/ \E link : k = Complete(h, link)
          \/ \E at : k = [h EXCEPT !.at = at]
      BY <2>1 DEF LlmAnswer, Judge
    <2> HIDE DEF c
    <2>4. h \in JobRecord /\ SameJob(j, h)
      BY <2>2, HeardFacts DEF SameJob
    <2> HIDE DEF h
    <2>5. CASE \E link : k = Complete(h, link)
      BY <2>4, <2>5, JobStays DEF SameJob
    <2>6. CASE \E at : k = [h EXCEPT !.at = at]
      <3>1. PICK at : k = [h EXCEPT !.at = at]
        BY <2>6
      <3> QED BY <3>1, <2>4 DEF JobRecord, SameJob
    <2> QED BY <2>3, <2>5, <2>6
  <1>2. CASE j.at = "plan"
    BY <1>2, JobStaysAfterPlan DEF Answers
  <1>3. CASE j.at = "tool"
    BY <1>3, JobStays DEF Answers
  <1>4. CASE j.at \in {"play", "web", "skills", "youtube"}
    <2>1. PICK found \in BOOLEAN : k = AfterExtra(j, found)
      BY <1>4 DEF Answers
    <2> QED BY <1>4, <2>1, JobStaysAfterExtra
  <1> QED BY <1>1, <1>2, <1>3, <1>4 DEF ToolStage

\* Whose request it is, and what it waits for.
HandsInv == /\ Builtin \subseteq tools
            /\ \A r \in Caller :
                 /\ [who |-> run[r].who, words |-> run[r].words] \in Jobs[r]
                 /\ Waits(r) => call[r] = ToolOf(r)

\* The local model is always there, whatever comes before it.
LEMMA PickModelFacts ==
    ASSUME "llm.local" \in tools
    PROVE  PickModel \in tools
  <1> DEFINE Best(n) == /\ Preferred[n] \in tools
                        /\ \A m \in 1 .. n - 1 : Preferred[m] \notin tools
  <1>1. /\ DOMAIN Preferred = 1 .. 4 /\ Preferred[4] = "llm.local"
    BY DEF Preferred
  <1>2. \E n \in DOMAIN Preferred : Best(n)
    <2>1. CASE Preferred[1] \in tools
      BY <2>1, <1>1
    <2>2. CASE Preferred[1] \notin tools /\ Preferred[2] \in tools
      BY <2>2, <1>1
    <2>3. CASE Preferred[1] \notin tools /\ Preferred[2] \notin tools /\ Preferred[3] \in tools
      BY <2>3, <1>1
    <2>4. CASE Preferred[1] \notin tools /\ Preferred[2] \notin tools /\ Preferred[3] \notin tools
      BY <2>4, <1>1
    <2> QED BY <2>1, <2>2, <2>3, <2>4
  <1> DEFINE n == CHOOSE n \in DOMAIN Preferred : Best(n)
  <1>3. Best(n)
    BY <1>2
  <1>4. PickModel = Preferred[n]
    BY DEF PickModel
  <1> QED BY <1>3, <1>4

\* The tool of a stage is registered.
LEMMA ToolThere ==
    ASSUME IInv, HandsInv, NEW r \in Caller, run[r].at \in ToolStage
    PROVE  ToolOf(r) \in tools
  <1>1. /\ run[r] \in JobRecord
        /\ run[r].at = "play" => HasWeb
        /\ run[r].at \in {"web", "youtube"} => HasWeb
        /\ run[r].at = "skills" => HasSkills
        /\ run[r].at = "tool" => Kind(run[r].who) = "tool"
    BY DEF IInv, RequestInv, JobInv, PlaceInv, LinkInv, MayWatch
  <1>2. run[r].who \in DOMAIN Catalog
    BY <1>1 DEF JobRecord
  <1>3. {"llm.local", "weather"} \subseteq tools
    BY SoldierAssumption DEF HandsInv
  <1>4. Kind(run[r].who) = "tool" => run[r].who = "weather"
    BY <1>2 DEF Kind, Catalog, KeepTool
  <1>5. CASE run[r].at \in {"play", "web", "youtube"}
    BY <1>1, <1>5 DEF ToolOf, HasWeb
  <1>6. CASE run[r].at = "skills"
    BY <1>1, <1>6 DEF ToolOf, HasSkills
  <1>7. CASE run[r].at \in {"model", "plan"}
    BY <1>3, <1>7, PickModelFacts DEF ToolOf
  <1>8. CASE run[r].at = "tool"
    BY <1>1, <1>3, <1>4, <1>8 DEF ToolOf
  <1> QED BY <1>5, <1>6, <1>7, <1>8 DEF ToolStage

LEMMA HandsOfOne ==
    ASSUME IInv, HandsInv, NEW r \in Caller, tools' = tools,
           \A q \in Caller : q # r => call'[q] = call[q],
           NEW k, run' = [run EXCEPT ![r] = k], SameJob(run[r], k),
           Waits(r)' => call'[r] = ToolOf(r) /\ k.at = run[r].at
    PROVE  HandsInv'
  <1>1. run'[r] = k /\ \A q \in Caller : q # r => run'[q] = run[q]
    BY DEF IInv
  <1>2. ASSUME NEW q \in Caller, run'[q].at = run[q].at, run'[q].who = run[q].who
        PROVE  ToolOf(q)' = ToolOf(q)
    BY <1>2 DEF ToolOf, PickModel
  <1>3. ASSUME NEW q \in Caller
        PROVE  /\ [who |-> run'[q].who, words |-> run'[q].words] \in Jobs[q]
               /\ Waits(q)' => call'[q] = ToolOf(q)'
    <2>1. CASE q = r
      BY <1>1, <1>2, <2>1 DEF HandsInv, SameJob
    <2>2. CASE q # r
      BY <1>1, <1>2, <2>2 DEF HandsInv, Waits
    <2> QED BY <2>1, <2>2
  <1> QED BY <1>3 DEF HandsInv

LEMMA HandsStep == IInv /\ HandsInv /\ [SoldierNext]_soldierVars => HandsInv'
  <1> SUFFICES ASSUME IInv, HandsInv, [SoldierNext]_soldierVars PROVE HandsInv'
    OBVIOUS
  <1>1. CASE UNCHANGED <<tools, call, run>>
    BY <1>1 DEF HandsInv, Waits, ToolOf, PickModel
  <1>2. ASSUME NEW r \in Caller, Work(r) PROVE HandsInv'
    <2>1. run[r] \in JobRecord
      BY DEF IInv
    <2>2. CASE Start(r)
      <3>1. PICK k : k = IF IsBooking(run[r]) THEN BookingApproval(run[r])
                         ELSE [run[r] EXCEPT !.at = FirstStage(run[r])]
        OBVIOUS
      <3>2. /\ run' = [run EXCEPT ![r] = k] /\ tools' = tools /\ call' = call
            /\ run[r].at = "new"
        BY <2>2, <3>1 DEF Start, IsBooking, registryVars
      <3>3. SameJob(run[r], k)
        BY <2>1, <3>1, JobStays DEF BookingApproval
      <3>4. ~ Waits(r)
        BY <3>2 DEF IInv, RequestInv, JobInv, PlaceInv, ToolStage
      <3> QED BY <3>2, <3>3, <3>4, HandsOfOne DEF Waits
    <2>3. CASE UseMemory(r)
      <3>1. PICK end : run' = [run EXCEPT ![r].at = end, ![r].left = "memory"]
        BY <2>3 DEF UseMemory
      <3>2. PICK k : k = [run[r] EXCEPT !.at = end, !.left = "memory"]
        OBVIOUS
      <3>3. /\ run' = [run EXCEPT ![r] = k] /\ tools' = tools /\ call' = call
            /\ run[r].at = "memory"
        BY <2>3, <3>1, <3>2 DEF UseMemory, registryVars, IInv
      <3>4. SameJob(run[r], k)
        BY <2>1, <3>2 DEF JobRecord, SameJob
      <3>5. ~ Waits(r)
        BY <3>3 DEF IInv, RequestInv, JobInv, PlaceInv, ToolStage
      <3> QED BY <3>3, <3>4, <3>5, HandsOfOne DEF Waits
    <2>4. CASE Call(r)
      <3>1. PICK n : n = IF run[r].at \in {"model", "plan"} THEN run[r].models + 1
                         ELSE run[r].models
        OBVIOUS
      <3>2. PICK k : k = [run[r] EXCEPT !.models = n]
        OBVIOUS
      <3>3. run' = [run EXCEPT ![r] = k]
        BY <2>4, <3>1, <3>2 DEF Call, IInv
      <3>4. call' = [call EXCEPT ![r] = ToolOf(r)] /\ tools' = tools
        BY <2>4 DEF Call, PassGates, gates
      <3>5. /\ call'[r] = ToolOf(r)
            /\ \A q \in Caller : q # r => call'[q] = call[q]
        BY <3>4 DEF IInv, RegistryTypeOK
      <3>6. SameJob(run[r], k) /\ k.at = run[r].at
        BY <2>1, <3>2 DEF JobRecord, SameJob
      <3> QED BY <3>3, <3>4, <3>5, <3>6, HandsOfOne
    <2>5. CASE CallRefused(r)
      <3>1. PICK k : k = Raised(run[r], "refused")
        OBVIOUS
      <3>2. /\ run' = [run EXCEPT ![r] = k] /\ run[r].at \in ToolStage
            /\ tools' = tools /\ call' = call /\ call[r] = NoTool
        BY <2>5, <3>1 DEF CallRefused, Refuse, gates
      <3>3. SameJob(run[r], k)
        BY <2>1, <3>1, <3>2, JobStaysRaised
      <3> QED BY <3>2, <3>3, HandsOfOne DEF Waits
    <2>6. ASSUME NEW how, Finish(r, how)
          PROVE  /\ tools' = tools /\ ~ Waits(r)' /\ run[r].at \in ToolStage
                 /\ \A q \in Caller : q # r => call'[q] = call[q]
      <3>1. /\ call[r] # NoTool /\ call' = [call EXCEPT ![r] = NoTool] /\ tools' = tools
        BY <2>6 DEF Finish, gates
      <3>2. run[r].at \in ToolStage
        BY <3>1 DEF IInv, RequestInv, JobInv, PlaceInv, Waits
      <3> QED BY <3>1, <3>2 DEF Waits, IInv, RegistryTypeOK
    <2>7. CASE ToolAnswers(r)
      <3>1. PICK k \in Answers(run[r]) : run' = [run EXCEPT ![r] = k]
        BY <2>7 DEF ToolAnswers
      <3>2. Finish(r, "returned")
        BY <2>7 DEF ToolAnswers
      <3>3. SameJob(run[r], k)
        BY <2>1, <2>6, <3>1, <3>2, JobStaysAnswers
      <3> QED BY <2>6, <3>1, <3>2, <3>3, HandsOfOne
    <2>8. CASE ToolRaises(r)
      <3>1. PICK k : k = Raised(run[r], "raised")
        OBVIOUS
      <3>2. Finish(r, "raised") /\ run' = [run EXCEPT ![r] = k]
        BY <2>8, <3>1 DEF ToolRaises
      <3>3. SameJob(run[r], k)
        BY <2>1, <2>6, <3>1, <3>2, JobStaysRaised
      <3> QED BY <2>6, <3>2, <3>3, HandsOfOne
    <2>9. CASE Cancel(r)
      <3>1. PICK k : k = [run[r] EXCEPT !.at = "cancelled"]
        OBVIOUS
      <3>2. Finish(r, "cancelled") /\ run' = [run EXCEPT ![r] = k]
        BY <2>9, <3>1 DEF Cancel
      <3>3. SameJob(run[r], k)
        BY <2>1, <3>1 DEF JobRecord, SameJob
      <3> QED BY <2>6, <3>2, <3>3, HandsOfOne
    <2> QED BY <1>2, <2>2, <2>3, <2>4, <2>5, <2>7, <2>8, <2>9 DEF Work
  <1> QED BY <1>1, <1>2, AdministerFacts DEF SoldierNext, soldierVars, registryVars, IInv

LEMMA HandsInitially == SoldierInit => HandsInv
  <1> SUFFICES ASSUME SoldierInit PROVE HandsInv
    OBVIOUS
  <1>1. Builtin \subseteq tools /\ call = [c \in Caller |-> NoTool]
    BY DEF SoldierInit, RegistryInit, Registered
  <1>2. ASSUME NEW r \in Caller
        PROVE  [who |-> run[r].who, words |-> run[r].words] \in Jobs[r]
    <2>1. PICK j \in Jobs[r] : run[r] = Request(j)
      BY DEF SoldierInit
    <2> DEFINE k == Request(j)
    <2>2. k.who = j.who /\ k.words = j.words
      BY DEF Request
    <2> HIDE DEF k
    <2>3. run[r] = k
      BY <2>1 DEF k
    <2> QED BY <2>2, <2>3, SoldierAssumption
  <1> QED BY <1>1, <1>2 DEF HandsInv, Waits

\* The registry, the requests and their calls are of their types: what is called is the
\* tool of the stage, and that tool is registered.
THEOREM TypeCorrect == SoldierSpec => []SoldierTypeOK
  <1>1. ASSUME IInv, HandsInv PROVE SoldierTypeOK
    <2>1. ASSUME NEW r \in Caller
          PROVE  /\ run[r].at \in ToolStage \cup Ended \cup {"new", "memory"}
                 /\ run[r].seen \in Seq({1, 3, 10})
                 /\ run[r].kept \in {0, 1, 3, 10}
                 /\ run[r].why \in {"", "refused", "raised", "odd"}
                 /\ run[r].link \in {"none", "store", "home", "results", "web", "watch", "booking"}
      <3>1. run[r] \in JobRecord
        BY <1>1 DEF IInv
      <3> QED BY <3>1 DEF JobRecord, Stage, Links
    <2>2. ASSUME NEW r \in Caller
          PROVE  /\ [who |-> run[r].who, words |-> run[r].words] \in Jobs[r]
                 /\ call[r] # NoTool => call[r] = ToolOf(r)
                 /\ run[r].at \in ToolStage => ToolOf(r) \in tools
      BY <1>1, ToolThere DEF HandsInv, Waits
    <2>3. RegistryTypeOK
      BY <1>1 DEF IInv
    <2> QED BY <2>1, <2>2, <2>3 DEF SoldierTypeOK
  <1>2. SoldierSpec => []HandsInv
    BY HandsInitially, HandsStep, Invariance, PTL DEF SoldierSpec
  <1> QED BY <1>1, <1>2, Invariance, PTL
=============================================================================
