------------------------------ MODULE Soldier -------------------------------
(***************************************************************************)
(* The work of the Soldiers on their requests                              *)
(* (backend/soldiers/super_soldier.py, backend/soldiers/common.py), one of *)
(* each class of the catalogue (backend/soldiers/catalog.py), on the tool  *)
(* registry as backend/soldiers/bootstrap.py sets it up.                   *)
(*                                                                         *)
(* A request stands at the tool its Soldier is about to call or waits for; *)
(* what happens between two calls is one step.  An objective is the set of *)
(* its words, of which only those the code looks for are told apart.       *)
(* Memory is called without suspending; recalling and learning swallow     *)
(* every exception, so they leave no trace here.                           *)
(***************************************************************************)
EXTENDS ToolRegistry, Sequences, FiniteSets

CONSTANTS Jobs,       \* the Soldiers and words a request may have
          MaxChanges  \* bound: changes of a gate by an administrator

VARIABLES run,     \* a request: its job, where it stands, what its models said
          changes  \* changes made to the gates, counted for the bound

soldierVars == <<registryVars, run, changes>>

-----------------------------------------------------------------------------
(* What the words of an objective ask for.                                 *)

Verbs == {"open", "play", "install", "watch", "find"}
Stop == {"the", "please"}
Term(w) == w \ (Verbs \cup Stop)

\* build_action_link: the kind of link the phone is to open.
ActionLink(w) ==
    IF w \cap Verbs = {} THEN "none"
    ELSE IF w \cap {"install", "app"} # {} THEN "store"
    ELSE IF "youtube" \in w
         THEN IF Term(w) \subseteq {"youtube"} THEN "home" ELSE "results"
    ELSE IF w \cap {"song", "watch"} # {} THEN "results"
    ELSE "web"

PlayIntent(w) == w \cap {"play", "song"} # {}

NeedsLive(w) == w \cap {"?", "today", "movie"} # {}

\* MediaSoldier.work: a request to act, and not a question.
MediaAct(w) == /\ w \cap {"play", "watch", "song", "movie"} # {}
               /\ "?" \in w => "play" \in w

\* MoviePlannerSoldier.work
Books(w) == w \cap {"book", "ticket", "pay"} # {}

-----------------------------------------------------------------------------
(* The Soldiers.                                                           *)

\* One of each class and builder; weather and maps have no class of their own.
Catalog ==
    [research         |-> [group |-> "knowledge", cls |-> "super"],
     search           |-> [group |-> "knowledge", cls |-> "llm"],
     weather          |-> [group |-> "knowledge", cls |-> "none"],
     maps             |-> [group |-> "knowledge", cls |-> "none"],
     video            |-> [group |-> "media",     cls |-> "media"],
     movie_planner    |-> [group |-> "planning",  cls |-> "movie"],
     long_term_memory |-> [group |-> "memory",    cls |-> "memory"]]

KeepTool == {"weather", "stock", "crypto"}

\* _builder: the class of its own, a tool worker, or else an expert.
Kind(s) == IF Catalog[s].cls # "none" THEN Catalog[s].cls
           ELSE IF s \in KeepTool THEN "tool" ELSE "super"

\* The groups that have a profile; a profile has the name of its group.
DomainProfiles == {"knowledge", "planning", "execution", "memory", "coding", "media",
                   "finance", "communication", "system", "automation", "device",
                   "security", "iot", "asi", "voice"}

ProfileFor(group) == IF group \in DomainProfiles THEN group ELSE "general"

\* The domain a Soldier is an expert of: a class may bring a profile of its own.
Domain(s) == IF s = "research" THEN "research"
             ELSE IF Kind(s) \in {"media", "movie"} THEN Kind(s)
             ELSE ProfileFor(Catalog[s].group)

\* bootstrap_soldiers: without a class of its own, a Soldier has one tool.
BootLists == [s \in DOMAIN Catalog |->
                IF Catalog[s].cls = "none" THEN {s} ELSE NoList]

Preferred == <<"llm.nvidia", "llm.openai", "llm.anthropic", "llm.local">>

PickModel == LET n == CHOOSE n \in DOMAIN Preferred :
                        /\ Preferred[n] \in tools
                        /\ \A m \in 1 .. n - 1 : Preferred[m] \notin tools
             IN Preferred[n]

\* The agents are the Soldiers of the catalogue, and each request is one of theirs;
\* the offline tools are registered whatever keys there are.
ASSUME SoldierAssumption ==
    /\ IsFiniteSet(Caller)
    /\ Agent = DOMAIN Catalog
    /\ {"llm.local", "weather", "maps"} \subseteq Builtin
    /\ NoTool \notin Tool
    /\ \A r \in Caller : \A j \in Jobs[r] :
          j.who \in DOMAIN Catalog /\ j = [who |-> j.who, words |-> j.words]

-----------------------------------------------------------------------------
(* The stages.                                                             *)

Ended == {"completed", "failed", "cancelled"}
ToolStage == {"play", "web", "skills", "model", "plan", "youtube", "tool"}

ToolOf(r) == CASE run[r].at \in {"play", "web", "youtube"} -> "web.search"
               [] run[r].at = "skills"                     -> "skills.invoke"
               [] run[r].at \in {"model", "plan"}          -> PickModel
               [] run[r].at = "tool"                       -> run[r].who

HasWeb == "web.search" \in tools

\* skills_context, if there is such a tool, then the model.
SkillsOrModel == IF "skills.invoke" \in tools THEN "skills" ELSE "model"

\* The search is not looked up among the tools first.
ReasonUnlisted(j) ==
    IF NeedsLive(j.words) \/ Domain(j.who) \in {"knowledge", "movie"}
    THEN "web" ELSE SkillsOrModel

\* _reason
Reason(j) == IF HasWeb /\ (NeedsLive(j.words) \/ Domain(j.who) \in {"knowledge", "movie"})
             THEN "web" ELSE SkillsOrModel

\* SuperSoldier.work
Pipeline(j) ==
    IF HasWeb /\ ActionLink(j.words) = "results" /\ PlayIntent(j.words)
    THEN "play" ELSE Reason(j)

Complete(j, link) == [j EXCEPT !.at = "completed", !.link = link]
Failed(j, why) == [j EXCEPT !.at = "failed", !.left = j.at, !.why = why]

\* _booking_approval: the booking is prepared for the user, and that is all.
BookingApproval(j) == Complete(j, "booking")

\* work, up to its first call.
FirstStage(j) ==
    CASE Kind(j.who) = "super"  -> Pipeline(j)
      [] Kind(j.who) = "llm"    -> IF HasWeb THEN "web" ELSE "model"
      [] Kind(j.who) = "media"  -> IF MediaAct(j.words) THEN "plan" ELSE Pipeline(j)
      [] Kind(j.who) = "movie"  -> Pipeline(j)
      [] Kind(j.who) = "memory" -> "memory"
      [] Kind(j.who) = "tool"   -> "tool"

\* Where a call leads that only adds to the prompt or the link, whether it has
\* found a video or nothing at all.
AfterExtra(j, found) ==
    CASE j.at = "play"    -> [j EXCEPT !.at = Reason(j),
                                       !.link = IF found THEN "watch" ELSE @]
      [] j.at = "web"     -> [j EXCEPT !.at = IF Kind(j.who) = "llm" THEN "model"
                                              ELSE SkillsOrModel]
      [] j.at = "skills"  -> [j EXCEPT !.at = "model"]
      [] j.at = "youtube" -> Complete(j, IF found THEN "watch" ELSE "results")

\* What the model is asked for, and what may come back: nothing usable, or a
\* plan one of whose fields is not the text it should be (if it is the title
\* alone, the code gets to the search before it fails).
AskedFor == {"play", "ask"}
Plans == AskedFor \cup {"none", "odd"}

\* _media_action: without a plan it is the pipeline's turn.
AfterPlan(j, plan) ==
    CASE plan = "play" -> IF HasWeb THEN [j EXCEPT !.at = "youtube"] ELSE Complete(j, "results")
      [] plan = "ask"  -> Complete(j, "none")
      [] plan = "none" -> [j EXCEPT !.at = Pipeline(j)]
      [] plan = "odd"  -> Failed(j, "odd")

\* _validate, in tenths.
Confidence(text) == CASE text = "good" -> 10 [] text = "short" -> 3 [] text = "empty" -> 1
Threshold == 5

\* The first answer is forgotten: recovery goes on until an answer is good.
RecoversUntilGood(j, c) == c < Threshold /\ ActionLink(j.words) = "none"

\* work: one recovery, of a weak answer to a request without an action.
Recovers(j, c) == /\ j.seen = <<>>
                  /\ c < Threshold
                  /\ ActionLink(j.words) = "none"

Heard(j, c) == [j EXCEPT !.seen = Append(@, c), !.kept = IF c >= @ THEN c ELSE @]

\* LlmSoldier.work: the answer, whatever it is worth, and the link.
LlmAnswer(j, c) == Complete(Heard(j, c), ActionLink(j.words))

\* SuperSoldier.work, the verdict on an answer: recover, or keep the better one
\* and end with the link that goes with it.
Judge(j, c) ==
    IF Recovers(j, c) THEN [Heard(j, c) EXCEPT !.at = Reason(j)]
    ELSE Complete(Heard(j, c), IF j.link = "watch" THEN "watch" ELSE ActionLink(j.words))

\* web_context lets the exceptions of a search through.
RaisedFromSearch(j, why) ==
    CASE j.at \in {"play", "skills", "youtube"} -> AfterExtra(j, FALSE)
      [] j.at = "plan"                          -> AfterPlan(j, "none")
      [] j.at \in {"web", "model", "tool"}      -> Failed(j, why)

\* An exception of a call: it ends the request, unless the call was an extra
\* (caught where it is made) or the plan of a medium.
Raised(j, why) ==
    CASE j.at \in {"play", "web", "skills", "youtube"} -> AfterExtra(j, FALSE)
      [] j.at = "plan"                                 -> AfterPlan(j, "none")
      [] j.at \in {"model", "tool"}                    -> Failed(j, why)

\* Where the answers of a tool may lead.
Answers(j) ==
    CASE j.at = "model" ->
           {IF Kind(j.who) = "llm" THEN LlmAnswer(j, Confidence(text))
            ELSE Judge(j, Confidence(text)) : text \in {"good", "short", "empty"}}
      [] j.at = "plan"  -> {AfterPlan(j, plan) : plan \in Plans}
      [] j.at = "tool"  -> {Complete(j, "none")}
      [] OTHER          -> {AfterExtra(j, found) : found \in BOOLEAN}

\* A provider of models may raise, and the search may on results it cannot
\* read; the skills tool catches every exception, and the offline tools have none.
MayRaise(j) == j.at \in {"model", "plan", "play", "web", "youtube"}

-----------------------------------------------------------------------------
Request(j) == [who |-> j.who, words |-> j.words, at |-> "new", left |-> "", why |-> "",
               seen |-> <<>>, kept |-> 0, link |-> "none", models |-> 0]

SoldierInit == /\ RegistryInit(BootLists)
               /\ changes = 0
               /\ \E job \in [Caller -> UNION {Jobs[r] : r \in Caller}] :
                    /\ \A r \in Caller : job[r] \in Jobs[r]
                    /\ run = [r \in Caller |-> Request(job[r])]

\* execute, up to the first call.
Start(r) == /\ run[r].at = "new"
            /\ run' = [run EXCEPT ![r] =
                         IF Kind(@.who) = "movie" /\ Books(@.words) THEN BookingApproval(@)
                         ELSE [@ EXCEPT !.at = FirstStage(run[r])]]
            /\ UNCHANGED <<registryVars, changes>>

\* MemorySoldier.work is nothing but a call of the memory, which may raise.
UseMemory(r) == /\ run[r].at = "memory"
                /\ \E end \in {"completed", "failed"} :
                     run' = [run EXCEPT ![r].at = end, ![r].left = "memory"]
                /\ UNCHANGED <<registryVars, changes>>

Call(r) == /\ run[r].at \in ToolStage
           /\ PassGates(r, run[r].who, ToolOf(r))
           /\ run' = [run EXCEPT ![r].models =
                        IF run[r].at \in {"model", "plan"} THEN @ + 1 ELSE @]
           /\ UNCHANGED changes

CallRefused(r) == /\ run[r].at \in ToolStage
                  /\ Refuse(r, run[r].who, ToolOf(r))
                  /\ run' = [run EXCEPT ![r] = Raised(@, "refused")]
                  /\ UNCHANGED changes

ToolAnswers(r) == /\ Finish(r, "returned")
                  /\ \E j \in Answers(run[r]) : run' = [run EXCEPT ![r] = j]
                  /\ UNCHANGED changes

ToolRaises(r) == /\ MayRaise(run[r])
                 /\ Finish(r, "raised")
                 /\ run' = [run EXCEPT ![r] = Raised(@, "raised")]
                 /\ UNCHANGED changes

\* The time limit of the message bus, or the end of the whole request.
Cancel(r) == /\ Finish(r, "cancelled")
             /\ run' = [run EXCEPT ![r].at = "cancelled"]
             /\ UNCHANGED changes

Work(r) == \/ Start(r) \/ UseMemory(r) \/ Call(r) \/ CallRefused(r)
           \/ ToolAnswers(r) \/ ToolRaises(r) \/ Cancel(r)

\* The changes an administrator makes while requests are under way.
Administer == /\ changes < MaxChanges
              /\ \/ \E s \in {AnyTool, "llm.local"} : Grant(s) \/ Revoke(s)
                 \/ Assign("video") \/ Unassign("video")
                 \/ Allow("maps", {"llm.local"})
              /\ changes' = changes + 1
              /\ UNCHANGED run

SoldierNext == (\E r \in Caller : Work(r)) \/ Administer

SoldierSpec == SoldierInit /\ [][SoldierNext]_soldierVars

-----------------------------------------------------------------------------
SoldierTypeOK ==
    /\ RegistryTypeOK
    /\ \A r \in Caller :
         /\ [who |-> run[r].who, words |-> run[r].words] \in Jobs[r]
         /\ run[r].at \in ToolStage \cup Ended \cup {"new", "memory"}
         /\ run[r].seen \in Seq({1, 3, 10})
         /\ run[r].kept \in {0, 1, 3, 10}
         /\ run[r].why \in {"", "refused", "raised", "odd"}
         /\ run[r].link \in {"none", "store", "home", "results", "web", "watch", "booking"}
         /\ call[r] # NoTool => call[r] = ToolOf(r)
         /\ run[r].at \in ToolStage => ToolOf(r) \in tools

\* The cost and the worth of recovery (super_soldier.py, "Recovery fires at
\* most one extra call, and only when confidence is below the profile
\* threshold"): whatever is refused, raises or comes back, a request calls a
\* model once, once more after a weak answer to a request without an action,
\* and a medium once before that; it ends with the best answer it has seen.
RecoveryPays ==
    \A r \in Caller :
        LET j == run[r]
            plans == IF Kind(j.who) = "media" /\ MediaAct(j.words) THEN 1 ELSE 0
        IN /\ j.models <= plans + 2
           /\ j.models > plans + 1 => j.seen[1] < Threshold /\ ActionLink(j.words) = "none"
           /\ Kind(j.who) \in {"tool", "memory"} => j.models = 0
           /\ Kind(j.who) = "movie" /\ Books(j.words) => j.models = 0 /\ call[r] = NoTool
           /\ j.at = "completed" => \A n \in DOMAIN j.seen : j.kept >= j.seen[n]

\* The links a request may end with: a watch link is only ever found by a
\* search, and a booking is only prepared.
LinksOf(j) ==
    IF Kind(j.who) \in {"tool", "memory"} THEN {"none"}
    ELSE IF Kind(j.who) = "movie" /\ Books(j.words) THEN {"booking"}
    ELSE IF Kind(j.who) = "media" /\ MediaAct(j.words) /\ j.seen = <<>>
         THEN {"none", "results"} \cup IF HasWeb THEN {"watch"} ELSE {}
    ELSE {ActionLink(j.words)} \cup
         IF Kind(j.who) # "llm" /\ HasWeb /\ PlayIntent(j.words) /\ ActionLink(j.words) = "results"
         THEN {"watch"} ELSE {}

\* Search, skills and the plan of a medium are best effort: whatever they
\* meet, a gate that has closed in between included, only the model, the own
\* tool or the memory a Soldier consists of can fail its request, or a plan
\* that is JSON of the wrong types; and a request to act that completes has the
\* link it began with, or a better one.
ExtrasNeverFail ==
    \A r \in Caller :
        /\ run[r].at = "failed" =>
              run[r].left \in {"model", "tool", "memory"} \/ run[r].why = "odd"
        /\ run[r].at = "completed" => run[r].link \in LinksOf(run[r])

\* The books agree: what passed the permission manager is what has been counted
\* as an invocation and what is still in flight, through refusals, exceptions
\* and cancellations.
BooksAgree ==
    /\ audit["allow"] = begun
    /\ Cardinality({r \in Caller : call[r] # NoTool}) + counted["ok"] + counted["error"] = begun

\* Nobody is locked out (factory.py:32, "everyone else becomes an autonomous
\* domain expert"): while no administrator changes a gate, a request may fail
\* because its call raised, never because the call was refused.
NobodyIsLockedOut ==
    changes = 0 => \A r \in Caller : run[r].at = "failed" => run[r].why # "refused"

=============================================================================
