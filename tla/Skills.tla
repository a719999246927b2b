------------------------------- MODULE Skills -------------------------------
(***************************************************************************)
(* The skill registry (backend/core/skill_registry.py) of each worker      *)
(* process (docker/Dockerfile:38) on the folder of skills they share.      *)
(*                                                                         *)
(* An administrator saves a skill in one of the processes.  There, save    *)
(* suspends nowhere; the others run in between its calls of the file       *)
(* system.  A folder is a number, in the order of a sorted listing.  Of a  *)
(* name the registry sees its folder, its long words, and whether it is    *)
(* written in small letters.  A mixture of two texts is read by the one it *)
(* begins with.                                                            *)
(***************************************************************************)
EXTENDS SequencesExt, FiniteSets, Integers

CONSTANTS Process,     \* the worker processes
          Folder,      \* the folders a name may lead to, 1, 2, ...
          SkillNames,  \* names, as records of folder, words and small
          Content,     \* what may be uploaded, see Header
          Shipped,     \* the text the repository comes with, in folder 1
          MaxSaves     \* bound: saves begun

ASSUME SkillsAssumption ==
    /\ IsFiniteSet(Folder) /\ Folder # {} /\ Folder = 1 .. Cardinality(Folder)
    /\ MaxSaves \in Nat
    /\ \A n \in SkillNames : n.folder \in Folder /\ IsFiniteSet(n.words)
    /\ \A c \in {h \in Content : h.headed} \cup {Shipped} :
          IsFiniteSet(c.about) /\ \A n \in c.title : IsFiniteSet(n.words)
    /\ Shipped = [title |-> Shipped.title, about |-> Shipped.about, whole |-> TRUE]

VARIABLES files,    \* SKILL.md of each folder: none or one text
          skills,   \* SkillRegistry.skills of each process
          doing,    \* what a process is about
          saves,    \* saves begun, counted for the bound
          saved,    \* history: the text last saved in a folder
          spoilt,   \* history: folders where saves overlapped or broke off
          current   \* history: processes with no write since they began to load

skillVars == <<files, skills, doing, saves, saved, spoilt, current>>

AtRest == [at |-> "rest"]
Writing(f) == {p \in Process : doing[p].at = "write" /\ doing[p].folder = f}

\* save_skill: without a header the text is given one, with the name in it twice;
\* a text that begins like a header stays as it is, whatever is in it.
Header(n, c) == IF c.headed THEN [title |-> c.title, about |-> c.about, whole |-> TRUE]
                ELSE [title |-> {n}, about |-> n.words, whole |-> TRUE]

EmptyText == [title |-> {}, about |-> {}, whole |-> TRUE]

\* _parse: a text without a name is the skill "skill".
Unnamed == [folder |-> 0, words |-> {"skill"}, small |-> TRUE]
Parse(t) == [name  |-> IF t.title = {} THEN Unnamed ELSE CHOOSE n \in t.title : TRUE,
             about |-> t.about, whole |-> t.whole]

\* sorted(os.listdir(root)), of the folders with a file in them.
InOrder(D) == CHOOSE l \in [1 .. Cardinality(D) -> D] :
                \A m, n \in DOMAIN l : m < n => l[m] < l[n]
Filled == {f \in Folder : files[f] # {}}
Listing == InOrder(Filled)

\* The skills the texts on disk stand for.
OnDisk == [n \in DOMAIN Listing |-> Parse(CHOOSE t \in files[Listing[n]] : TRUE)]

SkillsInit ==
    /\ files = [f \in Folder |-> IF f = 1 THEN {Shipped} ELSE {}]
    /\ skills = [p \in Process |-> OnDisk]
    /\ doing = [p \in Process |-> AtRest]
    /\ saves = 0 /\ saved = files /\ spoilt = {} /\ current = Process

-----------------------------------------------------------------------------
\* reload without the reset.
BeginLoadOnTop(p) ==
    /\ UNCHANGED skills
    /\ doing' = [doing EXCEPT ![p] = [at |-> "load", folders |-> {f \in Folder : files'[f] # {}}]]

\* _load, up to its first file.
BeginLoad(p) ==
    /\ skills' = [skills EXCEPT ![p] = <<>>]
    /\ doing' = [doing EXCEPT ![p] = [at |-> "load", folders |-> {f \in Folder : files'[f] # {}}]]

\* save_skill, up to the file, which is emptied as it is opened.
OpenFile(p, n, c) ==
    /\ doing[p] = AtRest /\ saves < MaxSaves
    /\ saves' = saves + 1
    /\ files' = [files EXCEPT ![n.folder] = {EmptyText}]
    /\ doing' = [doing EXCEPT ![p] = [at |-> "write", folder |-> n.folder, text |-> Header(n, c)]]
    /\ spoilt' = IF Writing(n.folder) # {} THEN spoilt \cup {n.folder} ELSE spoilt \ {n.folder}
    /\ current' = {}
    /\ UNCHANGED <<skills, saved>>

\* The text is written over what is there by now; if that is longer, its end stays.
WriteFile(p) ==
    /\ doing[p].at = "write"
    /\ LET f == doing[p].folder
       IN /\ \E w \in IF files[f] = {EmptyText} THEN {TRUE} ELSE BOOLEAN :
               files' = [files EXCEPT ![f] = {[doing[p].text EXCEPT !.whole = w]}]
          /\ saved' = [saved EXCEPT ![f] = {doing[p].text}]
    /\ BeginLoad(p)
    /\ current' = {p}
    /\ UNCHANGED <<saves, spoilt>>

\* The next file in the order of the folders.  One that cannot be decoded, a
\* mixture of two, is passed over.
LoadFile(p) ==
    /\ doing[p].at = "load" /\ doing[p].folders # {}
    /\ LET f == CHOOSE g \in doing[p].folders : \A h \in doing[p].folders : g <= h
           text == CHOOSE t \in files[f] : TRUE
       IN /\ \/ skills' = [skills EXCEPT ![p] = Append(@, Parse(text))]
             \/ ~ text.whole /\ UNCHANGED skills
          /\ doing' = [doing EXCEPT ![p].folders = @ \ {f}]
    /\ UNCHANGED <<files, saves, saved, spoilt, current>>

Loaded(p) ==
    /\ doing[p].at = "load" /\ doing[p].folders = {}
    /\ doing' = [doing EXCEPT ![p] = AtRest]
    /\ UNCHANGED <<files, skills, saves, saved, spoilt, current>>

\* The write raises: the route answers 500, and the file stays empty.
WriteFails(p) ==
    /\ doing[p].at = "write"
    /\ doing' = [doing EXCEPT ![p] = AtRest]
    /\ spoilt' = spoilt \cup {doing[p].folder}
    /\ UNCHANGED <<files, skills, saves, saved, current>>

\* The process dies; the one in its place loads what it finds.
Respawn(p) ==
    /\ spoilt' = IF doing[p].at = "write" THEN spoilt \cup {doing[p].folder} ELSE spoilt
    /\ UNCHANGED files
    /\ BeginLoad(p)
    /\ current' = current \cup {p}
    /\ UNCHANGED <<saves, saved>>

SkillsNext ==
    \E p \in Process :
        \/ \E n \in SkillNames, c \in Content : OpenFile(p, n, c)
        \/ WriteFile(p) \/ LoadFile(p) \/ Loaded(p) \/ WriteFails(p) \/ Respawn(p)

SkillsSpec == SkillsInit /\ [][SkillsNext]_skillVars

-----------------------------------------------------------------------------
\* A request: the long words in it and the names said in it.  Names are compared
\* as they are written with a request in small letters.
Asking == [words : SUBSET UNION {n.words : n \in SkillNames}, said : SUBSET SkillNames]
AllWords(q) == q.words \cup UNION {n.words : n \in q.said}

Score(s, q) == Cardinality(AllWords(q) \cap (s.name.words \cup s.about))
               + IF s.name \in q.said /\ s.name.small THEN 3 ELSE 0

MinScore == 2

\* match: the position of the skill, or 0; best and best_score after n skills.
Match(list, q) ==
    LET best[n \in 0 .. Len(list)] ==
          IF n = 0 THEN [at |-> 0, score |-> 0]
          ELSE IF Score(list[n], q) > best[n - 1].score
               THEN [at |-> n, score |-> Score(list[n], q)] ELSE best[n - 1]
        found == best[Len(list)]
    IN IF found.score >= MinScore THEN found.at ELSE 0

-----------------------------------------------------------------------------
SkillsTypeOK ==
    /\ \A f \in Folder : Cardinality(files[f]) <= 1 /\ Cardinality(saved[f]) <= 1
    /\ \A p \in Process : /\ doing[p].at \in {"rest", "write", "load"}
                          /\ Len(skills[p]) <= Cardinality(Folder)
    /\ saves \in 0 .. MaxSaves /\ spoilt \subseteq Folder /\ current \subseteq Process

\* A file holds what was last saved there, unless two saves met in its folder or
\* one broke off: a save that fails takes the skill with it that it was to
\* replace.
FilesHoldWhatWasSaved ==
    \A f \in Folder : Writing(f) = {} /\ f \notin spoilt => files[f] = saved[f]

\* A process whose load nothing was written after has the skills on disk, each
\* once and in the order of the folders, although it reads file by file.
CurrentIfLast ==
    \A p \in current :
        doing[p] = AtRest /\ (\A n \in DOMAIN OnDisk : OnDisk[n].whole) => skills[p] = OnDisk

\* match gives the first of the best skills, and one that is good enough.
BestMatch ==
    \A p \in Process : doing[p] = AtRest =>
        \A q \in Asking :
            LET list == skills[p]
                m == Match(list, q)
            IN IF m = 0 THEN \A n \in DOMAIN list : Score(list[n], q) < MinScore
               ELSE /\ Score(list[m], q) >= MinScore
                    /\ \A n \in DOMAIN list : /\ Score(list[n], q) <= Score(list[m], q)
                                              /\ n < m => Score(list[n], q) < Score(list[m], q)

\* "a minimal header is added so the skill is matchable" (skill_registry.py:67),
\* by a request that says its name, as far as that is so: the name must be
\* written in small letters or have two long words.
PlainIsMatchable ==
    \A p \in Process, n \in SkillNames :
        /\ doing[p] = AtRest
        /\ Contains(skills[p], [name |-> n, about |-> n.words, whole |-> TRUE])
        /\ n.small \/ Cardinality(n.words) >= MinScore
        => Match(skills[p], [words |-> {}, said |-> {n}]) # 0

\* The skills of the processes and of the folder they share are sound.
SkillsSound == FilesHoldWhatWasSaved /\ CurrentIfLast /\ BestMatch /\ PlainIsMatchable

=============================================================================
