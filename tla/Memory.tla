------------------------------- MODULE Memory -------------------------------
(***************************************************************************)
(* The memory manager (backend/core/memory_manager/memory.py) over its     *)
(* long-term and semantic stores (backend/memory/).                        *)
(*                                                                         *)
(* Several worker processes share the stores (docker/Dockerfile:38).  A    *)
(* call of a store is one step; it may raise, and the worker may die,      *)
(* between the two calls of an operation.  A vector is abstracted to its  *)
(* direction, what a text's words and the process's hash of them make it   *)
(* (backend/memory/embedding.py:13-28): texts of the same words or of      *)
(* colliding hashes share one, a text without a word has none, and the     *)
(* hash differs from process to process.  A scope with an owner is a       *)
(* Place.                                                                  *)
(***************************************************************************)
EXTENDS Naturals, FiniteSets

CONSTANTS Worker,      \* the processes
          Place,       \* the pairs of a scope and an owner
          Text,        \* contents and queries
          Embed,       \* Embed[seed][t]: the direction of a text, 0 if it has none
          K,           \* recall: how many hits are asked for
          MaxIds,      \* bound: memories
          MaxTroubles  \* bound: calls of a store that raise and workers that die

\* What a process hashes words with, one for each process ever started.
Seed == 1 .. Cardinality(Worker) + MaxTroubles

ASSUME StoresAssumption ==
    /\ IsFiniteSet(Worker) /\ Worker # {}
    /\ K \in Nat /\ MaxIds \in Nat /\ MaxTroubles \in Nat
    /\ Embed \in [Seed -> [Text -> Nat]]

VARIABLES rows,     \* the long-term store
          vectors,  \* the semantic store
          worker,   \* where the operation of a process stands
          used,     \* the ids drawn
          boots,    \* the processes started
          faults,   \* the calls that have raised
          acked,    \* history: what remember has returned the id of
          gone,     \* history: the ids a forget has taken out of the rows
          broken    \* history: the ids of operations cut short or overtaken

memoryVars == <<rows, vectors, worker, used, boots, faults, acked, gone, broken>>

Id == 1 .. MaxIds
Row == [id : Id, place : Place, text : Text]
Vector == [id : Id, place : Place, text : Text, seed : Seed]
Free == [at |-> "idle"]
Troubles == faults + boots - Cardinality(Worker)

Ids(S) == {x.id : x \in S}
At(at) == {w \in Worker : worker[w].op.at = at}
InHand(at) == {worker[w].op.id : w \in At(at)}

MemoryInit ==
    /\ rows = {} /\ vectors = {}
    /\ \E seeds \in [Worker -> 1 .. Cardinality(Worker)] :
         /\ \A v, w \in Worker : seeds[v] = seeds[w] => v = w
         /\ worker = [w \in Worker |-> [seed |-> seeds[w], op |-> Free]]
    /\ used = 0 /\ boots = Cardinality(Worker) /\ faults = 0
    /\ acked = {} /\ gone = {} /\ broken = {}

-----------------------------------------------------------------------------
\* remember, up to the insert of the row.
Remember(w, p, t) ==
    /\ worker[w].op = Free /\ used < MaxIds
    /\ used' = used + 1
    /\ rows' = rows \cup {[id |-> used', place |-> p, text |-> t]}
    /\ worker' = [worker EXCEPT ![w].op =
                    [at |-> "upsert", id |-> used', place |-> p, text |-> t]]
    /\ UNCHANGED <<vectors, boots, faults, acked, gone, broken>>

Embedding(w) == [id |-> worker[w].op.id, place |-> worker[w].op.place,
                 text |-> worker[w].op.text, seed |-> worker[w].seed]

\* remember, from the upsert of the vector on.
Upsert(w) ==
    /\ worker[w].op.at = "upsert"
    /\ vectors' = vectors \cup {Embedding(w)}
    /\ acked' = acked \cup {Embedding(w)}
    /\ worker' = [worker EXCEPT ![w].op = Free]
    /\ UNCHANGED <<rows, used, boots, faults, gone, broken>>

\* forget, up to the delete of the row; the id may come from a history of rows
\* whose remember is still under way in another process.
Forget(w, i) ==
    /\ worker[w].op = Free /\ i \in Ids(rows) \cup Ids(acked)
    /\ rows' = {r \in rows : r.id # i}
    /\ worker' = [worker EXCEPT ![w].op = [at |-> "delete", id |-> i]]
    /\ gone' = gone \cup {i}
    /\ broken' = broken \cup ({i} \cap InHand("upsert"))
    /\ UNCHANGED <<vectors, used, boots, faults, acked>>

\* The vector is left to the next forget.
ForgetRowOnly(w) ==
    /\ worker[w].op.at = "delete"
    /\ worker' = [worker EXCEPT ![w].op = Free]
    /\ UNCHANGED <<rows, vectors, used, boots, faults, acked, gone, broken>>

DropVector(w) ==
    /\ worker[w].op.at = "delete"
    /\ vectors' = {v \in vectors : v.id # worker[w].op.id}
    /\ worker' = [worker EXCEPT ![w].op = Free]
    /\ UNCHANGED <<rows, used, boots, faults, acked, gone, broken>>

-----------------------------------------------------------------------------
Matching(p) == {v \in vectors : v.place = p}

\* The cosine of a vector with the query is 1, which no other direction has.
Close(w, v, t) == /\ Embed[worker[w].seed][t] # 0
                  /\ Embed[v.seed][v.text] = Embed[worker[w].seed][t]

\* The first K there are, not sorted.
FirstK(w, p, t) ==
    {H \in SUBSET Matching(p) :
        Cardinality(H) = IF Cardinality(Matching(p)) < K THEN Cardinality(Matching(p)) ELSE K}

\* search: the K best of the vectors of the place.  Those of the query's own
\* direction come before all others; which of equals comes first, and how the
\* others compare, is left open (a query without a direction ranks nothing).
TopK(w, p, t) ==
    {H \in SUBSET Matching(p) :
        /\ Cardinality(H) = IF Cardinality(Matching(p)) < K THEN Cardinality(Matching(p)) ELSE K
        /\ \A h \in H, v \in Matching(p) \ H : Close(w, v, t) => Close(w, h, t)}

\* recall, up to the search.  Kept for the properties: what had been forgotten,
\* which hits have the query's direction, and which memories of this place that
\* remember has acknowledged have it.
Search(w, p, t) ==
    /\ worker[w].op = Free
    /\ \E H \in TopK(w, p, t) :
         worker' = [worker EXCEPT ![w].op =
            [at |-> "hydrate", place |-> p, hits |-> Ids(H), old |-> gone,
             close |-> Ids({h \in H : Close(w, h, t)}),
             due |-> Ids({a \in acked : a.place = p /\ Close(w, a, t)}) \ gone]]
    /\ UNCHANGED <<rows, vectors, used, boots, faults, acked, gone, broken>>

\* What recall returns: the rows of the hits; a hit that has no row is left out.
Answer(w) == {r \in rows : r.id \in worker[w].op.hits}

\* recall, from the rows of the hits on: its caller has the answer.
Hydrate(w) ==
    /\ worker[w].op.at = "hydrate"
    /\ worker' = [worker EXCEPT ![w].op = Free]
    /\ UNCHANGED <<rows, vectors, used, boots, faults, acked, gone, broken>>

-----------------------------------------------------------------------------
\* The operation ends between its calls: what it has written stays.
CutShort(w) == broken' = IF worker[w].op.at \in {"upsert", "delete"}
                         THEN broken \cup {worker[w].op.id} ELSE broken

StoreRaises(w) ==
    /\ worker[w].op.at \in {"upsert", "delete", "hydrate"} /\ Troubles < MaxTroubles
    /\ faults' = faults + 1
    /\ worker' = [worker EXCEPT ![w].op = Free]
    /\ CutShort(w)
    /\ UNCHANGED <<rows, vectors, used, boots, acked, gone>>

\* The process dies and another takes its place, with a hash of its own.
Reboot(w) ==
    /\ Troubles < MaxTroubles
    /\ boots' = boots + 1
    /\ worker' = [worker EXCEPT ![w] = [seed |-> boots', op |-> Free]]
    /\ CutShort(w)
    /\ UNCHANGED <<rows, vectors, used, faults, acked, gone>>

MemoryNext ==
    \E w \in Worker :
        \/ \E p \in Place, t \in Text : Remember(w, p, t) \/ Search(w, p, t)
        \/ \E i \in Id : Forget(w, i)
        \/ Upsert(w) \/ DropVector(w) \/ Hydrate(w)
        \/ StoreRaises(w) \/ Reboot(w)

MemorySpec == MemoryInit /\ [][MemoryNext]_memoryVars

-----------------------------------------------------------------------------
MemoryTypeOK ==
    /\ rows \subseteq Row /\ vectors \subseteq Vector /\ acked \subseteq Vector
    /\ \A w \in Worker : /\ worker[w].seed \in Seed
                         /\ worker[w].op.at \in {"idle", "upsert", "delete", "hydrate"}
    /\ used \in 0 .. MaxIds /\ boots \in Seed /\ faults \in 0 .. MaxTroubles
    /\ gone \subseteq Id /\ broken \subseteq Id

\* A recall, whenever it comes to read its rows, answers with rows of its own
\* scope and owner, none of which was forgotten before it began.  A memory that
\* remember has acknowledged, and whose vector has the direction of the query as
\* this process computes it, is in the answer, unless it has been forgotten or as
\* many hits as are asked for have that direction too (some of which may be
\* vectors that outlived their rows and crowd the living out).
RecallSound ==
    \A w \in At("hydrate") :
        LET op == worker[w].op
        IN /\ \A r \in Answer(w) : r.place = op.place /\ r.id \notin op.old
           /\ \A i \in op.due : \/ i \in Ids(Answer(w)) \cup gone
                                \/ Cardinality(op.close) = K

\* The stores differ only in what an operation has in hand, or was cut short or
\* overtaken at: a row misses its vector only by a remember, a vector outlives
\* its row only by a forget.
StoresAgree ==
    /\ Ids(rows) \ Ids(vectors) \subseteq InHand("upsert") \cup InHand("delete") \cup broken
    /\ Ids(vectors) \ Ids(rows) \subseteq gone \cap (InHand("delete") \cup broken)

\* Memory is sound across processes, failures between the two stores and
\* crashes: what a recall answers, and what the stores hold of one memory.
MemorySound == RecallSound /\ StoresAgree

=============================================================================
