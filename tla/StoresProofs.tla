----------------------------- MODULE StoresProofs -----------------------------
(***************************************************************************)
(* Proofs about what several worker processes keep in stores they share:   *)
(* Memory, for any processes, places and texts, any number of memories and *)
(* hits, and any calls that raise or workers that die; and Skills, for any *)
(* processes, folders, names and texts, and any saves that overlap or      *)
(* break off.                                                              *)
(***************************************************************************)
EXTENDS Memory, Skills, FiniteSetTheorems, WellFoundedInduction, TLAPS

-----------------------------------------------------------------------------
(* Memory.                                                                 *)

\* What a process may have in hand.
Op == {Free}
        \cup [at : {"upsert"}, id : Id, place : Place, text : Text]
        \cup [at : {"delete"}, id : Id]
        \cup [at : {"hydrate"}, place : Place, hits : SUBSET Id, old : SUBSET Id,
              close : SUBSET Id, due : SUBSET Id]

Shapes == /\ rows \subseteq Row /\ vectors \subseteq Vector /\ acked \subseteq Vector
          /\ IsFiniteSet(acked)
          /\ worker \in [Worker -> [seed : Seed, op : Op]]
          /\ used \in 0 .. MaxIds /\ gone \subseteq Id /\ broken \subseteq Id

\* Each trouble is one of MaxTroubles.
Budget == /\ faults \in Nat /\ boots \in Nat /\ Cardinality(Worker) <= boots
          /\ faults + boots <= Cardinality(Worker) + MaxTroubles

Holds(w, at, i) == worker[w].op.at = at /\ worker[w].op.id = i

\* An id is drawn once: what bears it belongs to one memory, and only its remember
\* may still bring it a vector.
OneMemory ==
    /\ \A a, b \in acked : a.id = b.id => a = b
    /\ \A r \in rows, a \in acked : r.id = a.id => r.place = a.place /\ r.text = a.text
    /\ \A i \in Ids(rows) \cup Ids(acked) \cup gone : i <= used
    /\ \A w \in Worker, i \in Id : Holds(w, "upsert", i) =>
          /\ i <= used /\ i \notin Ids(acked)
          /\ \A v \in Worker \ {w} : ~ Holds(v, "upsert", i)
          /\ \A r \in rows : r.id = i => /\ r.place = worker[w].op.place
                                         /\ r.text = worker[w].op.text
          /\ i \in gone => i \in broken
    /\ \A w \in Worker, i \in Id : Holds(w, "delete", i) => i \in gone

\* The rows are what has not been forgotten; the vectors are what was acknowledged and
\* not forgotten, and what a forget has not come to or was kept from.
Stores ==
    /\ \A r \in rows : r.id \notin gone
    /\ \A i \in 1 .. used : i \in gone \/ i \in Ids(rows)
    /\ \A i \in 1 .. used :
          i \in Ids(acked) \/ i \in broken \/ \E w \in Worker : Holds(w, "upsert", i)
    /\ vectors \subseteq acked
    /\ \A a \in acked : a.id \in gone \/ a \in vectors
    /\ \A v \in vectors :
          v.id \in gone => v.id \in broken \/ \E w \in Worker : Holds(w, "delete", v.id)

\* The hits of a recall are of its place, and a memory due that is not among them was
\* crowded out by K of the query's direction.
RecallInv(w) ==
    worker[w].op.at = "hydrate" =>
        LET op == worker[w].op
        IN  /\ op.old \subseteq gone
            /\ \A i \in op.hits : \E a \in acked : a.id = i /\ a.place = op.place
            /\ \A i \in op.due : \E a \in acked : a.id = i
            /\ \A i \in op.due : i \in op.hits \/ Cardinality(op.close) = K

\* The inductive invariant.
MemoryInv == /\ Shapes
             /\ Budget
             /\ OneMemory
             /\ Stores
             /\ \A w \in Worker : RecallInv(w)

-----------------------------------------------------------------------------
\* What an operation in hand carries.
LEMMA OpShape ==
    ASSUME NEW o \in Op
    PROVE  /\ o.at \in {"idle", "upsert", "delete", "hydrate"}
           /\ o.at = "idle" <=> o = Free
           /\ o.at = "upsert" => o.id \in Id /\ o.place \in Place /\ o.text \in Text
           /\ o.at = "delete" => o.id \in Id
  BY DEF Op, Free

\* One process turns to another operation.
OpBecomes(w, o) == /\ worker'[w].op = o
               /\ \A v \in Worker : v # w => worker'[v] = worker[v]

\* The assignment of the actions is such a turn; the hash of the process stays.
LEMMA TurnsTo ==
    ASSUME Shapes, NEW w \in Worker, NEW o \in Op,
           worker' = [worker EXCEPT ![w].op = o]
    PROVE  /\ OpBecomes(w, o)
           /\ worker'[w].seed = worker[w].seed
           /\ worker' \in [Worker -> [seed : Seed, op : Op]]
  BY DEF Shapes, OpBecomes

\* What the other processes hold, they go on holding.
LEMMA OthersHold ==
    ASSUME NEW w \in Worker, NEW o, OpBecomes(w, o), NEW at, NEW i
    PROVE  /\ \A v \in Worker : v # w => (Holds(v, at, i)' <=> Holds(v, at, i))
           /\ Holds(w, at, i)' <=> o.at = at /\ o.id = i
  BY DEF OpBecomes, Holds

\* The seeds, and what is left of the budget.
LEMMA Seeds == /\ Cardinality(Worker) \in Nat /\ Cardinality(Worker) >= 1
               /\ Seed = 1 .. Cardinality(Worker) + MaxTroubles
  <1>1. Cardinality(Worker) \in Nat
    BY StoresAssumption, FS_CardinalityType
  <1>2. Cardinality(Worker) # 0
    BY StoresAssumption, FS_EmptySet
  <1> QED BY <1>1, <1>2 DEF Seed

\* What a row or a vector carries, and that no id is beyond those there are.
LEMMA Carried ==
    ASSUME Shapes
    PROVE  /\ \A r \in rows : r.id \in Id /\ r.id \in Ids(rows)
           /\ \A a \in acked : a.id \in Id /\ a.id \in Ids(acked)
           /\ \A i \in Ids(rows) : \E r \in rows : r.id = i
           /\ \A i \in Ids(acked) : \E a \in acked : a.id = i
           /\ used \in Nat /\ used <= MaxIds /\ Id = 1 .. MaxIds
           /\ Ids(rows) \subseteq Id /\ Ids(acked) \subseteq Id /\ gone \subseteq Id
  BY StoresAssumption DEF Shapes, Ids, Row, Vector, Id

-----------------------------------------------------------------------------
(* The actions.                                                            *)

\* remember, up to the row: an id nothing has borne.
LEMMA RememberStep ==
    ASSUME MemoryInv, NEW w \in Worker, NEW p \in Place, NEW t \in Text, Remember(w, p, t)
    PROVE  MemoryInv'
  <1> DEFINE i == used + 1
             o == [at |-> "upsert", id |-> i, place |-> p, text |-> t]
             row == [id |-> i, place |-> p, text |-> t]
  <1>1. /\ i \in Id /\ i \in Nat /\ used' = i /\ used \in Nat /\ i > used
        /\ rows' = rows \cup {row} /\ row \in Row
        /\ o \in Op
        /\ worker' = [worker EXCEPT ![w].op = o]
        /\ UNCHANGED <<vectors, boots, faults, acked, gone, broken>>
        /\ worker[w].op.at = "idle"
    BY StoresAssumption DEF MemoryInv, Shapes, Remember, Id, Row, Op, Free
  <1> HIDE DEF o, row, i
  <1>2. /\ OpBecomes(w, o) /\ worker' \in [Worker -> [seed : Seed, op : Op]]
    BY <1>1, TurnsTo DEF MemoryInv
  <1>3. Shapes'
    BY <1>1, <1>2, StoresAssumption DEF MemoryInv, Shapes, Id
  <1>4. Budget'
    BY <1>1 DEF MemoryInv, Budget
  <1>5. o.at = "upsert" /\ o.id = i /\ o.place = p /\ o.text = t
        /\ row.id = i /\ row.place = p /\ row.text = t
    BY DEF o, row
  <1>6. \A v \in Worker, j \in Id :
            /\ Holds(v, "upsert", j)' <=> \/ v = w /\ j = i
                                          \/ v # w /\ Holds(v, "upsert", j)
            /\ Holds(v, "delete", j)' <=> Holds(v, "delete", j)
    BY <1>1, <1>2, <1>5, OthersHold DEF Holds
  <1>7. Ids(rows') = Ids(rows) \cup {i}
    BY <1>1, <1>5 DEF Ids
  <1>8. OneMemory'
    <2>1. \A j \in Ids(rows') \cup Ids(acked) \cup gone : j <= used'
      BY <1>1, <1>7, Carried DEF MemoryInv, OneMemory
    <2>2. \A r \in rows', a \in acked : r.id = a.id => r.place = a.place /\ r.text = a.text
      BY <1>1, <1>5, Carried DEF MemoryInv, OneMemory
    <2>3. ASSUME NEW v \in Worker, NEW j \in Id, Holds(v, "upsert", j)'
          PROVE  /\ j <= used' /\ j \notin Ids(acked)
                 /\ \A u \in Worker \ {v} : ~ Holds(u, "upsert", j)'
                 /\ \A r \in rows' : r.id = j => /\ r.place = worker'[v].op.place
                                                 /\ r.text = worker'[v].op.text
                 /\ j \in gone => j \in broken
      <3>1. CASE v = w
        <4>1. j = i /\ worker'[w].op = o
          BY <3>1, <2>3, <1>6, <1>2 DEF OpBecomes
        <4>2. \A r \in rows : r.id # i
          BY <1>1, Carried DEF MemoryInv, OneMemory
        <4>3. i \notin Ids(acked) /\ i \notin gone
          BY <1>1, Carried DEF MemoryInv, OneMemory
        <4>4. \A u \in Worker : ~ Holds(u, "upsert", i)
          <5>1. ~ i <= used
            BY <1>1
          <5> QED BY <5>1, <1>1 DEF MemoryInv, OneMemory
        <4>5. \A u \in Worker \ {v} : ~ Holds(u, "upsert", j)'
          BY <4>1, <4>4, <1>6, <3>1
        <4>6. j <= used'
          BY <4>1, <1>1
        <4>7. \A r \in rows' : r.id = j => r = row
          BY <4>1, <4>2, <1>1
        <4> QED BY <4>1, <4>3, <4>5, <4>6, <4>7, <3>1, <1>5
      <3>2. CASE v # w
        <4>1. Holds(v, "upsert", j) /\ worker'[v] = worker[v]
          BY <3>2, <2>3, <1>6, <1>2 DEF OpBecomes
        <4>2. j <= used /\ j # i /\ j <= used'
          BY <4>1, <1>1 DEF MemoryInv, OneMemory, Id
        <4> QED BY <4>1, <4>2, <1>6, <1>1, <1>5, <3>2 DEF MemoryInv, OneMemory
      <3> QED BY <3>1, <3>2
    <2> QED BY <2>1, <2>2, <2>3, <1>1, <1>6 DEF MemoryInv, OneMemory
  <1>9. Stores'
    <2>1. \A r \in rows' : r.id \notin gone
      BY <1>1, <1>5, Carried DEF MemoryInv, OneMemory, Stores
    <2>2. \A j \in 1 .. used' : j \in 1 .. used \/ j = i
      BY <1>1 DEF i
    <2>3. \A j \in 1 .. used' : j \in gone \/ j \in Ids(rows')
      BY <2>2, <1>7 DEF MemoryInv, Stores
    <2>4. \A j \in 1 .. used' :
            j \in Ids(acked) \/ j \in broken \/ \E v \in Worker : Holds(v, "upsert", j)'
      <3>1. \A j \in 1 .. used : j \in Id
        BY <1>1, StoresAssumption DEF MemoryInv, Shapes, Id
      <3>2. ~ \E j \in Id : Holds(w, "upsert", j)
        BY <1>1 DEF Holds
      <3> QED BY <2>2, <3>1, <3>2, <1>1, <1>6 DEF MemoryInv, Stores
    <2>5. \A v \in vectors : v.id \in Id
      BY DEF MemoryInv, Shapes, Vector
    <2> QED BY <2>1, <2>3, <2>4, <2>5, <1>1, <1>6 DEF MemoryInv, Stores
  <1>10. \A v \in Worker : RecallInv(v)'
    BY <1>1, <1>2, <1>5 DEF MemoryInv, RecallInv, OpBecomes
  <1> QED BY <1>3, <1>4, <1>8, <1>9, <1>10 DEF MemoryInv

\* A recall of another process rests on histories that only grow.
LEMMA RecallStays ==
    ASSUME MemoryInv, NEW w \in Worker, NEW o, OpBecomes(w, o), o.at # "hydrate",
           acked \subseteq acked', gone \subseteq gone'
    PROVE  \A v \in Worker : RecallInv(v)'
  <1>1. RecallInv(w)'
    BY DEF RecallInv, OpBecomes
  <1>2. ASSUME NEW v \in Worker, v # w PROVE RecallInv(v)'
    BY <1>2 DEF MemoryInv, RecallInv, OpBecomes
  <1> QED BY <1>1, <1>2

\* A process that ends its operation holds nothing.
LEMMA FreeHolds ==
    ASSUME NEW w \in Worker, OpBecomes(w, Free), NEW at \in {"upsert", "delete"}, NEW i
    PROVE  \A v \in Worker : Holds(v, at, i)' <=> v # w /\ Holds(v, at, i)
  <1>1. ~ Holds(w, at, i)'
    BY DEF OpBecomes, Free, Holds
  <1>2. \A v \in Worker : v # w => (Holds(v, at, i)' <=> Holds(v, at, i))
    BY OthersHold
  <1> QED BY <1>1, <1>2

LEMMA FreeOp == Free \in Op /\ Free.at # "hydrate"
  BY DEF Op, Free

\* remember, from the vector on: the memory is acknowledged.
LEMMA UpsertStep ==
    ASSUME MemoryInv, NEW w \in Worker, Upsert(w)
    PROVE  MemoryInv'
  <1> DEFINE i == worker[w].op.id
             e == Embedding(w)
  <1>0. worker[w].op \in Op /\ worker[w].op.at = "upsert" /\ worker[w].seed \in Seed
    BY DEF MemoryInv, Shapes, Upsert
  <1>1. /\ i \in Id
        /\ e \in Vector
        /\ e.id = i /\ e.place = worker[w].op.place /\ e.text = worker[w].op.text
        /\ vectors' = vectors \cup {e} /\ acked' = acked \cup {e}
        /\ worker' = [worker EXCEPT ![w].op = Free]
        /\ UNCHANGED <<rows, used, boots, faults, gone, broken>>
        /\ Holds(w, "upsert", i)
    BY <1>0, OpShape DEF Upsert, Embedding, Vector, Holds
  <1> HIDE DEF e
  <1>2. /\ OpBecomes(w, Free) /\ worker' \in [Worker -> [seed : Seed, op : Op]]
    BY <1>1, TurnsTo, FreeOp DEF MemoryInv
  <1>3. Shapes'
    <2>1. IsFiniteSet(acked')
      BY <1>1, FS_AddElement DEF MemoryInv, Shapes
    <2> QED BY <1>1, <1>2, <2>1 DEF MemoryInv, Shapes
  <1>4. Budget'
    BY <1>1 DEF MemoryInv, Budget
  <1>5. PICK k \in Id : k = i
    BY <1>1
  <1>6. \A v \in Worker, j \in Id :
            /\ Holds(v, "upsert", j)' <=> v # w /\ Holds(v, "upsert", j)
            /\ Holds(v, "delete", j)' <=> v # w /\ Holds(v, "delete", j)
    BY <1>2, FreeHolds
  <1>7. /\ k <= used /\ k \notin Ids(acked)
        /\ \A v \in Worker : v # w => ~ Holds(v, "upsert", k)
        /\ \A r \in rows : r.id = k => r.place = e.place /\ r.text = e.text
        /\ k \in gone => k \in broken
        /\ e.id = k /\ Holds(w, "upsert", k)
    BY <1>1, <1>5 DEF MemoryInv, OneMemory
  <1>8. Ids(acked') = Ids(acked) \cup {k}
    BY <1>1, <1>7 DEF Ids
  <1>9. ~ Holds(w, "delete", k) /\ \A j \in Id : ~ Holds(w, "delete", j)
    BY <1>0 DEF Holds
  <1>10. OneMemory'
    <2>1. \A a, b \in acked' : a.id = b.id => a = b
      BY <1>1, <1>7, Carried DEF MemoryInv, OneMemory
    <2>2. \A r \in rows, a \in acked' : r.id = a.id => r.place = a.place /\ r.text = a.text
      BY <1>1, <1>7 DEF MemoryInv, OneMemory
    <2>3. \A j \in Ids(rows) \cup Ids(acked') \cup gone : j <= used
      BY <1>7, <1>8 DEF MemoryInv, OneMemory
    <2>4. ASSUME NEW v \in Worker, NEW j \in Id, Holds(v, "upsert", j)'
          PROVE  /\ j <= used /\ j \notin Ids(acked')
                 /\ \A u \in Worker \ {v} : ~ Holds(u, "upsert", j)'
                 /\ \A r \in rows : r.id = j => /\ r.place = worker'[v].op.place
                                                /\ r.text = worker'[v].op.text
                 /\ j \in gone => j \in broken
      <3>1. v # w /\ Holds(v, "upsert", j) /\ worker'[v] = worker[v]
        BY <2>4, <1>6, <1>2 DEF OpBecomes
      <3>2. j # k
        BY <3>1, <1>7
      <3> QED BY <3>1, <3>2, <1>6, <1>8 DEF MemoryInv, OneMemory
    <2>5. \A v \in Worker, j \in Id : Holds(v, "delete", j)' => j \in gone
      BY <1>6 DEF MemoryInv, OneMemory
    <2> QED BY <2>1, <2>2, <2>3, <2>4, <2>5, <1>1 DEF OneMemory
  <1>11. Stores'
    <2>1. \A j \in 1 .. used :
            j \in Ids(acked') \/ j \in broken \/ \E v \in Worker : Holds(v, "upsert", j)'
      <3>1. \A j \in 1 .. used : j \in Id
        BY Carried, StoresAssumption DEF MemoryInv
      <3>2. \A j \in Id : Holds(w, "upsert", j) => j = k
        BY <1>7 DEF Holds
      <3> QED BY <3>1, <3>2, <1>6, <1>8 DEF MemoryInv, Stores
    <2>2. \A a \in acked' : a.id \in gone \/ a \in vectors'
      BY <1>1 DEF MemoryInv, Stores
    <2>3. \A v \in vectors' :
            v.id \in gone => v.id \in broken \/ \E u \in Worker : Holds(u, "delete", v.id)'
      <3>1. \A v \in vectors : v.id \in Id
        BY DEF MemoryInv, Shapes, Vector
      <3> QED BY <3>1, <1>1, <1>7, <1>6, <1>9 DEF MemoryInv, Stores
    <2> QED BY <2>1, <2>2, <2>3, <1>1 DEF MemoryInv, Stores
  <1>12. \A v \in Worker : RecallInv(v)'
    BY <1>1, <1>2, FreeOp, RecallStays
  <1> QED BY <1>3, <1>4, <1>10, <1>11, <1>12 DEF MemoryInv

\* forget, up to the row.
LEMMA ForgetStep ==
    ASSUME MemoryInv, NEW w \in Worker, NEW k \in Id, Forget(w, k)
    PROVE  MemoryInv'
  <1> DEFINE o == [at |-> "delete", id |-> k]
  <1>1. /\ o \in Op /\ o.at = "delete" /\ o.id = k
        /\ worker[w].op.at = "idle"
        /\ worker' = [worker EXCEPT ![w].op = o]
        /\ UNCHANGED <<vectors, used, boots, faults, acked>>
        /\ k \in Ids(rows) \cup Ids(acked)
        /\ gone' = gone \cup {k}
    BY DEF Forget, Op, Free
  <1> HIDE DEF o
  <1>2. /\ OpBecomes(w, o) /\ worker' \in [Worker -> [seed : Seed, op : Op]]
    BY <1>1, TurnsTo DEF MemoryInv
  <1>3. /\ \A r : r \in rows' <=> r \in rows /\ r.id # k
        /\ broken \subseteq broken' /\ broken' \subseteq broken \cup {k}
        /\ (\E v \in Worker : Holds(v, "upsert", k)) => k \in broken'
    BY DEF Forget, InHand, At, Holds
  <1>4. Shapes'
    BY <1>1, <1>2, <1>3 DEF MemoryInv, Shapes
  <1>5. Budget'
    BY <1>1 DEF MemoryInv, Budget
  <1>6. \A v \in Worker, j \in Id :
            /\ Holds(v, "upsert", j)' <=> Holds(v, "upsert", j)
            /\ Holds(v, "delete", j)' <=> \/ v = w /\ j = k
                                          \/ v # w /\ Holds(v, "delete", j)
    BY <1>1, <1>2, OthersHold DEF Holds
  <1>7. k <= used
    BY <1>1 DEF MemoryInv, OneMemory
  <1>8. Ids(rows') = Ids(rows) \ {k}
    BY <1>3 DEF Ids
  <1>9. OneMemory'
    <2>1. \A a, b \in acked : a.id = b.id => a = b
      BY DEF MemoryInv, OneMemory
    <2>2. \A r \in rows', a \in acked : r.id = a.id => r.place = a.place /\ r.text = a.text
      BY <1>3 DEF MemoryInv, OneMemory
    <2>3. \A j \in Ids(rows') \cup Ids(acked) \cup gone' : j <= used
      BY <1>1, <1>7, <1>8 DEF MemoryInv, OneMemory
    <2>4. ASSUME NEW v \in Worker, NEW j \in Id, Holds(v, "upsert", j)'
          PROVE  /\ j <= used /\ j \notin Ids(acked)
                 /\ \A u \in Worker \ {v} : ~ Holds(u, "upsert", j)'
                 /\ \A r \in rows' : r.id = j => /\ r.place = worker'[v].op.place
                                                 /\ r.text = worker'[v].op.text
                 /\ j \in gone' => j \in broken'
      <3>1. Holds(v, "upsert", j) /\ v # w /\ worker'[v] = worker[v]
        BY <2>4, <1>6, <1>2, <1>1 DEF OpBecomes, Holds
      <3> QED BY <3>1, <1>1, <1>3, <1>6 DEF MemoryInv, OneMemory
    <2>5. \A v \in Worker, j \in Id : Holds(v, "delete", j)' => j \in gone'
      BY <1>1, <1>6 DEF MemoryInv, OneMemory
    <2> QED BY <2>1, <2>2, <2>3, <2>4, <2>5, <1>1 DEF OneMemory
  <1>10. Stores'
    <2>1. \A r \in rows' : r.id \notin gone'
      BY <1>1, <1>3 DEF MemoryInv, Stores
    <2>2. \A j \in 1 .. used : j \in gone' \/ j \in Ids(rows')
      BY <1>1, <1>8 DEF MemoryInv, Stores
    <2>3. \A j \in 1 .. used :
            j \in Ids(acked) \/ j \in broken' \/ \E v \in Worker : Holds(v, "upsert", j)'
      <3>1. \A j \in 1 .. used : j \in Id
        BY Carried, StoresAssumption DEF MemoryInv
      <3> QED BY <3>1, <1>3, <1>6 DEF MemoryInv, Stores
    <2>4. vectors \subseteq acked /\ \A a \in acked : a.id \in gone' \/ a \in vectors
      BY <1>1 DEF MemoryInv, Stores
    <2>5. ASSUME NEW v \in vectors, v.id \in gone'
          PROVE  v.id \in broken' \/ \E u \in Worker : Holds(u, "delete", v.id)'
      <3>1. v.id \in Id
        BY DEF MemoryInv, Shapes, Vector
      <3>2. PICK j \in Id : j = v.id
        BY <3>1
      <3>3. j \in gone' /\ (j \in gone => j \in broken \/ \E u \in Worker : Holds(u, "delete", j))
        BY <2>5, <3>2 DEF MemoryInv, Stores
      <3>4. ~ Holds(w, "delete", j)
        BY <1>1 DEF Holds
      <3>5. j \in broken' \/ \E u \in Worker : Holds(u, "delete", j)'
        BY <3>3, <3>4, <1>1, <1>3, <1>6
      <3> QED BY <3>2, <3>5, <1>1 DEF Holds
    <2> QED BY <2>1, <2>2, <2>3, <2>4, <2>5, <1>1 DEF Stores
  <1>11. \A v \in Worker : RecallInv(v)'
    <2>1. acked \subseteq acked' /\ gone \subseteq gone'
      BY <1>1
    <2> QED BY <1>1, <1>2, <2>1, RecallStays
  <1> QED BY <1>4, <1>5, <1>9, <1>10, <1>11 DEF MemoryInv

\* forget, from the vector on.
LEMMA DropVectorStep ==
    ASSUME MemoryInv, NEW w \in Worker, DropVector(w)
    PROVE  MemoryInv'
  <1>0. worker[w].op \in Op /\ worker[w].op.at = "delete"
    BY DEF MemoryInv, Shapes, DropVector
  <1>1. PICK k \in Id : k = worker[w].op.id
    BY <1>0, OpShape
  <1>2. /\ worker' = [worker EXCEPT ![w].op = Free]
        /\ UNCHANGED <<rows, used, boots, faults, acked, gone, broken>>
        /\ \A v : v \in vectors' <=> v \in vectors /\ v.id # k
        /\ \A j : ~ Holds(w, "upsert", j)
        /\ \A j : Holds(w, "delete", j) <=> j = k
    BY <1>0, <1>1 DEF DropVector, Holds
  <1>3. /\ OpBecomes(w, Free) /\ worker' \in [Worker -> [seed : Seed, op : Op]]
    BY <1>2, TurnsTo, FreeOp DEF MemoryInv
  <1>4. Shapes'
    BY <1>2, <1>3 DEF MemoryInv, Shapes
  <1>5. Budget'
    BY <1>2 DEF MemoryInv, Budget
  <1>6. \A v \in Worker, j \in Id :
            /\ Holds(v, "upsert", j)' <=> v # w /\ Holds(v, "upsert", j)
            /\ Holds(v, "delete", j)' <=> v # w /\ Holds(v, "delete", j)
    BY <1>3, FreeHolds
  <1>7. k \in gone
    BY <1>2 DEF MemoryInv, OneMemory
  <1>8. OneMemory'
    <2>1. ASSUME NEW v \in Worker, NEW j \in Id, Holds(v, "upsert", j)'
          PROVE  /\ j <= used /\ j \notin Ids(acked)
                 /\ \A u \in Worker \ {v} : ~ Holds(u, "upsert", j)'
                 /\ \A r \in rows : r.id = j => /\ r.place = worker'[v].op.place
                                                /\ r.text = worker'[v].op.text
                 /\ j \in gone => j \in broken
      <3>1. v # w /\ Holds(v, "upsert", j) /\ worker'[v] = worker[v]
        BY <2>1, <1>6, <1>3 DEF OpBecomes
      <3> QED BY <3>1, <1>6 DEF MemoryInv, OneMemory
    <2> QED BY <2>1, <1>2, <1>6 DEF MemoryInv, OneMemory
  <1>9. Stores'
    <2>1. \A j \in 1 .. used :
            j \in Ids(acked) \/ j \in broken \/ \E v \in Worker : Holds(v, "upsert", j)'
      <3>1. \A j \in 1 .. used : j \in Id
        BY Carried, StoresAssumption DEF MemoryInv
      <3> QED BY <3>1, <1>2, <1>6 DEF MemoryInv, Stores
    <2>2. \A a \in acked : a.id \in gone \/ a \in vectors'
      BY <1>2, <1>7 DEF MemoryInv, Stores
    <2>3. \A v \in vectors' :
            v.id \in gone => v.id \in broken \/ \E u \in Worker : Holds(u, "delete", v.id)'
      <3>1. \A v \in vectors : v.id \in Id
        BY DEF MemoryInv, Shapes, Vector
      <3> QED BY <3>1, <1>2, <1>6 DEF MemoryInv, Stores
    <2> QED BY <2>1, <2>2, <2>3, <1>2 DEF MemoryInv, Stores
  <1>10. \A v \in Worker : RecallInv(v)'
    BY <1>2, <1>3, FreeOp, RecallStays
  <1> QED BY <1>4, <1>5, <1>8, <1>9, <1>10 DEF MemoryInv

\* However an operation ends between its calls, or with an answer: what it held is
\* written down as cut short.
LEMMA LetGo ==
    ASSUME MemoryInv, NEW w \in Worker, OpBecomes(w, Free),
           UNCHANGED <<rows, vectors, used, acked, gone>>,
           broken \subseteq broken',
           worker[w].op.at \in {"upsert", "delete"} => worker[w].op.id \in broken'
    PROVE  OneMemory' /\ Stores' /\ \A v \in Worker : RecallInv(v)'
  <1>1. \A v \in Worker, j \in Id :
            /\ Holds(v, "upsert", j)' <=> v # w /\ Holds(v, "upsert", j)
            /\ Holds(v, "delete", j)' <=> v # w /\ Holds(v, "delete", j)
    BY FreeHolds
  <1>2. \A j \in Id : Holds(w, "upsert", j) \/ Holds(w, "delete", j) => j \in broken'
    BY DEF Holds
  <1>3. OneMemory'
    <2>1. ASSUME NEW v \in Worker, NEW j \in Id, Holds(v, "upsert", j)'
          PROVE  /\ j <= used /\ j \notin Ids(acked)
                 /\ \A u \in Worker \ {v} : ~ Holds(u, "upsert", j)'
                 /\ \A r \in rows : r.id = j => /\ r.place = worker'[v].op.place
                                                /\ r.text = worker'[v].op.text
                 /\ j \in gone => j \in broken'
      <3>1. v # w /\ Holds(v, "upsert", j) /\ worker'[v] = worker[v]
        BY <2>1, <1>1 DEF OpBecomes
      <3> QED BY <3>1, <1>1 DEF MemoryInv, OneMemory
    <2> QED BY <2>1, <1>1 DEF MemoryInv, OneMemory
  <1>4. Stores'
    <2>1. \A j \in 1 .. used :
            j \in Ids(acked) \/ j \in broken' \/ \E v \in Worker : Holds(v, "upsert", j)'
      <3>1. \A j \in 1 .. used : j \in Id
        BY Carried, StoresAssumption DEF MemoryInv
      <3> QED BY <3>1, <1>1, <1>2 DEF MemoryInv, Stores
    <2>2. \A v \in vectors :
            v.id \in gone => v.id \in broken' \/ \E u \in Worker : Holds(u, "delete", v.id)'
      <3>1. \A v \in vectors : v.id \in Id
        BY DEF MemoryInv, Shapes, Vector
      <3> QED BY <3>1, <1>1, <1>2 DEF MemoryInv, Stores
    <2> QED BY <2>1, <2>2 DEF MemoryInv, Stores
  <1>5. acked \subseteq acked' /\ gone \subseteq gone'
    OBVIOUS
  <1> QED BY <1>3, <1>4, <1>5, FreeOp, RecallStays

\* recall, from the rows on.
LEMMA HydrateStep ==
    ASSUME MemoryInv, NEW w \in Worker, Hydrate(w)
    PROVE  MemoryInv'
  <1>1. /\ worker[w].op.at = "hydrate"
        /\ worker' = [worker EXCEPT ![w].op = Free]
        /\ UNCHANGED <<rows, vectors, used, boots, faults, acked, gone, broken>>
    BY DEF Hydrate
  <1>2. /\ OpBecomes(w, Free) /\ worker' \in [Worker -> [seed : Seed, op : Op]]
    BY <1>1, TurnsTo, FreeOp DEF MemoryInv
  <1>3. Shapes' /\ Budget'
    BY <1>1, <1>2 DEF MemoryInv, Shapes, Budget
  <1> QED BY <1>1, <1>2, <1>3, LetGo DEF MemoryInv

\* What is written down of an operation cut short.
LEMMA CutShortFacts ==
    ASSUME MemoryInv, NEW w \in Worker, CutShort(w)
    PROVE  /\ broken \subseteq broken' /\ broken' \subseteq Id
           /\ worker[w].op.at \in {"upsert", "delete"} => worker[w].op.id \in broken'
  <1>1. worker[w].op \in Op
    BY DEF MemoryInv, Shapes
  <1>2. worker[w].op.at \in {"upsert", "delete"} => worker[w].op.id \in Id
    BY <1>1, OpShape
  <1> QED BY <1>2 DEF CutShort, MemoryInv, Shapes

\* The room for one more trouble.
LEMMA OneMoreTrouble ==
    ASSUME MemoryInv, Troubles < MaxTroubles
    PROVE  faults + boots + 1 <= Cardinality(Worker) + MaxTroubles
  BY Seeds, StoresAssumption DEF MemoryInv, Budget, Troubles

\* A call of a store raises.
LEMMA StoreRaisesStep ==
    ASSUME MemoryInv, NEW w \in Worker, StoreRaises(w)
    PROVE  MemoryInv'
  <1>1. /\ worker' = [worker EXCEPT ![w].op = Free]
        /\ UNCHANGED <<rows, vectors, used, boots, acked, gone>>
        /\ faults' = faults + 1 /\ Troubles < MaxTroubles
        /\ CutShort(w)
    BY DEF StoreRaises
  <1>2. /\ OpBecomes(w, Free) /\ worker' \in [Worker -> [seed : Seed, op : Op]]
    BY <1>1, TurnsTo, FreeOp DEF MemoryInv
  <1>3. Shapes'
    BY <1>1, <1>2, CutShortFacts DEF MemoryInv, Shapes
  <1>4. Budget'
    BY <1>1, OneMoreTrouble, Seeds, StoresAssumption DEF MemoryInv, Budget
  <1> QED BY <1>1, <1>2, <1>3, <1>4, CutShortFacts, LetGo DEF MemoryInv

\* A worker dies and another takes its place.
LEMMA RebootStep ==
    ASSUME MemoryInv, NEW w \in Worker, Reboot(w)
    PROVE  MemoryInv'
  <1>1. /\ worker' = [worker EXCEPT ![w] = [seed |-> boots', op |-> Free]]
        /\ UNCHANGED <<rows, vectors, used, faults, acked, gone>>
        /\ boots' = boots + 1 /\ Troubles < MaxTroubles
        /\ CutShort(w)
    BY DEF Reboot
  <1>2. boots' \in Seed
    BY <1>1, OneMoreTrouble, Seeds, StoresAssumption DEF MemoryInv, Budget
  <1>3. /\ OpBecomes(w, Free) /\ worker' \in [Worker -> [seed : Seed, op : Op]]
    BY <1>1, <1>2, FreeOp DEF MemoryInv, Shapes, OpBecomes
  <1>4. Shapes'
    BY <1>1, <1>3, CutShortFacts DEF MemoryInv, Shapes
  <1>5. Budget'
    BY <1>1, OneMoreTrouble, Seeds, StoresAssumption DEF MemoryInv, Budget
  <1> QED BY <1>1, <1>3, <1>4, <1>5, CutShortFacts, LetGo DEF MemoryInv

\* As many ids as vectors: no two vectors share one.
LEMMA AsManyIds ==
    ASSUME MemoryInv, NEW H \in SUBSET vectors
    PROVE  /\ IsFiniteSet(H) /\ IsFiniteSet(Ids(H))
           /\ Cardinality(Ids(H)) = Cardinality(H)
  <1>1. H \in SUBSET acked
    BY DEF MemoryInv, Stores
  <1>2. IsFiniteSet(acked)
    BY DEF MemoryInv, Shapes
  <1>3. IsFiniteSet(H)
    BY <1>1, <1>2, FS_Subset
  <1>4. \A a, b \in H : a.id = b.id => a = b
    BY <1>1 DEF MemoryInv, OneMemory
  <1> DEFINE f == [h \in H |-> h.id]
             I == Ids(H)
  <1>5. f \in [H -> I] /\ (\A i \in I : \E h \in H : f[h] = i)
        /\ \A a, b \in H : f[a] = f[b] => a = b
    BY <1>4 DEF Ids
  <1> HIDE DEF f, I
  <1>6. ExistsBijection(H, I)
    <2>1. f \in Injection(H, I) /\ f \in Surjection(H, I)
      BY <1>5 DEF Injection, IsInjective, Surjection
    <2> QED BY <2>1 DEF ExistsBijection, Bijection
  <1>7. IsFiniteSet(I) /\ Cardinality(I) = Cardinality(H)
    BY <1>3, <1>6, FS_Bijection
  <1> QED BY <1>3, <1>7 DEF I

\* What a search that leaves out a vector of the query's direction brings back: K
\* vectors, all of that direction.
LEMMA SearchFacts ==
    ASSUME MemoryInv, NEW w \in Worker, NEW p \in Place, NEW t \in Text, NEW H \in TopK(w, p, t),
           NEW a \in Matching(p), Close(w, a, t), a \notin H
    PROVE  /\ H \in SUBSET vectors
           /\ Cardinality(H) = K
           /\ \A h \in H : Close(w, h, t)
  <1> DEFINE M == Matching(p)
  <1>1. /\ H \in SUBSET M /\ a \in M
        /\ Cardinality(H) = IF Cardinality(M) < K THEN Cardinality(M) ELSE K
        /\ \A h \in H : Close(w, h, t)
    BY DEF TopK
  <1>2. M \in SUBSET vectors
    BY DEF Matching
  <1> HIDE DEF M
  <1>3. IsFiniteSet(M)
    BY <1>2, AsManyIds
  <1>4. Cardinality(H) # Cardinality(M)
    BY <1>1, <1>3, FS_Subset
  <1> QED BY <1>1, <1>2, <1>4

\* recall, up to the search.
LEMMA SearchStep ==
    ASSUME MemoryInv, NEW w \in Worker, NEW p \in Place, NEW t \in Text, Search(w, p, t)
    PROVE  MemoryInv'
  <1> DEFINE A == {a \in acked : a.place = p /\ Close(w, a, t)}
             D == Ids(A) \ gone
  <1>1. PICK H \in TopK(w, p, t) :
          worker' = [worker EXCEPT ![w].op =
            [at |-> "hydrate", place |-> p, hits |-> Ids(H), old |-> gone,
             close |-> Ids({h \in H : Close(w, h, t)}), due |-> D]]
    BY DEF Search
  <1> DEFINE I == Ids(H)
             N == {h \in H : Close(w, h, t)}
             C == Ids(N)
             o == [at |-> "hydrate", place |-> p, hits |-> I, old |-> gone,
                   close |-> C, due |-> D]
  <1>2. /\ worker[w].op.at = "idle"
        /\ UNCHANGED <<rows, vectors, used, boots, faults, acked, gone, broken>>
    BY DEF Search, Free
  <1>3. /\ H \in SUBSET vectors
        /\ \A h \in H : h \in acked /\ h.place = p /\ h.id \in Id
        /\ vectors \subseteq acked /\ acked \subseteq Vector
        /\ \A a \in acked : a.id \in gone \/ a \in vectors
    BY DEF TopK, Matching, MemoryInv, Stores, Shapes, Vector
  <1>4. \A i : i \in I <=> \E h \in H : h.id = i
    BY DEF Ids
  <1>5. /\ I \subseteq Id /\ gone \subseteq Id /\ C \subseteq Id /\ D \subseteq Id
    <2>1. C \subseteq Id
      BY <1>3 DEF Ids
    <2>2. D \subseteq Id
      BY Carried DEF MemoryInv, Ids
    <2> QED BY <1>3, <1>4, <2>1, <2>2 DEF MemoryInv, Shapes
  <1>6. \A i \in D : \E a \in A : a.id = i /\ i \notin gone
    BY DEF Ids
  <1> HIDE DEF I, C, D
  <1>7. /\ o \in Op /\ o.at = "hydrate" /\ o.place = p /\ o.hits = I
        /\ o.old = gone /\ o.close = C /\ o.due = D
    BY <1>5 DEF Op
  <1>8. worker' = [worker EXCEPT ![w].op = o]
    BY <1>1 DEF I, C, D
  <1> HIDE DEF o
  <1>9. /\ OpBecomes(w, o) /\ worker' \in [Worker -> [seed : Seed, op : Op]]
        /\ worker'[w].seed = worker[w].seed
    BY <1>7, <1>8, TurnsTo DEF MemoryInv
  <1>10. Shapes' /\ Budget'
    BY <1>2, <1>9 DEF MemoryInv, Shapes, Budget
  <1>11. \A v \in Worker, j \in Id :
            /\ Holds(v, "upsert", j)' <=> Holds(v, "upsert", j)
            /\ Holds(v, "delete", j)' <=> Holds(v, "delete", j)
    <2>1. \A j \in Id : /\ ~ Holds(w, "upsert", j) /\ ~ Holds(w, "upsert", j)'
                       /\ ~ Holds(w, "delete", j) /\ ~ Holds(w, "delete", j)'
      BY <1>2, <1>7, <1>9 DEF Holds, OpBecomes
    <2>2. \A v \in Worker, j \in Id : v # w =>
            /\ Holds(v, "upsert", j)' <=> Holds(v, "upsert", j)
            /\ Holds(v, "delete", j)' <=> Holds(v, "delete", j)
      BY <1>9, OthersHold
    <2> QED BY <2>1, <2>2
  <1>12. OneMemory'
    <2>1. ASSUME NEW v \in Worker, NEW j \in Id, Holds(v, "upsert", j)'
          PROVE  /\ j <= used /\ j \notin Ids(acked)
                 /\ \A u \in Worker \ {v} : ~ Holds(u, "upsert", j)'
                 /\ \A r \in rows : r.id = j => /\ r.place = worker'[v].op.place
                                                /\ r.text = worker'[v].op.text
                 /\ j \in gone => j \in broken
      <3>1. v # w /\ Holds(v, "upsert", j) /\ worker'[v] = worker[v]
        BY <2>1, <1>2, <1>9, <1>11 DEF OpBecomes, Holds
      <3> QED BY <3>1, <1>11 DEF MemoryInv, OneMemory
    <2> QED BY <2>1, <1>2, <1>11 DEF MemoryInv, OneMemory
  <1>13. Stores'
    <2>1. \A j \in 1 .. used :
            j \in Ids(acked) \/ j \in broken \/ \E v \in Worker : Holds(v, "upsert", j)'
      <3>1. \A j \in 1 .. used : j \in Id
        BY Carried, StoresAssumption DEF MemoryInv
      <3> QED BY <3>1, <1>11 DEF MemoryInv, Stores
    <2>2. \A v \in vectors :
            v.id \in gone => v.id \in broken \/ \E u \in Worker : Holds(u, "delete", v.id)'
      <3>1. \A v \in vectors : v.id \in Id
        BY DEF MemoryInv, Shapes, Vector
      <3> QED BY <3>1, <1>11 DEF MemoryInv, Stores
    <2> QED BY <2>1, <2>2, <1>2 DEF MemoryInv, Stores
  <1>14. ASSUME NEW i \in D, i \notin I
         PROVE  Cardinality(C) = K
    <2>1. PICK a \in A : a.id = i /\ i \notin gone
      BY <1>6
    <2>2. a \in Matching(p) /\ Close(w, a, t) /\ a \notin H
      BY <2>1, <1>3, <1>4, <1>14 DEF Matching
    <2>3. Cardinality(H) = K /\ \A h \in H : Close(w, h, t)
      BY <2>2, SearchFacts
    <2>4. N = H
      BY <2>3
    <2>5. Cardinality(Ids(H)) = Cardinality(H)
      BY <1>3, AsManyIds
    <2> HIDE DEF N
    <2> QED BY <2>3, <2>4, <2>5 DEF C
  <1>15. RecallInv(w)'
    <2>1. /\ gone \subseteq gone'
          /\ \A i \in I : \E a \in acked' : a.id = i /\ a.place = p
      BY <1>2, <1>3, <1>4
    <2>2. \A i \in D : \E a \in acked' : a.id = i
      BY <1>2, <1>6
    <2>3. \A i \in D : i \in I \/ Cardinality(C) = K
      BY <1>14
    <2> QED BY <2>1, <2>2, <2>3, <1>7, <1>9 DEF RecallInv, OpBecomes
  <1>16. ASSUME NEW v \in Worker, v # w PROVE RecallInv(v)'
    BY <1>16, <1>2, <1>9 DEF MemoryInv, RecallInv, OpBecomes
  <1> QED BY <1>10, <1>12, <1>13, <1>15, <1>16 DEF MemoryInv
-----------------------------------------------------------------------------
LEMMA MemoryInvInit == MemoryInit => MemoryInv
  <1> SUFFICES ASSUME MemoryInit PROVE MemoryInv
    OBVIOUS
  <1>1. /\ rows = {} /\ vectors = {} /\ acked = {} /\ gone = {} /\ broken = {}
        /\ used = 0 /\ boots = Cardinality(Worker) /\ faults = 0
    BY DEF MemoryInit
  <1>2. PICK seeds \in [Worker -> 1 .. Cardinality(Worker)] :
          worker = [w \in Worker |-> [seed |-> seeds[w], op |-> Free]]
    BY DEF MemoryInit
  <1>3. \A w \in Worker : worker[w].op = Free /\ worker[w].seed \in Seed
    BY <1>2, Seeds, StoresAssumption
  <1>4. worker \in [Worker -> [seed : Seed, op : Op]]
    BY <1>2, <1>3, FreeOp
  <1>5. Shapes
    BY <1>1, <1>4, FS_EmptySet, StoresAssumption DEF Shapes
  <1>6. Budget
    BY <1>1, Seeds, StoresAssumption DEF Budget
  <1>7. \A w \in Worker, i \in Id : ~ Holds(w, "upsert", i) /\ ~ Holds(w, "delete", i)
    BY <1>3 DEF Holds, Free
  <1>8. Ids(rows) = {} /\ Ids(acked) = {}
    BY <1>1 DEF Ids
  <1>9. OneMemory
    BY <1>1, <1>7, <1>8 DEF OneMemory
  <1>10. Stores
    BY <1>1, <1>7, <1>8 DEF Stores
  <1>11. \A w \in Worker : RecallInv(w)
    BY <1>3 DEF RecallInv, Free
  <1> QED BY <1>5, <1>6, <1>9, <1>10, <1>11 DEF MemoryInv

LEMMA MemoryInvStep == MemoryInv /\ [MemoryNext]_memoryVars => MemoryInv'
  <1> SUFFICES ASSUME MemoryInv, [MemoryNext]_memoryVars PROVE MemoryInv'
    OBVIOUS
  <1>1. CASE UNCHANGED memoryVars
    BY <1>1 DEF memoryVars, MemoryInv, Shapes, Budget, OneMemory, Stores, RecallInv, Holds, Ids
  <1>2. ASSUME NEW w \in Worker, NEW p \in Place, NEW t \in Text,
               Remember(w, p, t) \/ Search(w, p, t)
        PROVE  MemoryInv'
    BY <1>2, RememberStep, SearchStep
  <1>3. ASSUME NEW w \in Worker, NEW i \in Id, Forget(w, i) PROVE MemoryInv'
    BY <1>3, ForgetStep
  <1>4. ASSUME NEW w \in Worker,
               Upsert(w) \/ DropVector(w) \/ Hydrate(w) \/ StoreRaises(w) \/ Reboot(w)
        PROVE  MemoryInv'
    BY <1>4, UpsertStep, DropVectorStep, HydrateStep, StoreRaisesStep, RebootStep
  <1> QED BY <1>1, <1>2, <1>3, <1>4 DEF MemoryNext

LEMMA MemoryInvariance == MemorySpec => []MemoryInv
  BY MemoryInvInit, MemoryInvStep, PTL DEF MemorySpec

-----------------------------------------------------------------------------
\* A recall, whenever it reads its rows, answers from its own place and with nothing
\* forgotten before it began, and finds each memory that is due, unless it was forgotten
\* or crowded out.
LEMMA RecallIsSound == MemoryInv => RecallSound
  <1> SUFFICES ASSUME MemoryInv, NEW w \in At("hydrate") PROVE
        LET op == worker[w].op
        IN /\ \A r \in Answer(w) : r.place = op.place /\ r.id \notin op.old
           /\ \A i \in op.due : \/ i \in Ids(Answer(w)) \cup gone
                                \/ Cardinality(op.close) = K
    BY DEF RecallSound
  <1> DEFINE op == worker[w].op
             hits == op.hits
             due == op.due
             place == op.place
  <1>1. /\ op.old \subseteq gone
        /\ \A i \in hits : \E a \in acked : a.id = i /\ a.place = place
        /\ \A i \in due : \E a \in acked : a.id = i
        /\ \A i \in due : i \in hits \/ Cardinality(op.close) = K
    BY DEF At, MemoryInv, RecallInv
  <1>2. \A r : r \in Answer(w) <=> r \in rows /\ r.id \in hits
    BY DEF Answer
  <1> HIDE DEF op, hits, due, place
  <1>3. \A r \in Answer(w) : r.place = place /\ r.id \notin op.old
    BY <1>1, <1>2 DEF MemoryInv, OneMemory, Stores
  <1>4. ASSUME NEW i \in due, i \in hits, i \notin gone
        PROVE  i \in Ids(Answer(w))
    <2>1. i \in 1 .. used
      BY <1>1, <1>4, Carried, StoresAssumption DEF MemoryInv, OneMemory
    <2>2. i \in Ids(rows)
      BY <2>1, <1>4 DEF MemoryInv, Stores
    <2>3. PICK r \in rows : r.id = i
      BY <2>2, Carried DEF MemoryInv
    <2> QED BY <2>3, <1>2, <1>4 DEF Ids
  <1>5. \A i \in due : i \in Ids(Answer(w)) \cup gone \/ Cardinality(op.close) = K
    BY <1>1, <1>4
  <1> QED BY <1>3, <1>5 DEF hits, due, place, op

\* The stores differ only where an operation is under way, was cut short or overtaken.
LEMMA StoresDoAgree == MemoryInv => StoresAgree
  <1> SUFFICES ASSUME MemoryInv PROVE StoresAgree
    OBVIOUS
  <1>1. ASSUME NEW i \in Id
        PROVE  /\ (\E w \in Worker : Holds(w, "upsert", i)) => i \in InHand("upsert")
               /\ (\E w \in Worker : Holds(w, "delete", i)) => i \in InHand("delete")
    BY DEF Holds, InHand, At
  <1>2. ASSUME NEW i \in Ids(rows) \ Ids(vectors)
        PROVE  i \in InHand("upsert") \/ i \in broken
    <2>1. i \in 1 .. used /\ i \in Id /\ i \notin gone
      BY <1>2, Carried, StoresAssumption DEF MemoryInv, OneMemory, Stores
    <2>2. i \notin Ids(acked)
      <3>1. \A a \in acked : a \in vectors => a.id \in Ids(vectors)
        BY DEF Ids
      <3> QED BY <3>1, <2>1, <1>2, Carried DEF MemoryInv, Stores
    <2> QED BY <2>1, <2>2, <1>1 DEF MemoryInv, Stores
  <1>3. ASSUME NEW i \in Ids(vectors) \ Ids(rows)
        PROVE  i \in gone /\ (i \in InHand("delete") \/ i \in broken)
    <2>1. PICK v \in vectors : v.id = i
      BY <1>3 DEF Ids
    <2>2. v \in acked /\ i \in Ids(acked) /\ i \in Id
      BY <2>1, Carried DEF MemoryInv, Stores
    <2>3. i \in 1 .. used
      BY <2>2, Carried, StoresAssumption DEF MemoryInv, OneMemory
    <2>4. i \in gone
      BY <2>3, <1>3 DEF MemoryInv, Stores
    <2> QED BY <2>1, <2>2, <2>4, <1>1 DEF MemoryInv, Stores
  <1> QED BY <1>2, <1>3 DEF StoresAgree

\* The state of the stores, the workers and the bounds is of its type, whatever raises
\* and whoever dies.
THEOREM MemoryTypeCorrect == MemorySpec => []MemoryTypeOK
  <1>1. MemoryInv => MemoryTypeOK
    <2> SUFFICES ASSUME MemoryInv PROVE MemoryTypeOK
      OBVIOUS
    <2>1. /\ rows \subseteq Row /\ vectors \subseteq Vector /\ acked \subseteq Vector
          /\ used \in 0 .. MaxIds /\ gone \subseteq Id /\ broken \subseteq Id
          /\ \A w \in Worker : worker[w].seed \in Seed /\ worker[w].op \in Op
      BY DEF MemoryInv, Shapes
    <2>2. boots \in Seed /\ faults \in 0 .. MaxTroubles
      BY Seeds, StoresAssumption DEF MemoryInv, Budget
    <2> QED BY <2>1, <2>2, OpShape DEF MemoryTypeOK
  <1> QED BY <1>1, MemoryInvariance, PTL

\* The memory is sound (MemoryManager.remember, recall and forget over their two
\* stores): across processes, failures between the stores and crashes, a recall answers
\* with rows of its own scope and owner, none forgotten before it began, and with every
\* acknowledged memory whose vector has the query's direction, unless it was forgotten or
\* K hits have that direction too; and the stores differ only where an operation is under
\* way, was cut short or was overtaken.  Which texts share a direction, in which process,
\* is a parameter.
THEOREM MemorySoundHolds == MemorySpec => []MemorySound
  <1>1. MemoryInv => MemorySound
    BY RecallIsSound, StoresDoAgree DEF MemorySound
  <1> QED BY <1>1, MemoryInvariance, PTL

-----------------------------------------------------------------------------
(* Skills: what the texts may bear.                                        *)

Uploaded == {h \in Content : h.headed} \cup {Shipped}
SkillName == SkillNames \cup {Unnamed} \cup UNION {c.title : c \in Uploaded}
About == {n.words : n \in SkillNames} \cup {c.about : c \in Uploaded} \cup {{}}

SkillText == [title : SUBSET SkillName, about : About, whole : BOOLEAN]
Skill == [name : SkillName, about : About, whole : BOOLEAN]

LEMMA WordsFinite ==
    /\ \A n \in SkillName : IsFiniteSet(n.words)
    /\ \A a \in About : IsFiniteSet(a)
  <1>1. \A c \in Uploaded : IsFiniteSet(c.about) /\ \A n \in c.title : IsFiniteSet(n.words)
    BY SkillsAssumption DEF Uploaded
  <1>2. IsFiniteSet({}) /\ IsFiniteSet(Unnamed.words)
    BY FS_EmptySet, FS_Singleton DEF Unnamed
  <1>3. \A n \in SkillNames : IsFiniteSet(n.words)
    BY SkillsAssumption
  <1>4. ASSUME NEW n \in SkillName PROVE IsFiniteSet(n.words)
    BY <1>1, <1>2, <1>3, <1>4 DEF SkillName
  <1>5. ASSUME NEW a \in About PROVE IsFiniteSet(a)
    BY <1>1, <1>2, <1>3, <1>5 DEF About
  <1> QED BY <1>4, <1>5

LEMMA TextsAreTexts ==
    /\ EmptyText \in SkillText /\ Shipped \in SkillText
    /\ \A n \in SkillNames, c \in Content :
          Header(n, c) \in SkillText /\ Header(n, c).whole = TRUE
  <1>1. EmptyText \in SkillText
    BY DEF EmptyText, SkillText, About
  <1>2. Shipped \in SkillText
    <2>1. Shipped \in Uploaded
      BY DEF Uploaded
    <2>2. Shipped.title \subseteq SkillName /\ Shipped.about \in About
      BY <2>1 DEF SkillName, About
    <2>3. Shipped = [title |-> Shipped.title, about |-> Shipped.about, whole |-> TRUE]
      BY SkillsAssumption
    <2>4. [title |-> Shipped.title, about |-> Shipped.about, whole |-> TRUE] \in SkillText
      BY <2>2 DEF SkillText
    <2> QED BY <2>3, <2>4
  <1>3. ASSUME NEW n \in SkillNames, NEW c \in Content
        PROVE  Header(n, c) \in SkillText /\ Header(n, c).whole = TRUE
    <2>1. CASE c.headed
      <3>1. c \in Uploaded
        BY <2>1 DEF Uploaded
      <3>2. c.title \subseteq SkillName /\ c.about \in About
        BY <3>1 DEF SkillName, About
      <3> QED BY <2>1, <3>2 DEF Header, SkillText
    <2>2. CASE ~ c.headed
      <3>1. {n} \subseteq SkillName /\ n.words \in About
        BY DEF SkillName, About
      <3> QED BY <2>2, <3>1 DEF Header, SkillText
    <2> QED BY <2>1, <2>2
  <1> QED BY <1>1, <1>2, <1>3

LEMMA ParseGivesSkill == \A t \in SkillText : Parse(t) \in Skill
  <1> SUFFICES ASSUME NEW t \in SkillText PROVE Parse(t) \in Skill
    OBVIOUS
  <1>1. t.title \subseteq SkillName /\ t.about \in About /\ t.whole \in BOOLEAN
    BY DEF SkillText
  <1>2. Unnamed \in SkillName
    BY DEF SkillName
  <1>3. (IF t.title = {} THEN Unnamed ELSE CHOOSE n \in t.title : TRUE) \in SkillName
    BY <1>1, <1>2
  <1> QED BY <1>1, <1>3 DEF Parse, Skill

-----------------------------------------------------------------------------
(* Skills: the match.                                                      *)

LEMMA SmallestOf ==
    ASSUME NEW T \in SUBSET Nat, T # {}
    PROVE  \E n \in T : \A m \in T : n <= m
  <1>1. PICK n \in T : \A m \in T : ~ (<<m, n>> \in OpToRel(<, Nat))
    BY NatLessThanWellFounded, WFMin
  <1>2. \A m \in T : ~ (m < n)
    BY <1>1 DEF OpToRel
  <1> QED BY <1>2

\* The walk of match over skills of these scores.
Walk(b, L, score) ==
    b = [n \in 0 .. L |->
           IF n = 0 THEN [at |-> 0, score |-> 0]
           ELSE IF score[n] > b[n - 1].score THEN [at |-> n, score |-> score[n]]
           ELSE b[n - 1]]

\* The first of the best.
FirstBest(best, L, score) ==
    /\ best.at \in 0 .. L /\ best.score \in Nat
    /\ \A i \in 1 .. L : score[i] <= best.score
    /\ best.at = 0 => best.score = 0
    /\ best.at # 0 => /\ best.score = score[best.at]
                      /\ \A i \in 1 .. best.at - 1 : score[i] < best.score

LEMMA WalkExists ==
    ASSUME NEW L \in Nat, NEW score
    PROVE  \E b : Walk(b, L, score)
  <1> DEFINE T == {m \in Nat : ~ \E b : Walk(b, m, score)}
  <1> SUFFICES ASSUME T # {} PROVE FALSE
    OBVIOUS
  <1>1. PICK m \in T : \A i \in T : m <= i
    BY SmallestOf
  <1>2. CASE m = 0
    <2> DEFINE b == [n \in 0 .. 0 |-> [at |-> 0, score |-> 0]]
    <2>1. Walk(b, 0, score)
      BY DEF Walk
    <2> QED BY <1>2, <2>1
  <1>3. CASE m # 0
    <2>1. m - 1 \in Nat /\ m - 1 \notin T
      BY <1>1, <1>3
    <2>2. PICK b : Walk(b, m - 1, score)
      BY <2>1
    <2> DEFINE last == IF score[m] > b[m - 1].score THEN [at |-> m, score |-> score[m]]
                       ELSE b[m - 1]
               c == [n \in 0 .. m |-> IF n = m THEN last ELSE b[n]]
               e == [n \in 0 .. m |->
                       IF n = 0 THEN [at |-> 0, score |-> 0]
                       ELSE IF score[n] > c[n - 1].score THEN [at |-> n, score |-> score[n]]
                       ELSE c[n - 1]]
    <2>3. ASSUME NEW n \in 0 .. m PROVE c[n] = e[n]
      <3>1. CASE n = m
        <4>1. m - 1 \in 0 .. m /\ m - 1 # m /\ c[m - 1] = b[m - 1]
          BY <1>3
        <4> QED BY <1>3, <3>1, <4>1
      <3>2. CASE n # m
        <4>1. n \in 0 .. m - 1
          BY <3>2
        <4>2. n # 0 => n - 1 \in 0 .. m /\ n - 1 # m
          BY <4>1
        <4>3. b[n] = IF n = 0 THEN [at |-> 0, score |-> 0]
                     ELSE IF score[n] > b[n - 1].score THEN [at |-> n, score |-> score[n]]
                     ELSE b[n - 1]
          BY <2>2, <4>1 DEF Walk
        <4> QED BY <3>2, <4>2, <4>3
      <3> QED BY <3>1, <3>2
    <2>4. c = e
      <3> HIDE DEF last
      <3>1. \A n \in 0 .. m : c[n] = e[n]
        BY <2>3
      <3>2. e = [n \in 0 .. m |-> e[n]] /\ c = [n \in 0 .. m |-> c[n]]
        OBVIOUS
      <3> HIDE DEF c, e
      <3> QED BY <3>1, <3>2
    <2>5. Walk(c, m, score)
      BY <2>4 DEF Walk
    <2> QED BY <2>5
  <1> QED BY <1>2, <1>3

LEMMA WalkFindsBest ==
    ASSUME NEW L \in Nat, NEW score \in [1 .. L -> Nat], NEW b, Walk(b, L, score)
    PROVE  FirstBest(b[L], L, score)
  <1> DEFINE T == {m \in 0 .. L : ~ FirstBest(b[m], m, score)}
  <1>1. \A n \in 0 .. L :
          b[n] = IF n = 0 THEN [at |-> 0, score |-> 0]
                 ELSE IF score[n] > b[n - 1].score THEN [at |-> n, score |-> score[n]]
                 ELSE b[n - 1]
    BY DEF Walk
  <1>2. ASSUME T # {} PROVE FALSE
    <2>1. T \in SUBSET Nat
      OBVIOUS
    <2>2. PICK m \in T : \A i \in T : m <= i
      BY <1>2, <2>1, SmallestOf
    <2>3. CASE m = 0
      <3>0. 0 \in 0 .. L
        OBVIOUS
      <3>1. b[0] = [at |-> 0, score |-> 0]
        BY <1>1, <3>0, Zenon
      <3>2. FirstBest(b[0], 0, score)
        BY <3>1 DEF FirstBest
      <3> QED BY <2>3, <3>2
    <2>4. CASE m # 0
      <3>1. m \in 1 .. L /\ m - 1 \in 0 .. L /\ m - 1 \notin T /\ score[m] \in Nat
        BY <2>2, <2>4
      <3>2. FirstBest(b[m - 1], m - 1, score)
        BY <3>1
      <3>3. \A i \in 1 .. m - 1 : score[i] \in Nat
        BY <3>1
      <3>4. \A i \in 1 .. m : i = m \/ i \in 1 .. m - 1
        BY <3>1
      <3>5. CASE score[m] > b[m - 1].score
        <4>1. b[m] = [at |-> m, score |-> score[m]]
          BY <1>1, <2>4, <3>5
        <4>2. \A i \in 1 .. m - 1 : score[i] < score[m]
          BY <3>1, <3>2, <3>3, <3>5 DEF FirstBest
        <4>3. FirstBest(b[m], m, score)
          BY <3>1, <3>4, <4>1, <4>2, <3>3 DEF FirstBest
        <4> QED BY <4>3
      <3>6. CASE ~ (score[m] > b[m - 1].score)
        <4>1. b[m] = b[m - 1]
          BY <1>1, <2>4, <3>6
        <4>2. score[m] <= b[m - 1].score
          BY <3>1, <3>2, <3>6 DEF FirstBest
        <4>3. FirstBest(b[m], m, score)
          BY <3>1, <3>2, <3>4, <4>1, <4>2 DEF FirstBest
        <4> QED BY <4>3
      <3> QED BY <3>5, <3>6
    <2> QED BY <2>3, <2>4
  <1>3. L \in 0 .. L
    OBVIOUS
  <1> QED BY <1>2, <1>3

LEMMA ScoreType == \A s \in Skill : \A q : Score(s, q) \in Nat
  <1> SUFFICES ASSUME NEW s \in Skill, NEW q PROVE Score(s, q) \in Nat
    OBVIOUS
  <1> DEFINE own == s.name.words \cup s.about
  <1>1. IsFiniteSet(own)
    <2>1. IsFiniteSet(s.name.words) /\ IsFiniteSet(s.about)
      BY WordsFinite DEF Skill
    <2> QED BY <2>1, FS_Union
  <1>2. IsFiniteSet(AllWords(q) \cap own)
    <2> HIDE DEF own
    <2>1. AllWords(q) \cap own \subseteq own
      OBVIOUS
    <2> QED BY <1>1, <2>1, FS_Subset
  <1>3. Cardinality(AllWords(q) \cap own) \in Nat
    BY <1>2, FS_CardinalityType
  <1> QED BY <1>3 DEF Score

\* match gives the first of the best skills, or 0 if none is good enough.
LEMMA MatchFacts ==
    ASSUME NEW list \in Seq(Skill), NEW q
    PROVE  LET m == Match(list, q)
           IN IF m = 0 THEN \A n \in DOMAIN list : Score(list[n], q) < MinScore
              ELSE /\ m \in DOMAIN list /\ Score(list[m], q) >= MinScore
                   /\ \A n \in DOMAIN list : /\ Score(list[n], q) <= Score(list[m], q)
                                             /\ n < m => Score(list[n], q) < Score(list[m], q)
  <1> DEFINE L == Len(list)
             score == [n \in 1 .. L |-> Score(list[n], q)]
             e(b) == [n \in 0 .. Len(list) |->
                        IF n = 0 THEN [at |-> 0, score |-> 0]
                        ELSE IF Score(list[n], q) > b[n - 1].score
                             THEN [at |-> n, score |-> Score(list[n], q)] ELSE b[n - 1]]
             best == CHOOSE b : b = e(b)
  <1>1. L \in Nat /\ DOMAIN list = 1 .. L /\ \A n \in 1 .. L : list[n] \in Skill
    OBVIOUS
  <1>2. score \in [1 .. L -> Nat]
    BY <1>1, ScoreType
  <1>3. \A b : b = e(b) <=> Walk(b, L, score)
    <2> SUFFICES ASSUME NEW b PROVE e(b) =
           [n \in 0 .. L |->
              IF n = 0 THEN [at |-> 0, score |-> 0]
              ELSE IF score[n] > b[n - 1].score THEN [at |-> n, score |-> score[n]]
              ELSE b[n - 1]]
      BY DEF Walk
    <2>1. \A n \in 0 .. L : n # 0 => n \in 1 .. L /\ score[n] = Score(list[n], q)
      BY <1>1
    <2> HIDE DEF score
    <2> QED BY <2>1
  <1>4. Walk(best, L, score)
    <2>1. \E b : b = e(b)
      BY <1>1, <1>3, WalkExists
    <2>2. best = e(best)
      <3> HIDE DEF e
      <3> QED BY <2>1
    <2> HIDE DEF best, e, score
    <2> QED BY <1>3, <2>2
  <1>5. Match(list, q) = IF best[Len(list)].score >= MinScore THEN best[Len(list)].at ELSE 0
    BY DEF Match
  <1> HIDE DEF best, e
  <1>6. FirstBest(best[L], L, score)
    BY <1>1, <1>2, <1>4, WalkFindsBest
  <1>7. \A n \in 1 .. L : score[n] = Score(list[n], q) /\ score[n] \in Nat
    BY <1>1, <1>2
  <1> HIDE DEF score
  <1> QED BY <1>1, <1>5, <1>6, <1>7 DEF FirstBest, MinScore

-----------------------------------------------------------------------------
(* Skills: the listing of the folders.                                     *)

Increasing(l) == \A m, n \in DOMAIN l : m < n => l[m] < l[n]

LEMMA FoldersFinite ==
    ASSUME NEW D \in SUBSET Folder
    PROVE  /\ D \subseteq Nat /\ IsFiniteSet(D) /\ Cardinality(D) \in Nat
           /\ Cardinality(D) <= Cardinality(Folder) /\ Cardinality(Folder) \in Nat
  <1>1. IsFiniteSet(Folder) /\ Folder = 1 .. Cardinality(Folder)
    BY SkillsAssumption
  <1>2. Cardinality(Folder) \in Nat
    BY <1>1, FS_CardinalityType
  <1>3. IsFiniteSet(D) /\ Cardinality(D) <= Cardinality(Folder)
    BY <1>1, FS_Subset
  <1>4. D \subseteq Nat
    BY <1>1, <1>2
  <1> QED BY <1>2, <1>3, <1>4, FS_CardinalityType

LEMMA InOrderExists ==
    ASSUME NEW D \in SUBSET Folder
    PROVE  \E l \in [1 .. Cardinality(D) -> D] : Increasing(l)
  <1> DEFINE Up(n) == {d \in D : d <= n}
             Sorts(n) == \E l \in [1 .. Cardinality(Up(n)) -> Up(n)] : Increasing(l)
             T == {n \in Nat : ~ Sorts(n)}
  <1>1. D \subseteq Nat /\ \A n \in Nat : Up(n) \in SUBSET Folder
    BY FoldersFinite
  <1>2. ASSUME T # {} PROVE FALSE
    <2>1. PICK n \in T : \A m \in T : n <= m
      BY <1>2, SmallestOf
    <2>2. CASE n = 0
      <3>1. Up(0) = {}
        <4> SUFFICES ASSUME NEW d \in D, d <= 0 PROVE FALSE
          OBVIOUS
        <4>1. d \in 1 .. Cardinality(Folder) /\ Cardinality(Folder) \in Nat
          BY SkillsAssumption, FoldersFinite
        <4> QED BY <4>1
      <3> DEFINE l == [i \in 1 .. 0 |-> 0]
      <3>2. Cardinality(Up(0)) = 0
        BY <3>1, FS_EmptySet
      <3>3. l \in [1 .. 0 -> {}] /\ Increasing(l)
        BY DEF Increasing
      <3>4. Sorts(0)
        BY <3>1, <3>2, <3>3
      <3> QED BY <2>2, <3>4
    <2>3. CASE n # 0
      <3>1. n - 1 \in Nat /\ n - 1 \notin T
        <4> HIDE DEF Sorts
        <4>1. n \in Nat /\ n - 1 \in Nat /\ n - 1 < n
          BY <2>1, <2>3
        <4> QED BY <2>1, <4>1
      <3> DEFINE E == Up(n - 1)
                 C == Cardinality(E)
      <3>2. PICK l \in [1 .. C -> E] : Increasing(l)
        BY <3>1
      <3>3. C \in Nat /\ IsFiniteSet(E) /\ n \notin E /\ E \subseteq Nat
        <4>1. E \in SUBSET Folder
          BY <1>1, <3>1
        <4>2. n \in Nat /\ ~ (n <= n - 1)
          BY <2>1
        <4> QED BY <4>1, <4>2, FoldersFinite
      <3>4. CASE n \in D
        <4>1. Up(n) = E \cup {n}
          <5>1. \A d \in D : d <= n <=> d <= n - 1 \/ d = n
            BY <1>1
          <5> QED BY <3>4, <5>1
        <4>2. Cardinality(Up(n)) = C + 1
          BY <3>3, <4>1, FS_AddElement
        <4> DEFINE k == [i \in 1 .. C + 1 |-> IF i = C + 1 THEN n ELSE l[i]]
        <4>3. k \in [1 .. C + 1 -> E \cup {n}]
          <5>1. \A i \in 1 .. C + 1 : i # C + 1 => i \in 1 .. C
            BY <3>3
          <5> HIDE DEF E, C
          <5>2. \A i \in 1 .. C : l[i] \in E
            OBVIOUS
          <5> QED BY <5>1, <5>2
        <4>4. \A i \in 1 .. C : l[i] < n
          <5> SUFFICES ASSUME NEW i \in 1 .. C PROVE l[i] < n
            OBVIOUS
          <5>1. l[i] \in E
            OBVIOUS
          <5>2. l[i] \in Nat /\ l[i] <= n - 1 /\ n \in Nat
            BY <1>1, <2>1, <5>1
          <5> QED BY <5>2
        <4>5. Increasing(k)
          <5> SUFFICES ASSUME NEW i \in 1 .. C + 1, NEW j \in 1 .. C + 1, i < j
                       PROVE  k[i] < k[j]
            BY DEF Increasing
          <5>1. i \in 1 .. C /\ i # C + 1
            BY <3>3
          <5>2. CASE j = C + 1
            BY <4>4, <5>1, <5>2
          <5>3. CASE j # C + 1
            <6>1. j \in 1 .. C
              BY <3>3, <5>3
            <6>2. l[i] < l[j]
              BY <3>2, <5>1, <6>1 DEF Increasing
            <6> QED BY <5>1, <5>3, <6>2
          <5> QED BY <5>2, <5>3
        <4> HIDE DEF k
        <4>6. Sorts(n)
          BY <4>1, <4>2, <4>3, <4>5
        <4> QED BY <2>1, <4>6
      <3>5. CASE n \notin D
        <4>1. Up(n) = E
          <5>1. \A d \in D : d # n /\ (d <= n <=> d <= n - 1)
            BY <1>1, <3>5
          <5> QED BY <5>1
        <4>2. Sorts(n)
          BY <3>2, <4>1
        <4> QED BY <2>1, <4>2
      <3> QED BY <3>4, <3>5
    <2> QED BY <2>2, <2>3
  <1>3. Cardinality(Folder) \in Nat /\ Up(Cardinality(Folder)) = D
    <2>1. Folder = 1 .. Cardinality(Folder) /\ Cardinality(Folder) \in Nat
      BY SkillsAssumption, FoldersFinite
    <2>2. \A d \in D : d <= Cardinality(Folder)
      BY <2>1
    <2> QED BY <2>1, <2>2
  <1>4. Sorts(Cardinality(Folder))
    BY <1>2, <1>3
  <1> QED BY <1>3, <1>4

LEMMA InOrderFacts ==
    ASSUME NEW D \in SUBSET Folder
    PROVE  /\ InOrder(D) \in [1 .. Cardinality(D) -> D]
           /\ Increasing(InOrder(D))
           /\ \A d \in D : \E n \in 1 .. Cardinality(D) : InOrder(D)[n] = d
  <1> DEFINE l == InOrder(D)
             C == Cardinality(D)
  <1>1. l \in [1 .. C -> D] /\ Increasing(l)
    <2>1. l = CHOOSE k \in [1 .. C -> D] : Increasing(k)
      BY DEF InOrder, Increasing
    <2> HIDE DEF l
    <2> QED BY <2>1, InOrderExists
  <1>2. C \in Nat /\ IsFiniteSet(D) /\ D \subseteq Nat
    BY FoldersFinite
  <1>3. \A m, n \in 1 .. C : l[m] = l[n] => m = n
    <2> SUFFICES ASSUME NEW m \in 1 .. C, NEW n \in 1 .. C, l[m] = l[n], m # n PROVE FALSE
      OBVIOUS
    <2>1. l[m] \in Nat /\ l[n] \in Nat
      BY <1>1, <1>2
    <2>2. m < n \/ n < m
      BY <1>2
    <2>3. l[m] < l[n] \/ l[n] < l[m]
      BY <1>1, <2>2 DEF Increasing
    <2> QED BY <2>1, <2>3
  <1>4. Cardinality(1 .. C) = C
    BY <1>2, FS_Interval
  <1> HIDE DEF l, C
  <1>5. l \in Injection(1 .. C, D)
    BY <1>1, <1>3 DEF Injection, IsInjective
  <1>6. l \in Surjection(1 .. C, D)
    BY <1>2, <1>4, <1>5, FS_Injection DEF C
  <1> QED BY <1>1, <1>6 DEF Surjection, l, C

-----------------------------------------------------------------------------
(* Skills: the inductive invariant.                                        *)

Doing == {AtRest} \cup [at : {"write"}, folder : Folder, text : SkillText]
                  \cup [at : {"load"}, folders : SUBSET Folder]

AtMostOne(T) == T = {} \/ \E t \in T : T = {t}

SkillShapes ==
    /\ files \in [Folder -> SUBSET SkillText] /\ saved \in [Folder -> SUBSET SkillText]
    /\ \A f \in Folder : AtMostOne(files[f]) /\ AtMostOne(saved[f])
    /\ skills \in [Process -> Seq(Skill)]
    /\ doing \in [Process -> Doing]
    /\ saves \in 0 .. MaxSaves /\ spoilt \subseteq Folder /\ current \subseteq Process

\* Where nothing has gone wrong, a folder nobody writes holds what was saved, and
\* one that is written is written by one process, into an empty file.
SaveInv(f) ==
    f \notin spoilt => IF Writing(f) = {} THEN files[f] = saved[f]
                       ELSE files[f] = {EmptyText} /\ \E p \in Process : Writing(f) = {p}

\* What is written is a whole text, what is loaded is there, and no process comes
\* to hold more skills than there are folders.
LoadInv(p) ==
    /\ doing[p].at = "write" => doing[p].text.whole = TRUE
    /\ doing[p].at = "load" =>
          /\ doing[p].folders \subseteq Filled
          /\ Len(skills[p]) + Cardinality(doing[p].folders) <= Cardinality(Folder)
    /\ Len(skills[p]) <= Cardinality(Folder)

\* A process that began to load after the last write has loaded the first folders of
\* the listing, and has the others before it.
CurrentInv(p) ==
    p \in current =>
        /\ doing[p].at # "write"
        /\ (\A n \in DOMAIN OnDisk : OnDisk[n].whole) =>
              \E k \in 0 .. Cardinality(Filled) :
                 /\ skills[p] = [n \in 1 .. k |-> OnDisk[n]]
                 /\ IF doing[p].at = "load"
                    THEN doing[p].folders = {Listing[n] : n \in k + 1 .. Cardinality(Filled)}
                    ELSE k = Cardinality(Filled)

SkillsInv == /\ SkillShapes
             /\ \A f \in Folder : SaveInv(f)
             /\ \A p \in Process : LoadInv(p) /\ CurrentInv(p)

LEMMA DoingCases ==
    ASSUME SkillShapes, NEW p \in Process
    PROVE  /\ \/ doing[p] = AtRest /\ doing[p].at = "rest"
              \/ /\ doing[p].at = "write"
                 /\ doing[p].folder \in Folder /\ doing[p].text \in SkillText
              \/ doing[p].at = "load" /\ doing[p].folders \subseteq Folder
           /\ doing[p].at # "rest" => doing[p] # AtRest
  <1>1. doing[p] \in Doing
    BY DEF SkillShapes
  <1> QED BY <1>1 DEF Doing, AtRest

\* What a folder has in it is one text.
LEMMA OneText ==
    ASSUME SkillShapes, NEW f \in Filled
    PROVE  /\ f \in Folder
           /\ (CHOOSE t \in files[f] : TRUE) \in SkillText
           /\ Parse(CHOOSE t \in files[f] : TRUE) \in Skill
  <1>1. f \in Folder /\ files[f] # {} /\ files[f] \subseteq SkillText
    BY DEF Filled, SkillShapes
  <1>2. (CHOOSE t \in files[f] : TRUE) \in files[f]
    BY <1>1
  <1>3. (CHOOSE t \in files[f] : TRUE) \in SkillText
    BY <1>1, <1>2
  <1> QED BY <1>1, <1>3, ParseGivesSkill

LEMMA OnDiskFacts ==
    ASSUME SkillShapes
    PROVE  /\ Cardinality(Filled) \in Nat
           /\ Cardinality(Filled) <= Cardinality(Folder) /\ Cardinality(Folder) \in Nat
           /\ Listing \in [1 .. Cardinality(Filled) -> Filled]
           /\ DOMAIN OnDisk = 1 .. Cardinality(Filled)
           /\ \A n \in 1 .. Cardinality(Filled) :
                 /\ OnDisk[n] = Parse(CHOOSE t \in files[Listing[n]] : TRUE)
                 /\ OnDisk[n] \in Skill
           /\ OnDisk \in Seq(Skill)
  <1> DEFINE C == Cardinality(Filled)
  <1>1. Filled \in SUBSET Folder
    BY DEF Filled
  <1>2. C \in Nat /\ C <= Cardinality(Folder) /\ Cardinality(Folder) \in Nat
    BY <1>1, FoldersFinite
  <1>3. Listing \in [1 .. C -> Filled]
    BY <1>1, InOrderFacts DEF Listing
  <1> HIDE DEF C
  <1>4. DOMAIN Listing = 1 .. C
    BY <1>3
  <1>5. OnDisk = [n \in 1 .. C |-> Parse(CHOOSE t \in files[Listing[n]] : TRUE)]
    BY <1>4 DEF OnDisk
  <1>6. \A n \in 1 .. C : Parse(CHOOSE t \in files[Listing[n]] : TRUE) \in Skill
    BY <1>3, OneText
  <1>7. \A n \in 1 .. C : /\ OnDisk[n] = Parse(CHOOSE t \in files[Listing[n]] : TRUE)
                          /\ OnDisk[n] \in Skill
    BY <1>5, <1>6
  <1>8. DOMAIN OnDisk = 1 .. C
    BY <1>5
  <1>9. OnDisk \in Seq(Skill)
    <2>1. OnDisk \in [1 .. C -> Skill]
      BY <1>5, <1>6
    <2> QED BY <1>2, <2>1
  <1> QED BY <1>2, <1>3, <1>7, <1>8, <1>9 DEF C

\* To load anew is to have the whole listing before one.
LEMMA WholeListing ==
    ASSUME NEW D \in SUBSET Folder
    PROVE  D = {InOrder(D)[n] : n \in 1 .. Cardinality(D)}
  <1>1. /\ InOrder(D) \in [1 .. Cardinality(D) -> D]
        /\ \A d \in D : \E n \in 1 .. Cardinality(D) : InOrder(D)[n] = d
    BY InOrderFacts
  <1> QED BY <1>1

LEMMA SkillsInvInit == SkillsInit => SkillsInv
  <1> SUFFICES ASSUME SkillsInit PROVE SkillsInv
    OBVIOUS
  <1>1. 1 \in Folder
    <2>1. Folder = 1 .. Cardinality(Folder) /\ Folder # {} /\ Cardinality(Folder) \in Nat
      BY SkillsAssumption, FoldersFinite
    <2> QED BY <2>1
  <1>2. files \in [Folder -> SUBSET SkillText] /\ \A f \in Folder : AtMostOne(files[f])
    BY <1>1, TextsAreTexts DEF SkillsInit, AtMostOne
  <1>3. /\ saved = files /\ doing = [p \in Process |-> AtRest]
        /\ saves \in 0 .. MaxSaves /\ spoilt = {} /\ current = Process
        /\ skills = [p \in Process |-> OnDisk]
    BY SkillsAssumption DEF SkillsInit
  <1>4. OnDisk \in Seq(Skill)
    <2>1. \A f \in Filled : (CHOOSE t \in files[f] : TRUE) \in SkillText
      <3> SUFFICES ASSUME NEW f \in Filled PROVE (CHOOSE t \in files[f] : TRUE) \in SkillText
        OBVIOUS
      <3>1. f \in Folder /\ files[f] # {} /\ files[f] \subseteq SkillText
        BY <1>2 DEF Filled
      <3>2. (CHOOSE t \in files[f] : TRUE) \in files[f]
        BY <3>1
      <3> QED BY <3>1, <3>2
    <2>2. Filled \in SUBSET Folder
      BY DEF Filled
    <2>3. /\ Listing \in [1 .. Cardinality(Filled) -> Filled]
          /\ Cardinality(Filled) \in Nat
      BY <2>2, InOrderFacts, FoldersFinite DEF Listing
    <2>4. \A n \in 1 .. Cardinality(Filled) :
             Parse(CHOOSE t \in files[Listing[n]] : TRUE) \in Skill
      BY <2>1, <2>3, ParseGivesSkill
    <2>5. OnDisk \in [1 .. Cardinality(Filled) -> Skill]
      BY <2>3, <2>4 DEF OnDisk
    <2> QED BY <2>3, <2>5
  <1>5. SkillShapes
    BY <1>2, <1>3, <1>4 DEF SkillShapes, Doing
  <1>6. \A p \in Process : doing[p].at = "rest" /\ doing[p] = AtRest
    BY <1>3 DEF AtRest
  <1>7. \A f \in Folder : SaveInv(f)
    <2>1. \A f \in Folder : Writing(f) = {}
      BY <1>6 DEF Writing
    <2> QED BY <1>3, <2>1 DEF SaveInv
  <1>8. ASSUME NEW p \in Process PROVE LoadInv(p) /\ CurrentInv(p)
    <2>1. /\ skills[p] = OnDisk /\ DOMAIN OnDisk = 1 .. Cardinality(Filled)
          /\ Cardinality(Filled) \in Nat
          /\ Cardinality(Filled) <= Cardinality(Folder) /\ OnDisk \in Seq(Skill)
      BY <1>3, <1>5, OnDiskFacts
    <2>2. Len(OnDisk) = Cardinality(Filled)
      BY <2>1
    <2>3. LoadInv(p)
      BY <1>6, <2>1, <2>2 DEF LoadInv
    <2>4. OnDisk = [n \in 1 .. Cardinality(Filled) |-> OnDisk[n]]
      BY <2>1
    <2>5. CurrentInv(p)
      BY <1>6, <2>1, <2>4 DEF CurrentInv
    <2> QED BY <2>3, <2>5
  <1> QED BY <1>5, <1>7, <1>8 DEF SkillsInv

\* What becomes of a process that stands by while the folders stay as they are.
LEMMA StandsBy ==
    ASSUME SkillsInv, NEW p \in Process, UNCHANGED files,
           skills'[p] = skills[p], doing'[p] = doing[p], p \in current' => p \in current
    PROVE  LoadInv(p)' /\ CurrentInv(p)'
  <1>1. Filled' = Filled /\ Listing' = Listing /\ OnDisk' = OnDisk
    BY DEF Filled, Listing, OnDisk
  <1>2. LoadInv(p) /\ CurrentInv(p)
    BY DEF SkillsInv
  <1>3. LoadInv(p)'
    BY <1>1, <1>2 DEF LoadInv
  <1>4. CurrentInv(p)'
    BY <1>1, <1>2 DEF CurrentInv
  <1> QED BY <1>3, <1>4

\* A folder keeps what is promised of it if nobody comes to write it or leaves off.
LEMMA FolderRests ==
    ASSUME SkillsInv, NEW f \in Folder, files'[f] = files[f], saved'[f] = saved[f],
           Writing(f)' = Writing(f), f \in spoilt => f \in spoilt'
    PROVE  SaveInv(f)'
  <1>1. SaveInv(f)
    BY DEF SkillsInv
  <1> QED BY <1>1 DEF SaveInv

LEMMA OpenFileStep ==
    ASSUME SkillsInv, NEW p \in Process, NEW n \in SkillNames, NEW c \in Content,
           OpenFile(p, n, c)
    PROVE  SkillsInv'
  <1> DEFINE f == n.folder
             text == Header(n, c)
  <1>1. /\ f \in Folder /\ text \in SkillText /\ text.whole = TRUE /\ EmptyText \in SkillText
        /\ MaxSaves \in Nat
    BY SkillsAssumption, TextsAreTexts
  <1> HIDE DEF f, text
  <1>2. /\ doing[p] = AtRest /\ saves < MaxSaves /\ saves' = saves + 1
        /\ files' = [files EXCEPT ![f] = {EmptyText}]
        /\ doing' = [doing EXCEPT ![p] = [at |-> "write", folder |-> f, text |-> text]]
        /\ spoilt' = IF Writing(f) # {} THEN spoilt \cup {f} ELSE spoilt \ {f}
        /\ current' = {} /\ skills' = skills /\ saved' = saved
    BY DEF OpenFile, f, text
  <1>3. SkillShapes /\ (\A g \in Folder : SaveInv(g)) /\ \A q \in Process : LoadInv(q)
    BY DEF SkillsInv
  <1>4. SkillShapes'
    <2>1. files' \in [Folder -> SUBSET SkillText]
      BY <1>1, <1>2, <1>3 DEF SkillShapes
    <2>2. \A g \in Folder : AtMostOne(files[g])' /\ AtMostOne(saved[g])'
      BY <1>1, <1>2, <1>3 DEF SkillShapes, AtMostOne
    <2>3. doing' \in [Process -> Doing]
      BY <1>1, <1>2, <1>3 DEF SkillShapes, Doing
    <2>4. saves' \in 0 .. MaxSaves /\ spoilt' \subseteq Folder /\ current' \subseteq Process
      BY <1>1, <1>2, <1>3 DEF SkillShapes
    <2>5. /\ saved' \in [Folder -> SUBSET SkillText]
          /\ skills' \in [Process -> Seq(Skill)]
      BY <1>2, <1>3 DEF SkillShapes
    <2> QED BY <2>1, <2>2, <2>3, <2>4, <2>5 DEF SkillShapes
  <1>5. doing[p].at = "rest"
    BY <1>2 DEF AtRest
  <1>6. ASSUME NEW g \in Folder PROVE SaveInv(g)'
    <2>1. Writing(g)' = IF g = f THEN Writing(g) \cup {p} ELSE Writing(g)
      BY <1>2, <1>3, <1>5 DEF Writing, SkillShapes
    <2>2. CASE g # f
      <3>1. files'[g] = files[g] /\ (g \in spoilt => g \in spoilt')
        BY <1>2, <1>3, <2>2 DEF SkillShapes
      <3> QED BY <1>2, <2>1, <2>2, <3>1, FolderRests
    <2>3. CASE g = f
      <3>1. files'[g] = {EmptyText}
        BY <1>2, <1>3, <2>3 DEF SkillShapes
      <3>2. CASE Writing(f) = {}
        <4>1. Writing(g)' = {p}
          BY <2>1, <2>3, <3>2
        <4> QED BY <3>1, <4>1 DEF SaveInv
      <3>3. CASE Writing(f) # {}
        BY <1>2, <2>3, <3>3 DEF SaveInv
      <3> QED BY <3>2, <3>3
    <2> QED BY <2>2, <2>3
  <1>7. ASSUME NEW q \in Process PROVE LoadInv(q)' /\ CurrentInv(q)'
    <2>1. CurrentInv(q)'
      BY <1>2 DEF CurrentInv
    <2>2. Filled \subseteq Filled'
      BY <1>2, <1>3 DEF Filled, SkillShapes
    <2>3. CASE q = p
      <3>1. doing'[q] = [at |-> "write", folder |-> f, text |-> text]
        BY <1>2, <1>3, <2>3 DEF SkillShapes
      <3> QED BY <1>1, <1>2, <1>3, <2>1, <3>1 DEF LoadInv
    <2>4. CASE q # p
      <3>1. doing'[q] = doing[q]
        BY <1>2, <1>3, <2>4 DEF SkillShapes
      <3> QED BY <1>2, <1>3, <2>1, <2>2, <3>1 DEF LoadInv
    <2> QED BY <2>3, <2>4
  <1> QED BY <1>4, <1>6, <1>7 DEF SkillsInv

\* Whoever begins to load has the whole listing before it.
LEMMA BeginLoadFacts ==
    ASSUME SkillsInv, NEW p \in Process, BeginLoad(p)
    PROVE  /\ skills' = [skills EXCEPT ![p] = <<>>] /\ skills' \in [Process -> Seq(Skill)]
           /\ doing' = [doing EXCEPT ![p] = [at |-> "load", folders |-> Filled']]
           /\ doing' \in [Process -> Doing]
           /\ doing'[p] = [at |-> "load", folders |-> Filled'] /\ skills'[p] = <<>>
           /\ LoadInv(p)' /\ CurrentInv(p)'
           /\ \A f \in Folder : Writing(f)' = Writing(f) \ {p}
  <1>1. /\ skills' = [skills EXCEPT ![p] = <<>>]
        /\ doing' = [doing EXCEPT ![p] = [at |-> "load", folders |-> Filled']]
    BY DEF BeginLoad, Filled
  <1>2. skills \in [Process -> Seq(Skill)] /\ doing \in [Process -> Doing]
    BY DEF SkillsInv, SkillShapes
  <1>3. Filled' \in SUBSET Folder
    BY DEF Filled
  <1>4. skills' \in [Process -> Seq(Skill)] /\ skills'[p] = <<>>
    BY <1>1, <1>2
  <1>5. doing'[p] = [at |-> "load", folders |-> Filled']
    BY <1>1, <1>2
  <1>6. doing' \in [Process -> Doing]
    BY <1>1, <1>2, <1>3 DEF Doing
  <1>7. /\ Cardinality(Filled') \in Nat /\ Cardinality(Filled') <= Cardinality(Folder)
        /\ Cardinality(Folder) \in Nat
    BY <1>3, FoldersFinite
  <1>8. LoadInv(p)'
    <2>1. Len(skills'[p]) = 0
      BY <1>4
    <2> QED BY <1>5, <1>7, <2>1 DEF LoadInv
  <1>9. CurrentInv(p)'
    <2>1. Listing' = InOrder(Filled')
      BY DEF Listing
    <2>2. Filled' = {Listing'[n] : n \in 0 + 1 .. Cardinality(Filled')}
      BY <1>3, <2>1, WholeListing
    <2>3. skills'[p] = [n \in 1 .. 0 |-> OnDisk'[n]]
      BY <1>4
    <2>4. 0 \in 0 .. Cardinality(Filled')
      BY <1>7
    <2>5. doing'[p].at = "load" /\ doing'[p].folders = Filled'
      BY <1>5
    <2> QED BY <2>2, <2>3, <2>4, <2>5 DEF CurrentInv
  <1>10. ASSUME NEW f \in Folder PROVE Writing(f)' = Writing(f) \ {p}
    <2>1. doing'[p].at # "write"
      BY <1>5
    <2>2. \A q \in Process : q # p => doing'[q] = doing[q]
      BY <1>1, <1>2
    <2> QED BY <2>1, <2>2 DEF Writing
  <1> QED BY <1>1, <1>4, <1>5, <1>6, <1>8, <1>9, <1>10

LEMMA WriteFileStep ==
    ASSUME SkillsInv, NEW p \in Process, WriteFile(p)
    PROVE  SkillsInv'
  <1>1. SkillShapes /\ (\A g \in Folder : SaveInv(g)) /\ \A q \in Process : LoadInv(q)
    BY DEF SkillsInv
  <1>2. PICK f \in Folder, text \in SkillText :
           /\ doing[p].at = "write" /\ doing[p].folder = f /\ doing[p].text = text
           /\ text.whole = TRUE /\ p \in Writing(f)
    <2>1. doing[p].at = "write"
      BY DEF WriteFile
    <2>2. doing[p].folder \in Folder /\ doing[p].text \in SkillText
      BY <1>1, <2>1, DoingCases
    <2>3. doing[p].text.whole = TRUE /\ p \in Writing(doing[p].folder)
      BY <1>1, <2>1 DEF LoadInv, Writing
    <2> QED BY <2>1, <2>2, <2>3
  <1>3. PICK w \in IF files[f] = {EmptyText} THEN {TRUE} ELSE BOOLEAN :
           files' = [files EXCEPT ![f] = {[text EXCEPT !.whole = w]}]
    BY <1>2 DEF WriteFile
  <1>4. /\ saved' = [saved EXCEPT ![f] = {text}]
        /\ BeginLoad(p) /\ current' = {p} /\ saves' = saves /\ spoilt' = spoilt
    BY <1>2 DEF WriteFile
  <1>5. /\ skills' = [skills EXCEPT ![p] = <<>>] /\ skills' \in [Process -> Seq(Skill)]
        /\ doing' = [doing EXCEPT ![p] = [at |-> "load", folders |-> Filled']]
        /\ doing' \in [Process -> Doing]
        /\ LoadInv(p)' /\ CurrentInv(p)'
        /\ \A g \in Folder : Writing(g)' = Writing(g) \ {p}
    BY <1>4, BeginLoadFacts
  <1>6. [text EXCEPT !.whole = w] \in SkillText
    BY <1>2 DEF SkillText
  <1>7. SkillShapes'
    <2>1. files' \in [Folder -> SUBSET SkillText] /\ saved' \in [Folder -> SUBSET SkillText]
      BY <1>1, <1>2, <1>3, <1>4, <1>6 DEF SkillShapes
    <2>2. \A g \in Folder : AtMostOne(files[g])' /\ AtMostOne(saved[g])'
      BY <1>1, <1>2, <1>3, <1>4 DEF SkillShapes, AtMostOne
    <2> QED BY <1>1, <1>4, <1>5, <2>1, <2>2 DEF SkillShapes
  <1>8. ASSUME NEW g \in Folder PROVE SaveInv(g)'
    <2>1. CASE g # f
      <3>1. files'[g] = files[g] /\ saved'[g] = saved[g]
        BY <1>1, <1>3, <1>4, <2>1 DEF SkillShapes
      <3>2. p \notin Writing(g)
        BY <1>2, <2>1 DEF Writing
      <3> QED BY <1>4, <1>5, <2>1, <3>1, <3>2, FolderRests
    <2>2. CASE g = f
      <3> SUFFICES ASSUME f \notin spoilt'
                   PROVE  Writing(f)' = {} /\ files'[f] = saved'[f]
        BY <2>2 DEF SaveInv
      <3>1. files[f] = {EmptyText} /\ Writing(f) = {p}
        BY <1>1, <1>2, <1>4 DEF SaveInv
      <3>2. Writing(f)' = {}
        BY <1>2, <1>5, <3>1
      <3>3. [text EXCEPT !.whole = w] = text
        BY <1>2, <1>3, <3>1 DEF SkillText
      <3> QED BY <1>1, <1>2, <1>3, <1>4, <3>2, <3>3 DEF SkillShapes
    <2> QED BY <2>1, <2>2
  <1>9. ASSUME NEW q \in Process PROVE LoadInv(q)' /\ CurrentInv(q)'
    <2>1. CASE q = p
      BY <1>5, <2>1
    <2>2. CASE q # p
      <3>1. doing'[q] = doing[q] /\ skills'[q] = skills[q]
        BY <1>1, <1>5, <2>2 DEF SkillShapes
      <3>2. Filled \subseteq Filled'
        BY <1>1, <1>3 DEF Filled, SkillShapes
      <3>3. LoadInv(q)'
        BY <1>1, <3>1, <3>2 DEF LoadInv
      <3>4. CurrentInv(q)'
        BY <1>4, <2>2 DEF CurrentInv
      <3> QED BY <3>3, <3>4
    <2> QED BY <2>1, <2>2
  <1> QED BY <1>7, <1>8, <1>9 DEF SkillsInv

\* Loading changes nothing on disk and nothing for the folders.
LEMMA FoldersRest ==
    ASSUME SkillsInv, UNCHANGED <<files, saves, saved, spoilt>>,
           \A f \in Folder : Writing(f)' = Writing(f)
    PROVE  \A f \in Folder : SaveInv(f)'
  BY FolderRests

\* The first folder of those that wait is the next of the listing.
LEMMA NextOfListing ==
    ASSUME SkillShapes, NEW k \in 0 .. Cardinality(Filled), NEW S,
           S = {Listing[n] : n \in k + 1 .. Cardinality(Filled)}, NEW f \in S,
           \A g \in S : f <= g
    PROVE  /\ k + 1 \in 1 .. Cardinality(Filled) /\ f = Listing[k + 1]
           /\ S \ {f} = {Listing[n] : n \in k + 2 .. Cardinality(Filled)}
  <1> DEFINE C == Cardinality(Filled)
  <1>1. C \in Nat /\ Listing \in [1 .. C -> Filled] /\ Filled \in SUBSET Folder
    BY OnDiskFacts DEF Filled
  <1>2. Increasing(Listing) /\ Filled \subseteq Nat
    BY <1>1, InOrderFacts, FoldersFinite DEF Listing
  <1> HIDE DEF C
  <1>3. PICK n \in k + 1 .. C : f = Listing[n]
    BY DEF C
  <1>4. k \in Nat /\ k + 1 \in 1 .. C /\ n \in 1 .. C
    BY <1>1, <1>3 DEF C
  <1>5. Listing[k + 1] \in S
    BY <1>1, <1>4 DEF C
  <1>6. f <= Listing[k + 1] /\ f \in Nat /\ Listing[k + 1] \in Nat
    BY <1>1, <1>2, <1>3, <1>4, <1>5
  <1>7. n = k + 1
    <2> SUFFICES ASSUME n # k + 1 PROVE FALSE
      OBVIOUS
    <2>1. k + 1 < n
      BY <1>1, <1>3, <1>4
    <2>2. Listing[k + 1] < Listing[n]
      BY <1>1, <1>2, <1>4, <2>1 DEF Increasing
    <2> QED BY <1>3, <1>6, <2>2
  <1>8. \A m \in k + 2 .. C : m \in 1 .. C /\ Listing[m] # f
    <2> SUFFICES ASSUME NEW m \in k + 2 .. C PROVE m \in 1 .. C /\ Listing[m] # f
      OBVIOUS
    <2>1. m \in 1 .. C /\ k + 1 < m
      BY <1>1, <1>4
    <2>2. Listing[k + 1] < Listing[m] /\ Listing[m] \in Nat
      BY <1>1, <1>2, <1>4, <2>1 DEF Increasing
    <2> QED BY <1>3, <1>6, <1>7, <2>1, <2>2
  <1>9. \A m \in k + 1 .. C : m = k + 1 \/ m \in k + 2 .. C
    BY <1>1, <1>4
  <1>10. \A m \in k + 2 .. C : m \in k + 1 .. C
    BY <1>1, <1>4
  <1>11. S \ {f} = {Listing[m] : m \in k + 2 .. C}
    BY <1>3, <1>7, <1>8, <1>9, <1>10 DEF C
  <1> QED BY <1>3, <1>4, <1>7, <1>11 DEF C

LEMMA LoadFileStep ==
    ASSUME SkillsInv, NEW p \in Process, LoadFile(p)
    PROVE  SkillsInv'
  <1>1. /\ SkillShapes /\ LoadInv(p) /\ CurrentInv(p)
        /\ doing[p].at = "load" /\ doing[p].folders # {}
        /\ UNCHANGED <<files, saves, saved, spoilt, current>>
    BY DEF SkillsInv, LoadFile
  <1>2. PICK S \in SUBSET Filled : doing[p] = [at |-> "load", folders |-> S] /\ S # {}
    <2>1. doing[p] \in Doing /\ doing[p].folders \subseteq Filled
      BY <1>1 DEF SkillShapes, LoadInv
    <2> QED BY <1>1, <2>1 DEF Doing, AtRest
  <1>3. S \subseteq Nat /\ IsFiniteSet(S) /\ Cardinality(S) \in Nat /\ Filled \subseteq Folder
    <2>1. S \in SUBSET Folder
      BY DEF Filled
    <2> QED BY <2>1, FoldersFinite DEF Filled
  <1>4. PICK f \in S : /\ \A g \in S : f <= g
                       /\ f = CHOOSE g \in S : \A h \in S : g <= h
    <2>1. \E f \in S : \A g \in S : f <= g
      BY <1>2, <1>3, SmallestOf
    <2> QED BY <2>1
  <1>5. PICK text \in SkillText : /\ text = CHOOSE t \in files[f] : TRUE
                                  /\ Parse(text) \in Skill
    <2>1. f \in Filled
      BY <1>4
    <2> QED BY <1>1, <2>1, OneText
  <1>6. /\ \/ skills' = [skills EXCEPT ![p] = Append(@, Parse(text))]
           \/ ~ text.whole /\ skills' = skills
        /\ doing' = [doing EXCEPT ![p].folders = @ \ {f}]
    BY <1>2, <1>4, <1>5 DEF LoadFile
  <1>7. doing' = [doing EXCEPT ![p] = [at |-> "load", folders |-> S \ {f}]]
    <2>1. doing \in [Process -> Doing]
      BY <1>1 DEF SkillShapes
    <2>2. doing' = [doing EXCEPT ![p] = [doing[p] EXCEPT !.folders = doing[p].folders \ {f}]]
      BY <1>6, <2>1, Zenon
    <2>3. [doing[p] EXCEPT !.folders = doing[p].folders \ {f}]
             = [at |-> "load", folders |-> S \ {f}]
      BY <1>2
    <2> QED BY <2>2, <2>3
  <1>8. SkillShapes'
    <2>1. S \ {f} \in SUBSET Folder
      BY <1>3
    <2>2. doing' \in [Process -> Doing]
      BY <1>1, <1>7, <2>1 DEF SkillShapes, Doing
    <2>3. skills' \in [Process -> Seq(Skill)]
      <3>1. skills \in [Process -> Seq(Skill)] /\ skills[p] \in Seq(Skill)
        BY <1>1 DEF SkillShapes
      <3>2. Append(skills[p], Parse(text)) \in Seq(Skill)
        BY <1>5, <3>1
      <3> QED BY <1>6, <3>1, <3>2
    <2> QED BY <1>1, <2>2, <2>3 DEF SkillShapes
  <1>9. /\ doing'[p] = [at |-> "load", folders |-> S \ {f}]
        /\ \A q \in Process : q # p => doing'[q] = doing[q] /\ skills'[q] = skills[q]
    BY <1>1, <1>6, <1>7 DEF SkillShapes
  <1>10. \A g \in Folder : SaveInv(g)'
    <2>1. \A g \in Folder : Writing(g)' = Writing(g)
      BY <1>1, <1>9 DEF Writing
    <2> QED BY <1>1, <2>1, FoldersRest
  <1>11. Filled' = Filled /\ Listing' = Listing /\ OnDisk' = OnDisk
    BY <1>1 DEF Filled, Listing, OnDisk
  <1>12. skills[p] \in Seq(Skill) /\ Len(skills[p]) \in Nat
    BY <1>1 DEF SkillShapes
  <1>13. LoadInv(p)'
    <2>1. Len(skills'[p]) \in Nat /\ Len(skills'[p]) <= Len(skills[p]) + 1
      BY <1>1, <1>5, <1>6, <1>12 DEF SkillShapes
    <2>2. Cardinality(S \ {f}) = Cardinality(S) - 1 /\ Cardinality(S) > 0
      <3>1. Cardinality(S) # 0
        BY <1>2, <1>3, FS_EmptySet
      <3>2. Cardinality(S \ {f}) = Cardinality(S) - 1
        BY <1>3, <1>4, FS_RemoveElement
      <3> QED BY <1>3, <3>1, <3>2
    <2>3. Len(skills[p]) + Cardinality(S) <= Cardinality(Folder) /\ Cardinality(Folder) \in Nat
      BY <1>1, <1>2, OnDiskFacts DEF LoadInv
    <2>4. Len(skills'[p]) + Cardinality(S \ {f}) <= Cardinality(Folder)
      BY <1>3, <1>12, <2>1, <2>2, <2>3
    <2>5. Len(skills'[p]) <= Cardinality(Folder)
      BY <1>3, <2>1, <2>2, <2>3, <2>4
    <2> QED BY <1>9, <1>11, <2>4, <2>5 DEF LoadInv
  <1>14. CurrentInv(p)'
    <2> SUFFICES ASSUME p \in current', \A n \in DOMAIN OnDisk' : OnDisk'[n].whole
                 PROVE  \E k \in 0 .. Cardinality(Filled) :
                          /\ skills'[p] = [n \in 1 .. k |-> OnDisk[n]]
                          /\ S \ {f} = {Listing[n] : n \in k + 1 .. Cardinality(Filled)}
      BY <1>9, <1>11 DEF CurrentInv
    <2>0. p \in current /\ doing[p].at = "load" /\ doing[p].folders = S
      BY <1>1, <1>2
    <2>1. \A n \in DOMAIN OnDisk : OnDisk[n].whole
      BY <1>11
    <2>2. PICK k \in 0 .. Cardinality(Filled) :
             /\ skills[p] = [n \in 1 .. k |-> OnDisk[n]]
             /\ S = {Listing[n] : n \in k + 1 .. Cardinality(Filled)}
      BY <1>1, <2>0, <2>1 DEF CurrentInv
    <2>3. /\ k + 1 \in 1 .. Cardinality(Filled) /\ f = Listing[k + 1]
          /\ S \ {f} = {Listing[n] : n \in k + 2 .. Cardinality(Filled)}
      <3>1. f \in S /\ \A g \in S : f <= g
        BY <1>4
      <3> QED BY <1>1, <2>2, <3>1, NextOfListing, Zenon
    <2>4. OnDisk[k + 1] = Parse(text) /\ text.whole /\ k \in Nat
      <3>1. OnDisk[k + 1] = Parse(text) /\ k + 1 \in DOMAIN OnDisk
        BY <1>1, <1>5, <2>3, OnDiskFacts
      <3>2. Parse(text).whole
        BY <2>1, <3>1
      <3> QED BY <2>2, <3>1, <3>2 DEF Parse
    <2>5. skills'[p] = Append(skills[p], OnDisk[k + 1])
      BY <1>1, <1>6, <2>4 DEF SkillShapes
    <2>6. \A n \in 1 .. k : OnDisk[n] \in Skill
      BY <1>1, <2>2, <2>3, OnDiskFacts
    <2>7. Append([n \in 1 .. k |-> OnDisk[n]], OnDisk[k + 1]) = [n \in 1 .. k + 1 |-> OnDisk[n]]
      BY <2>4
    <2>8. (k + 1) + 1 = k + 2 /\ k + 1 \in 0 .. Cardinality(Filled)
      BY <2>3, <2>4
    <2> QED BY <2>2, <2>3, <2>5, <2>7, <2>8
  <1>15. ASSUME NEW q \in Process PROVE LoadInv(q)' /\ CurrentInv(q)'
    <2>1. CASE q = p
      BY <1>13, <1>14, <2>1
    <2>2. CASE q # p
      BY <1>1, <1>9, <2>2, StandsBy
    <2> QED BY <2>1, <2>2
  <1> QED BY <1>8, <1>10, <1>15 DEF SkillsInv

\* A process comes to rest, its write done or not, and the skills it has stay.
LEMMA LoadedStep ==
    ASSUME SkillsInv, NEW p \in Process, Loaded(p)
    PROVE  SkillsInv'
  <1>1. /\ SkillShapes /\ LoadInv(p) /\ CurrentInv(p)
        /\ doing[p].at = "load" /\ doing[p].folders = {}
        /\ doing' = [doing EXCEPT ![p] = AtRest]
        /\ UNCHANGED <<files, skills, saves, saved, spoilt, current>>
    BY DEF SkillsInv, Loaded
  <1>2. /\ doing'[p].at = "rest" /\ \A q \in Process : q # p => doing'[q] = doing[q]
        /\ doing' \in [Process -> Doing]
    BY <1>1 DEF SkillShapes, Doing, AtRest
  <1>3. SkillShapes'
    BY <1>1, <1>2 DEF SkillShapes
  <1>4. \A f \in Folder : SaveInv(f)'
    <2>1. \A f \in Folder : Writing(f)' = Writing(f)
      BY <1>1, <1>2 DEF Writing
    <2> QED BY <1>1, <2>1, FoldersRest
  <1>5. Filled' = Filled /\ Listing' = Listing /\ OnDisk' = OnDisk
    BY <1>1 DEF Filled, Listing, OnDisk
  <1>6. LoadInv(p)'
    BY <1>1, <1>2 DEF LoadInv
  <1>7. CurrentInv(p)'
    <2> SUFFICES ASSUME p \in current, \A n \in DOMAIN OnDisk : OnDisk[n].whole
                 PROVE  skills[p] = [n \in 1 .. Cardinality(Filled) |-> OnDisk[n]]
      <3>1. Cardinality(Filled) \in 0 .. Cardinality(Filled)
        BY <1>1, OnDiskFacts
      <3> QED BY <1>1, <1>2, <1>5, <3>1 DEF CurrentInv
    <2>1. PICK k \in 0 .. Cardinality(Filled) :
             /\ skills[p] = [n \in 1 .. k |-> OnDisk[n]]
             /\ {} = {Listing[n] : n \in k + 1 .. Cardinality(Filled)}
      BY <1>1 DEF CurrentInv
    <2>2. Cardinality(Filled) \in Nat
      BY <1>1, OnDiskFacts
    <2>3. k = Cardinality(Filled)
      <3> SUFFICES ASSUME k # Cardinality(Filled) PROVE FALSE
        OBVIOUS
      <3>1. k + 1 \in k + 1 .. Cardinality(Filled)
        BY <2>2
      <3> QED BY <2>1, <3>1
    <2> QED BY <2>1, <2>3
  <1>8. ASSUME NEW q \in Process PROVE LoadInv(q)' /\ CurrentInv(q)'
    <2>1. CASE q = p
      BY <1>6, <1>7, <2>1
    <2>2. CASE q # p
      BY <1>1, <1>2, <2>2, StandsBy
    <2> QED BY <2>1, <2>2
  <1> QED BY <1>3, <1>4, <1>8 DEF SkillsInv

LEMMA WriteFailsStep ==
    ASSUME SkillsInv, NEW p \in Process, WriteFails(p)
    PROVE  SkillsInv'
  <1>1. /\ SkillShapes /\ LoadInv(p) /\ CurrentInv(p)
        /\ doing[p].at = "write"
        /\ doing' = [doing EXCEPT ![p] = AtRest]
        /\ spoilt' = spoilt \cup {doing[p].folder}
        /\ UNCHANGED <<files, skills, saves, saved, current>>
    BY DEF SkillsInv, WriteFails
  <1>2. PICK f \in Folder : doing[p].folder = f /\ spoilt' = spoilt \cup {f}
    BY <1>1, DoingCases
  <1>3. /\ doing'[p].at = "rest" /\ \A q \in Process : q # p => doing'[q] = doing[q]
        /\ doing' \in [Process -> Doing]
    BY <1>1 DEF SkillShapes, Doing, AtRest
  <1>4. SkillShapes'
    BY <1>1, <1>2, <1>3 DEF SkillShapes
  <1>5. ASSUME NEW g \in Folder PROVE SaveInv(g)'
    <2>1. CASE g = f
      BY <1>2, <2>1 DEF SaveInv
    <2>2. CASE g # f
      <3>1. Writing(g)' = Writing(g)
        BY <1>1, <1>2, <1>3, <2>2 DEF Writing
      <3> QED BY <1>1, <1>2, <3>1, FolderRests
    <2> QED BY <2>1, <2>2
  <1>6. ASSUME NEW q \in Process PROVE LoadInv(q)' /\ CurrentInv(q)'
    <2>1. CASE q = p
      BY <1>1, <1>3, <2>1 DEF LoadInv, CurrentInv
    <2>2. CASE q # p
      BY <1>1, <1>3, <2>2, StandsBy
    <2> QED BY <2>1, <2>2
  <1> QED BY <1>4, <1>5, <1>6 DEF SkillsInv

LEMMA RespawnStep ==
    ASSUME SkillsInv, NEW p \in Process, Respawn(p)
    PROVE  SkillsInv'
  <1>1. /\ SkillShapes /\ (\A f \in Folder : SaveInv(f)) /\ BeginLoad(p)
        /\ spoilt' = IF doing[p].at = "write" THEN spoilt \cup {doing[p].folder} ELSE spoilt
        /\ current' = current \cup {p}
        /\ UNCHANGED <<files, saves, saved>>
    BY DEF SkillsInv, Respawn
  <1>2. /\ skills' = [skills EXCEPT ![p] = <<>>] /\ skills' \in [Process -> Seq(Skill)]
        /\ doing' = [doing EXCEPT ![p] = [at |-> "load", folders |-> Filled']]
        /\ doing' \in [Process -> Doing]
        /\ LoadInv(p)' /\ CurrentInv(p)'
        /\ \A g \in Folder : Writing(g)' = Writing(g) \ {p}
    BY <1>1, BeginLoadFacts
  <1>3. SkillShapes'
    <2>1. spoilt' \subseteq Folder
      BY <1>1, DoingCases DEF SkillShapes
    <2> QED BY <1>1, <1>2, <2>1 DEF SkillShapes
  <1>4. ASSUME NEW f \in Folder PROVE SaveInv(f)'
    <2>1. CASE p \in Writing(f)
      <3>1. f \in spoilt'
        BY <1>1, <2>1 DEF Writing
      <3> QED BY <3>1 DEF SaveInv
    <2>2. CASE p \notin Writing(f)
      <3>1. Writing(f)' = Writing(f)
        BY <1>2, <2>2
      <3> QED BY <1>1, <3>1, FolderRests
    <2> QED BY <2>1, <2>2
  <1>5. ASSUME NEW q \in Process PROVE LoadInv(q)' /\ CurrentInv(q)'
    <2>1. CASE q = p
      BY <1>2, <2>1
    <2>2. CASE q # p
      <3>1. doing'[q] = doing[q] /\ skills'[q] = skills[q]
        BY <1>1, <1>2, <2>2 DEF SkillShapes
      <3> QED BY <1>1, <2>2, <3>1, StandsBy
    <2> QED BY <2>1, <2>2
  <1> QED BY <1>3, <1>4, <1>5 DEF SkillsInv

LEMMA SkillsInvStep == SkillsInv /\ [SkillsNext]_skillVars => SkillsInv'
  <1> SUFFICES ASSUME SkillsInv, [SkillsNext]_skillVars PROVE SkillsInv'
    OBVIOUS
  <1>1. CASE UNCHANGED skillVars
    <2>1. UNCHANGED <<files, skills, doing, saves, saved, spoilt, current>>
      BY <1>1 DEF skillVars
    <2>2. SkillShapes'
      BY <2>1 DEF SkillsInv, SkillShapes
    <2>3. \A f \in Folder : SaveInv(f)'
      <3>1. \A f \in Folder : Writing(f)' = Writing(f)
        BY <2>1 DEF Writing
      <3> QED BY <2>1, <3>1, FoldersRest
    <2>4. \A p \in Process : LoadInv(p)' /\ CurrentInv(p)'
      BY <2>1, StandsBy
    <2> QED BY <2>2, <2>3, <2>4 DEF SkillsInv
  <1>2. CASE SkillsNext
    BY <1>2, OpenFileStep, WriteFileStep, LoadFileStep, LoadedStep, WriteFailsStep,
       RespawnStep DEF SkillsNext
  <1> QED BY <1>1, <1>2

LEMMA SkillsInvariance == SkillsSpec => []SkillsInv
  BY SkillsInvInit, SkillsInvStep, PTL DEF SkillsSpec

-----------------------------------------------------------------------------
(* Skills: what follows.                                                   *)

\* A name with two long words, or one in small letters, makes a request that says it
\* score enough.
LEMMA PlainScore ==
    ASSUME NEW n \in SkillNames, n.small \/ Cardinality(n.words) >= MinScore
    PROVE  Score([name |-> n, about |-> n.words, whole |-> TRUE],
                 [words |-> {}, said |-> {n}]) >= MinScore
  <1> DEFINE s == [name |-> n, about |-> n.words, whole |-> TRUE]
             q == [words |-> {}, said |-> {n}]
  <1>1. AllWords(q) = n.words
    BY DEF AllWords
  <1>2. AllWords(q) \cap (s.name.words \cup s.about) = n.words
    BY <1>1
  <1>3. Cardinality(n.words) \in Nat
    BY SkillsAssumption, FS_CardinalityType
  <1>4. s.name = n /\ n \in q.said
    OBVIOUS
  <1>5. Score(s, q) = Cardinality(n.words) + IF n.small THEN 3 ELSE 0
    BY <1>2, <1>4 DEF Score
  <1> HIDE DEF s, q
  <1>6. Score(s, q) >= MinScore
    BY <1>3, <1>5 DEF MinScore
  <1> QED BY <1>6 DEF s, q

LEMMA SkillsAreSound == SkillsInv => SkillsSound
  <1> SUFFICES ASSUME SkillsInv PROVE SkillsSound
    OBVIOUS
  <1>1. SkillShapes /\ skills \in [Process -> Seq(Skill)]
    BY DEF SkillsInv, SkillShapes
  <1>2. FilesHoldWhatWasSaved
    BY DEF SkillsInv, SaveInv, FilesHoldWhatWasSaved
  <1>3. CurrentIfLast
    <2> SUFFICES ASSUME NEW p \in current, doing[p] = AtRest,
                        \A n \in DOMAIN OnDisk : OnDisk[n].whole
                 PROVE  skills[p] = OnDisk
      BY DEF CurrentIfLast
    <2>1. p \in Process /\ doing[p].at # "load"
      BY <1>1 DEF SkillShapes, AtRest
    <2>2. CurrentInv(p)
      BY <2>1 DEF SkillsInv
    <2>3. skills[p] = [n \in 1 .. Cardinality(Filled) |-> OnDisk[n]]
      BY <2>1, <2>2 DEF CurrentInv
    <2>4. OnDisk = [n \in 1 .. Cardinality(Filled) |-> OnDisk[n]]
      BY <1>1, OnDiskFacts DEF OnDisk
    <2> QED BY <2>3, <2>4
  <1>4. BestMatch
    <2> SUFFICES ASSUME NEW p \in Process, NEW q \in Asking
                 PROVE  LET list == skills[p]
                            m == Match(list, q)
                        IN IF m = 0 THEN \A n \in DOMAIN list : Score(list[n], q) < MinScore
                           ELSE /\ Score(list[m], q) >= MinScore
                                /\ \A n \in DOMAIN list :
                                      /\ Score(list[n], q) <= Score(list[m], q)
                                      /\ n < m => Score(list[n], q) < Score(list[m], q)
      BY DEF BestMatch
    <2>1. skills[p] \in Seq(Skill)
      BY <1>1
    <2> QED BY <2>1, MatchFacts
  <1>5. PlainIsMatchable
    <2> SUFFICES ASSUME NEW p \in Process, NEW n \in SkillNames,
                        Contains(skills[p], [name |-> n, about |-> n.words, whole |-> TRUE]),
                        n.small \/ Cardinality(n.words) >= MinScore
                 PROVE  Match(skills[p], [words |-> {}, said |-> {n}]) # 0
      BY DEF PlainIsMatchable
    <2> DEFINE s == [name |-> n, about |-> n.words, whole |-> TRUE]
               q == [words |-> {}, said |-> {n}]
    <2>1. PICK i \in 1 .. Len(skills[p]) : skills[p][i] = s
      BY DEF Contains
    <2>2. skills[p] \in Seq(Skill) /\ i \in DOMAIN skills[p]
      BY <1>1
    <2>3. Score(s, q) >= MinScore
      BY PlainScore
    <2> HIDE DEF s, q
    <2>4. Score(s, q) \in Nat
      BY <2>1, <2>2, ScoreType
    <2>5. Match(skills[p], q) = 0 =>
             \A j \in DOMAIN skills[p] : Score(skills[p][j], q) < MinScore
      BY <2>2, MatchFacts
    <2>6. Match(skills[p], q) # 0
      BY <2>1, <2>2, <2>3, <2>4, <2>5 DEF MinScore
    <2> QED BY <2>6 DEF q
  <1> QED BY <1>2, <1>3, <1>4, <1>5 DEF SkillsSound

\* The folders hold at most one text each, and no process more skills than there are
\* folders, whatever saves overlap, fail or die.
THEOREM SkillsTypeCorrect == SkillsSpec => []SkillsTypeOK
  <1>1. SkillsInv => SkillsTypeOK
    <2> SUFFICES ASSUME SkillsInv PROVE SkillsTypeOK
      OBVIOUS
    <2>1. SkillShapes /\ \A p \in Process : LoadInv(p)
      BY DEF SkillsInv
    <2>2. \A T : AtMostOne(T) => Cardinality(T) <= 1
      BY FS_EmptySet, FS_Singleton DEF AtMostOne
    <2>3. \A f \in Folder : Cardinality(files[f]) <= 1 /\ Cardinality(saved[f]) <= 1
      BY <2>1, <2>2 DEF SkillShapes
    <2>4. \A p \in Process : doing[p].at \in {"rest", "write", "load"}
      BY <2>1, DoingCases
    <2> QED BY <2>1, <2>3, <2>4 DEF SkillsTypeOK, SkillShapes, LoadInv
  <1> QED BY <1>1, SkillsInvariance, PTL

\* The skills are sound (SkillRegistry.save_skill, reload and match): across processes,
\* overlapping saves and failures, a folder nothing went wrong in holds what was last
\* saved; a process that loaded since the last write has the skills on disk, in order;
\* and match gives the first of the best.
THEOREM SkillsSoundHolds == SkillsSpec => []SkillsSound
  BY SkillsAreSound, SkillsInvariance, PTL
=============================================================================
