--------------------------- MODULE RegistryProofs ---------------------------
(***************************************************************************)
(* The registry's types, the consistency of its sparse sets and the        *)
(* completeness of its active list, for every number of entities, every    *)
(* set of component types and every mesh catalogue; and that, whatever the *)
(* pools, indices and mesh ids do, the scene is a store (EntityStore).     *)
(***************************************************************************)
EXTENDS Registry, FiniteSetTheorems, WellFoundedInduction, TLAPS

-----------------------------------------------------------------------------
\* Pools: what each operation preserves, and which entities own a component
\* after it.

\* S is the set of the strays, whose rows need not be theirs alone.
PoolOK(p, Ents, Data, S) == PoolShape(p, Ents, Data) /\ Consistent(p, S)

\* In a pool of the right shape the bounds of the indices come for free.
LEMMA ConsistentIntro ==
  ASSUME NEW Ents, NEW Data, NEW p, PoolShape(p, Ents, Data), NEW S,
         \A i \in 1 .. Len(p.entities) :
           /\ p.entities[i] \in DOMAIN p.sparse
           /\ p.sparse[p.entities[i]] = i \/ p.entities[i] \in S,
         \A e \in DOMAIN p.sparse : p.sparse[e] # NoIndex => p.entities[p.sparse[e]] = e
  PROVE  Consistent(p, S)
<1>1. ASSUME NEW e \in DOMAIN p.sparse, p.sparse[e] # NoIndex
      PROVE  p.sparse[e] \in 1 .. Len(p.entities)
  BY <1>1 DEF PoolShape, NoIndex
<1>2. QED BY <1>1 DEF Consistent

\* The pool getPool creates is well formed and owned by nobody.
LEMMA EmptyPoolOK ==
  ASSUME NEW Ents, NEW Data, NEW S
  PROVE  PoolOK(EmptyPool, Ents, Data, S) /\ Owners(EmptyPool) = {}
BY DEF PoolOK, PoolShape, Consistent, EmptyPool, Owners, NoIndex

\* What is asked of a pool gets weaker as the strays get more.
LEMMA MoreStrays ==
  ASSUME NEW Ents, NEW Data, NEW p, NEW S, PoolOK(p, Ents, Data, S), NEW T, S \subseteq T
  PROVE  PoolOK(p, Ents, Data, T)
BY DEF PoolOK, Consistent

\* Adding a component keeps a pool well formed provided the entity has none, or
\* is a stray.
LEMMA AddOK ==
  ASSUME NEW N \in Nat, NEW Data, NEW S,
         NEW p, PoolOK(p, 0 .. N, Data, S),
         NEW e \in 0 .. N, ~Has(p, e) \/ e \in S, NEW c \in Data
  PROVE  PoolOK(Add(p, e, c), 0 .. N, Data, S) /\ Owners(Add(p, e, c)) = Owners(p) \cup {e}
<1> DEFINE q == Add(p, e, c)
           n == Len(p.data)
<1>1. /\ q.data = Append(p.data, c)
      /\ q.entities = Append(p.entities, e)
      /\ DOMAIN q.sparse = DOMAIN p.sparse \cup 0 .. e
      /\ \A x \in DOMAIN q.sparse :
           q.sparse[x] = IF x = e THEN n + 1
                         ELSE IF x \in DOMAIN p.sparse THEN p.sparse[x] ELSE NoIndex
      /\ q.sparse \in [DOMAIN q.sparse -> 0 .. n + 1]
  BY DEF Add, PoolOK, PoolShape, NoIndex
<1>2. Len(q.data) = n + 1 /\ Len(q.entities) = n + 1
  BY <1>1 DEF PoolOK, PoolShape
<1>3. PoolShape(q, 0 .. N, Data)
  BY <1>1, <1>2 DEF PoolOK, PoolShape
<1>4. ASSUME NEW i \in 1 .. Len(q.entities)
      PROVE  /\ q.entities[i] \in DOMAIN q.sparse
             /\ q.sparse[q.entities[i]] = i \/ q.entities[i] \in S
  <2>1. CASE i = n + 1
    <3>1. q.entities[i] = e
      BY <1>1, <2>1 DEF PoolOK, PoolShape
    <3>2. e \in DOMAIN q.sparse
      BY <1>1
    <3>3. QED BY <1>1, <2>1, <3>1, <3>2
  <2>2. CASE i # n + 1
    <3>1. i \in 1 .. n /\ q.entities[i] = p.entities[i]
      BY <1>1, <1>2, <2>2 DEF PoolOK, PoolShape
    <3>2. /\ p.entities[i] \in DOMAIN p.sparse
          /\ p.sparse[p.entities[i]] = i \/ p.entities[i] \in S
      BY <3>1 DEF PoolOK, PoolShape, Consistent
    <3>3. p.entities[i] # e \/ e \in S
      BY <3>1, <3>2 DEF Has, NoIndex
    <3>4. QED BY <1>1, <3>1, <3>2, <3>3
  <2>3. QED BY <2>1, <2>2
<1>5. ASSUME NEW x \in DOMAIN q.sparse, q.sparse[x] # NoIndex
      PROVE  q.entities[q.sparse[x]] = x
  <2>1. CASE x = e
    <3>1. q.sparse[x] = n + 1 /\ n = Len(p.entities)
      BY <1>1, <2>1 DEF PoolOK, PoolShape
    <3>2. p.entities \in Seq(0 .. N) /\ q.entities = Append(p.entities, e)
      BY <1>1 DEF PoolOK, PoolShape
    <3> HIDE DEF q, n
    <3>3. QED BY <2>1, <3>1, <3>2
  <2>2. CASE x # e
    <3>1. x \in DOMAIN p.sparse /\ q.sparse[x] = p.sparse[x]
      BY <1>1, <1>5, <2>2
    <3>2. p.sparse[x] \in 1 .. n /\ p.entities[p.sparse[x]] = x
      BY <1>5, <3>1 DEF PoolOK, PoolShape, Consistent, NoIndex
    <3>3. QED BY <1>1, <3>1, <3>2 DEF PoolOK, PoolShape
  <2>3. QED BY <2>1, <2>2
<1>6. Owners(q) = Owners(p) \cup {e}
  <2>1. e \in DOMAIN q.sparse /\ q.sparse[e] # NoIndex
    <3>1. e \in 0 .. e /\ n \in Nat
      BY DEF PoolOK, PoolShape
    <3> HIDE DEF q, n
    <3>2. e \in DOMAIN q.sparse
      BY <1>1, <3>1
    <3>3. q.sparse[e] = n + 1
      BY <1>1, <3>2
    <3>4. QED BY <3>1, <3>2, <3>3 DEF NoIndex
  <2>2. ASSUME NEW x \in Owners(p) PROVE x \in Owners(q)
    BY <1>1, <2>1 DEF Owners
  <2>3. ASSUME NEW x \in Owners(q), x # e PROVE x \in Owners(p)
    BY <1>1, <2>3 DEF Owners
  <2>4. QED BY <2>1, <2>2, <2>3 DEF Owners
<1> HIDE DEF q
<1>7. Consistent(q, S)
  BY <1>3, <1>4, <1>5, ConsistentIntro
<1>8. QED BY <1>3, <1>6, <1>7 DEF PoolOK, q

\* Swap-and-pop keeps a pool well formed, also when the removed entity is the
\* last one, and takes away exactly the removed entity's component, strays apart:
\* one of them that owned an earlier row may be led to it again.
LEMMA RemoveOK ==
  ASSUME NEW Ents, NEW Data, NEW p, NEW S, PoolOK(p, Ents, Data, S), NEW e
  PROVE  /\ PoolOK(Remove(p, e), Ents, Data, S)
         /\ Owners(Remove(p, e)) \ S = (Owners(p) \ {e}) \ S
<1>1. CASE ~Has(p, e)
  BY <1>1 DEF Remove, Has, Owners
<1>2. CASE Has(p, e)
  <2> DEFINE q == Remove(p, e)
             n == Len(p.data)
             i == p.sparse[e]
             last == p.entities[n]
  <2>1. /\ n \in Nat /\ Len(p.entities) = n
        /\ e \in DOMAIN p.sparse /\ i \in 1 .. n /\ p.entities[i] = e
        /\ last \in DOMAIN p.sparse
        /\ p.sparse[last] = n \/ last \in S
    BY <1>2 DEF Has, PoolOK, PoolShape, Consistent, NoIndex
  <2>2. /\ q.data = [j \in 1 .. n - 1 |-> IF j = i THEN p.data[n] ELSE p.data[j]]
        /\ q.entities = [j \in 1 .. n - 1 |-> IF j = i THEN last ELSE p.entities[j]]
        /\ q.sparse = [p.sparse EXCEPT ![last] = i, ![e] = NoIndex]
    BY <1>2, <2>1 DEF Remove, SwapAndPop
  <2>3. /\ q.data \in Seq(Data) /\ Len(q.data) = n - 1
        /\ q.entities \in Seq(Ents) /\ Len(q.entities) = n - 1
    BY <2>1, <2>2 DEF PoolOK, PoolShape
  <2>4. /\ DOMAIN q.sparse = DOMAIN p.sparse
        /\ \A x \in DOMAIN p.sparse :
             q.sparse[x] = IF x = e THEN NoIndex ELSE IF x = last THEN i ELSE p.sparse[x]
    BY <2>1, <2>2 DEF PoolOK, PoolShape
  <2>5. ASSUME NEW x \in DOMAIN p.sparse
        PROVE  q.sparse[x] \in 0 .. n - 1
    <3>1. CASE x = e
      BY <2>1, <2>4, <3>1 DEF NoIndex
    <3>2. CASE x # e /\ x = last
      BY <2>1, <2>4, <3>2
    <3>3. CASE x # e /\ x # last
      BY <2>1, <2>4, <3>3 DEF PoolOK, PoolShape, Consistent, NoIndex
    <3>4. QED BY <3>1, <3>2, <3>3
  <2>6. PoolShape(q, Ents, Data)
    BY <2>2, <2>3, <2>4, <2>5 DEF PoolOK, PoolShape
  <2>7. ASSUME NEW j \in 1 .. n - 1
        PROVE  /\ q.entities[j] \in DOMAIN q.sparse
               /\ q.sparse[q.entities[j]] = j \/ q.entities[j] \in S
    <3>1. CASE j = i
      <4>1. q.entities[j] = last
        BY <2>2, <3>1
      <4>2. last # e \/ last \in S
        BY <2>1, <3>1
      <4>3. QED BY <2>1, <2>4, <3>1, <4>1, <4>2
    <3>2. CASE j # i
      <4>1. /\ p.entities[j] \in DOMAIN p.sparse
            /\ p.sparse[p.entities[j]] = j \/ p.entities[j] \in S
        BY <2>1 DEF PoolOK, Consistent
      <4>2. (p.entities[j] # e /\ p.entities[j] # last) \/ p.entities[j] \in S
        BY <2>1, <3>2, <4>1
      <4>3. QED BY <2>2, <2>4, <3>2, <4>1, <4>2
    <3>3. QED BY <3>1, <3>2
  <2>8. ASSUME NEW x \in DOMAIN q.sparse, q.sparse[x] # NoIndex
        PROVE  q.entities[q.sparse[x]] = x
    <3>1. x \in DOMAIN p.sparse /\ x # e
      BY <2>4, <2>8
    <3>2. CASE x = last
      <4>1. q.sparse[x] = i /\ i \in 1 .. n - 1
        BY <2>1, <2>4, <3>1, <3>2
      <4>2. QED BY <2>2, <3>2, <4>1
    <3>3. CASE x # last
      <4>1. q.sparse[x] = p.sparse[x]
        BY <2>4, <3>1, <3>3
      <4>2. p.sparse[x] \in 1 .. n /\ p.entities[p.sparse[x]] = x
        BY <2>8, <3>1, <4>1 DEF PoolOK, PoolShape, Consistent, NoIndex
      <4>3. p.sparse[x] # n /\ p.sparse[x] # i
        BY <2>1, <3>1, <3>3, <4>2
      <4>4. QED BY <2>1, <2>2, <4>1, <4>2, <4>3
    <3>4. QED BY <3>2, <3>3
  <2>9. Owners(q) \ S = (Owners(p) \ {e}) \ S
    BY <2>1, <2>4 DEF Owners, NoIndex
  <2> HIDE DEF q
  <2>10. Consistent(q, S)
    BY <2>3, <2>6, <2>7, <2>8, ConsistentIntro
  <2>11. QED BY <2>6, <2>9, <2>10 DEF PoolOK, q
<1>3. QED BY <1>1, <1>2

\* A write through get changes neither the owners nor their positions.
LEMMA AssignOK ==
  ASSUME NEW Ents, NEW Data, NEW p, NEW S, PoolOK(p, Ents, Data, S), NEW e, NEW c \in Data, Has(p, e)
  PROVE  PoolOK(Assign(p, e, c), Ents, Data, S) /\ Owners(Assign(p, e, c)) = Owners(p)
<1> DEFINE q == Assign(p, e, c)
<1>0. p.sparse[e] \in 1 .. Len(p.data)
  BY DEF Has, PoolOK, PoolShape, NoIndex
<1>1. /\ q.entities = p.entities /\ q.sparse = p.sparse
      /\ q.data = [p.data EXCEPT ![p.sparse[e]] = c]
  BY DEF Assign
<1>2. q.data \in Seq(Data) /\ Len(q.data) = Len(p.data)
  BY <1>0, <1>1 DEF PoolOK, PoolShape
<1>3. QED BY <1>1, <1>2 DEF PoolOK, PoolShape, Consistent, Owners

\* The last position of an element that occurs once is its position.
LEMMA LastIndexUnique ==
  ASSUME NEW D, NEW s \in Seq(D), NEW k \in 1 .. Len(s),
         \A a \in 1 .. Len(s) : s[a] = s[k] => a = k
  PROVE  LastIndexOf(s, s[k]) = k
<1> DEFINE P(m) == s[m] = s[k] /\ \A l \in m+1 .. Len(s) : s[l] # s[k]
<1>1. Len(s) \in Nat
  OBVIOUS
<1>2. P(k)
  BY <1>1
<1>3. \A m \in 1 .. Len(s) : P(m) => m = k
  OBVIOUS
<1>4. LastIndexOf(s, s[k]) = CHOOSE m \in 1 .. Len(s) : P(m)
  BY DEF LastIndexOf
<1> HIDE DEF P
<1>5. QED BY <1>2, <1>3, <1>4

\* An element of a sequence has a last position, where it stands: among the
\* distances of its positions from the end there is a least one.
LEMMA LastIndexProper ==
  ASSUME NEW D, NEW s \in Seq(D), NEW k \in 1 .. Len(s)
  PROVE  LastIndexOf(s, s[k]) \in 1 .. Len(s) /\ s[LastIndexOf(s, s[k])] = s[k]
<1> DEFINE P(m) == s[m] = s[k] /\ \A l \in m+1 .. Len(s) : s[l] # s[k]
           n == Len(s)
           T == {d \in 0 .. n - 1 : s[n - d] = s[k]}
<1>1. n \in Nat
  OBVIOUS
<1>2. PICK d \in T : \A b \in T : ~(b < d)
  <2> DEFINE R == OpToRel(<, Nat)
  <2>1. n - k \in T
    BY <1>1
  <2>2. PICK d \in T : \A b \in T : <<b, d>> \notin R
    <3> HIDE DEF T
    <3>1. T \subseteq Nat
      BY <1>1 DEF T
    <3>2. QED BY <2>1, <3>1, NatLessThanWellFounded, WFMin
  <2>3. \A b \in T : b < d => <<b, d>> \in R
    BY <1>1 DEF OpToRel
  <2> HIDE DEF R, T
  <2>4. QED BY <2>2, <2>3
<1>3. n - d \in 1 .. n /\ s[n - d] = s[k]
  BY <1>1
<1>4. ASSUME NEW l \in n - d + 1 .. n, s[l] = s[k] PROVE FALSE
  <2>1. n - l \in T /\ n - l < d
    BY <1>1, <1>3, <1>4
  <2> HIDE DEF T
  <2>2. QED BY <1>2, <2>1
<1>5. P(n - d)
  BY <1>3, <1>4
<1>6. LastIndexOf(s, s[k]) = CHOOSE m \in 1 .. Len(s) : P(m)
  BY DEF LastIndexOf
<1> HIDE DEF P
<1>7. P(LastIndexOf(s, s[k])) /\ LastIndexOf(s, s[k]) \in 1 .. Len(s)
  BY <1>3, <1>5, <1>6
<1>8. QED BY <1>7 DEF P

\* Two rows of one entity, unless it is a stray, are the same row.
RowsApart(s, S) == \A a, b \in 1 .. Len(s) : s[a] = s[b] => a = b \/ s[a] \in S

\* The two lists a pool is read back from: parallel, and each entity once.
ListsOK(j, Ents, Data, S) ==
  /\ j.entities \in Seq(Ents)
  /\ j.components \in Seq(Data)
  /\ Len(j.entities) = Len(j.components)
  /\ RowsApart(j.entities, S)

NamedIn(s) == {s[k] : k \in 1 .. Len(s)}

\* Reading back dense vectors that name each entity once, strays apart, gives a
\* well-formed pool owned by exactly the entities named.
LEMMA DeserializeOK ==
  ASSUME NEW N \in Nat, NEW Data, NEW S, NEW j, ListsOK(j, 0 .. N, Data, S)
  PROVE  /\ PoolOK(Deserialize(j), 0 .. N, Data, S)
         /\ Owners(Deserialize(j)) = NamedIn(j.entities)
<1>0. /\ j.entities \in Seq(0 .. N) /\ j.components \in Seq(Data)
      /\ Len(j.entities) = Len(j.components) /\ RowsApart(j.entities, S)
  BY DEF ListsOK
<1> DEFINE q == Deserialize(j)
           n == Len(j.entities)
           D == UNION {0 .. j.entities[k] : k \in 1 .. n}
<1>1. /\ q.data = j.components /\ q.entities = j.entities
      /\ q.sparse = [x \in D |-> LastIndexOf(j.entities, x)]
  BY DEF Deserialize
<1>2. n \in Nat /\ \A k \in 1 .. n : j.entities[k] \in 0 .. N /\ j.entities[k] \in D
  <2>1. n \in Nat /\ \A k \in 1 .. n : j.entities[k] \in 0 .. N
    BY <1>0
  <2>2. ASSUME NEW k \in 1 .. n PROVE j.entities[k] \in D
    <3>1. j.entities[k] \in 0 .. j.entities[k]
      BY <2>1
    <3>2. QED BY <3>1
  <2>3. QED BY <2>1, <2>2
<1>3. D \subseteq 0 .. N
  BY <1>2
<1>4. ASSUME NEW k \in 1 .. n
      PROVE  /\ LastIndexOf(j.entities, j.entities[k]) \in 1 .. n
             /\ j.entities[LastIndexOf(j.entities, j.entities[k])] = j.entities[k]
             /\ LastIndexOf(j.entities, j.entities[k]) = k \/ j.entities[k] \in S
  <2>1. /\ LastIndexOf(j.entities, j.entities[k]) \in 1 .. n
        /\ j.entities[LastIndexOf(j.entities, j.entities[k])] = j.entities[k]
    BY <1>0, LastIndexProper
  <2>2. CASE j.entities[k] \notin S
    <3>1. \A a \in 1 .. Len(j.entities) : j.entities[a] = j.entities[k] => a = k
      BY <1>0, <2>2 DEF RowsApart
    <3>2. LastIndexOf(j.entities, j.entities[k]) = k
      BY <1>0, <3>1, LastIndexUnique
    <3>3. QED BY <2>1, <3>2
  <2>3. QED BY <2>1, <2>2
<1>5. ASSUME NEW x, \A k \in 1 .. n : j.entities[k] # x
      PROVE  LastIndexOf(j.entities, x) = NoIndex
  BY <1>5 DEF LastIndexOf
<1>6. ASSUME NEW x \in D
      PROVE  /\ q.sparse[x] \in 0 .. n
             /\ q.sparse[x] # NoIndex => j.entities[q.sparse[x]] = x
             /\ q.sparse[x] # NoIndex <=> \E k \in 1 .. n : j.entities[k] = x
  <2>1. q.sparse[x] = LastIndexOf(j.entities, x)
    BY <1>1
  <2>2. CASE \E k \in 1 .. n : j.entities[k] = x
    <3>1. PICK k \in 1 .. n : j.entities[k] = x
      BY <2>2
    <3>2. LastIndexOf(j.entities, x) \in 1 .. n /\ j.entities[LastIndexOf(j.entities, x)] = x
      BY <1>4, <3>1
    <3>3. QED BY <2>1, <3>1, <3>2 DEF NoIndex
  <2>3. CASE \A k \in 1 .. n : j.entities[k] # x
    BY <1>2, <1>5, <2>1, <2>3 DEF NoIndex
  <2>4. QED BY <2>2, <2>3
<1>7. PoolShape(q, 0 .. N, Data)
  BY <1>0, <1>1, <1>2, <1>3, <1>6 DEF PoolShape
<1> DOMAIN q.sparse = D
  BY <1>1
<1> HIDE DEF q, D
<1>8. Consistent(q, S)
  <2>1. ASSUME NEW k \in 1 .. Len(q.entities)
        PROVE  /\ q.entities[k] \in DOMAIN q.sparse
               /\ q.sparse[q.entities[k]] = k \/ q.entities[k] \in S
    BY <1>1, <1>2, <1>4
  <2>2. \A x \in DOMAIN q.sparse : q.sparse[x] # NoIndex => q.entities[q.sparse[x]] = x
    BY <1>1, <1>6
  <2>3. QED BY <1>7, <2>1, <2>2, ConsistentIntro
<1>9. Owners(q) = NamedIn(j.entities)
  BY <1>2, <1>6 DEF Owners, NamedIn
<1> USE DEF q
<1>10. QED BY <1>7, <1>8, <1>9 DEF PoolOK

-----------------------------------------------------------------------------
\* The registry.

\* The payloads of type t in a run with the mesh catalogue cat.
PayloadIn(t, cat) == IF t = MeshRenderer THEN 0 .. Len(cat) - 1 ELSE Values

\* The part of the invariant about the live scene, as a predicate on the values
\* a step changes together; S is the set of the strays.
SceneOK(ps, act, next, cat, S) ==
  /\ DOMAIN ps \subseteq Types
  /\ \A t \in DOMAIN ps : PoolOK(ps[t], Entity, PayloadIn(t, cat), S)
  /\ act \in Seq(Entity)
  /\ next \in 0 .. MaxID + 1
  /\ \A i, j \in 1 .. Len(act) : act[i] = act[j] => i = j
  /\ \A t \in DOMAIN ps : Owners(ps[t]) \subseteq {act[i] : i \in 1 .. Len(act)} \cup S
  /\ \A i \in 1 .. Len(act) : act[i] < next
  /\ S \subseteq Entity

DiskOK ==
  /\ disk = WholeFile(disk.content) \/ disk \in {NoFile, TornFile}
  /\ FileOK(disk.content, savedStrays)
  /\ savedStrays \subseteq Entity

\* The inductive invariant.
RegistryInv ==
  /\ running \in BOOLEAN
  /\ meshes \in Catalogues
  /\ SceneOK(pools, active, nextID, meshes, strays)
  /\ DiskOK
  /\ selected \in Entity \cup {NoEntity}

LEMMA InvAfter ==
  ASSUME running' \in BOOLEAN, meshes' \in Catalogues,
         SceneOK(pools', active', nextID', meshes', strays'), DiskOK',
         selected' \in Entity \cup {NoEntity}
  PROVE  RegistryInv'
BY DEF RegistryInv, SceneOK

\* A step that leaves the file alone leaves it well formed.
LEMMA DiskUnchanged ==
  ASSUME DiskOK, disk' = disk, savedStrays' = savedStrays
  PROVE  DiskOK'
BY DEF DiskOK

\* A function on 1..n is a sequence of length n.
LEMMA FunctionIsSequence ==
  ASSUME NEW S, NEW n \in Nat, NEW r \in [1 .. n -> S]
  PROVE  r \in Seq(S) /\ Len(r) = n
OBVIOUS

\* A cleared registry is a well-formed scene.
LEMMA ClearedOK ==
  ASSUME ClearRegistry
  PROVE  SceneOK(pools', active', nextID', meshes', strays')
BY RegistryAssumption DEF ClearRegistry, SceneOK, Entity

\* The constants the invariant depends on.
LEMMA TypesFacts ==
  /\ MaxID \in Nat
  /\ Restored \subseteq Types
  /\ Default \in Values
  /\ \A cat \in Catalogues : Len(cat) \in Nat \ {0} /\ cat \in Seq(MeshNames)
  /\ MeshRenderer \in Restored
BY RegistryAssumption DEF Restored, Types

\* Adding components to an entity that has none of them, or is a stray, keeps
\* every pool well formed.
LEMMA AddAllOK ==
  ASSUME NEW cat, NEW ps, DOMAIN ps \subseteq Types, NEW S,
         \A t \in DOMAIN ps : PoolOK(ps[t], Entity, PayloadIn(t, cat), S),
         NEW e \in Entity, NEW c, DOMAIN c \subseteq Types,
         \A t \in DOMAIN c : c[t] \in PayloadIn(t, cat),
         \A t \in DOMAIN c \cap DOMAIN ps : ~Has(ps[t], e) \/ e \in S
  PROVE  /\ DOMAIN AddAll(ps, e, c) \subseteq Types
         /\ \A t \in DOMAIN AddAll(ps, e, c) :
              /\ PoolOK(AddAll(ps, e, c)[t], Entity, PayloadIn(t, cat), S)
              /\ Owners(AddAll(ps, e, c)[t]) \subseteq {e} \cup (IF t \in DOMAIN ps THEN Owners(ps[t]) ELSE {})
<1> DEFINE qs == AddAll(ps, e, c)
<1>1. DOMAIN qs = DOMAIN ps \cup DOMAIN c
  BY DEF AddAll
<1>2. ASSUME NEW t \in DOMAIN qs
      PROVE  /\ PoolOK(qs[t], Entity, PayloadIn(t, cat), S)
             /\ Owners(qs[t]) \subseteq {e} \cup (IF t \in DOMAIN ps THEN Owners(ps[t]) ELSE {})
  <2>1. CASE t \in DOMAIN c
    <3>1. qs[t] = Add(Pool(ps, t), e, c[t])
      BY <1>1, <2>1 DEF AddAll
    <3>2. PoolOK(Pool(ps, t), Entity, PayloadIn(t, cat), S) /\ (~Has(Pool(ps, t), e) \/ e \in S)
      <4>1. CASE t \in DOMAIN ps
        BY <2>1, <4>1 DEF Pool
      <4>2. CASE t \notin DOMAIN ps
        <5>1. Pool(ps, t) = EmptyPool
          BY <4>2 DEF Pool
        <5>2. PoolOK(EmptyPool, Entity, PayloadIn(t, cat), S)
          BY EmptyPoolOK
        <5>3. ~Has(EmptyPool, e)
          BY DEF Has, EmptyPool
        <5>4. QED BY <5>1, <5>2, <5>3
      <4>3. QED BY <4>1, <4>2
    <3>3. c[t] \in PayloadIn(t, cat)
      BY <2>1
    <3>4. /\ PoolOK(Add(Pool(ps, t), e, c[t]), Entity, PayloadIn(t, cat), S)
          /\ Owners(Add(Pool(ps, t), e, c[t])) = Owners(Pool(ps, t)) \cup {e}
      BY <3>2, <3>3, AddOK, TypesFacts DEF Entity
    <3>5. Owners(Pool(ps, t)) = IF t \in DOMAIN ps THEN Owners(ps[t]) ELSE {}
      BY EmptyPoolOK DEF Pool
    <3>6. QED BY <3>1, <3>4, <3>5
  <2>2. CASE t \notin DOMAIN c
    BY <1>1, <2>2 DEF AddAll
  <2>3. QED BY <2>1, <2>2
<1>3. QED BY <1>1, <1>2

\* Asking for the pools of some types creates the missing ones, empty.
LEMMA TouchedOK ==
  ASSUME NEW cat, NEW ps, NEW S, DOMAIN ps \subseteq Types,
         \A t \in DOMAIN ps : PoolOK(ps[t], Entity, PayloadIn(t, cat), S),
         NEW U \in SUBSET Types
  PROVE  /\ DOMAIN Touched(ps, U) \subseteq Types
         /\ \A t \in DOMAIN Touched(ps, U) :
              /\ PoolOK(Touched(ps, U)[t], Entity, PayloadIn(t, cat), S)
              /\ Owners(Touched(ps, U)[t]) = IF t \in DOMAIN ps THEN Owners(ps[t]) ELSE {}
              /\ \A e : Has(Touched(ps, U)[t], e) => t \in DOMAIN ps /\ Has(ps[t], e)
<1> DEFINE qs == Touched(ps, U)
<1>1. DOMAIN qs = DOMAIN ps \cup U /\ \A t \in DOMAIN qs : qs[t] = Pool(ps, t)
  BY DEF Touched
<1> HIDE DEF qs
<1>2. ASSUME NEW t \in DOMAIN qs
      PROVE  /\ PoolOK(qs[t], Entity, PayloadIn(t, cat), S)
             /\ Owners(qs[t]) = IF t \in DOMAIN ps THEN Owners(ps[t]) ELSE {}
             /\ \A e : Has(qs[t], e) => t \in DOMAIN ps /\ Has(ps[t], e)
  <2>1. CASE t \in DOMAIN ps
    BY <1>1, <2>1 DEF Pool
  <2>2. CASE t \notin DOMAIN ps
    <3>1. qs[t] = EmptyPool
      BY <1>1, <2>2 DEF Pool
    <3>2. PoolOK(EmptyPool, Entity, PayloadIn(t, cat), S) /\ Owners(EmptyPool) = {}
      BY EmptyPoolOK
    <3>3. \A e : ~Has(EmptyPool, e)
      BY DEF Has, EmptyPool
    <3>4. QED BY <2>2, <3>1, <3>2, <3>3
  <2>3. QED BY <2>1, <2>2
<1>3. QED BY <1>1, <1>2 DEF qs

\* A step that only asks for pools changes nothing the invariant speaks of.
LEMMA TouchOK ==
  ASSUME RegistryInv, NEW U \in SUBSET Types,
         pools' = Touched(pools, U), selected' \in Entity \cup {NoEntity},
         UNCHANGED <<running, active, nextID, meshes, disk, strays, savedStrays>>
  PROVE  RegistryInv'
<1>0. SceneOK(pools, active, nextID, meshes, strays) /\ DiskOK /\ meshes \in Catalogues
  BY DEF RegistryInv
<1>1. /\ DOMAIN pools' \subseteq Types
      /\ \A u \in DOMAIN pools' :
           /\ PoolOK(pools'[u], Entity, PayloadIn(u, meshes), strays)
           /\ Owners(pools'[u]) = IF u \in DOMAIN pools THEN Owners(pools[u]) ELSE {}
  <2>1. /\ DOMAIN pools \subseteq Types
        /\ \A u \in DOMAIN pools : PoolOK(pools[u], Entity, PayloadIn(u, meshes), strays)
    BY <1>0 DEF SceneOK
  <2>2. QED BY <2>1, TouchedOK
<1>2. \A u \in DOMAIN pools' : Owners(pools'[u]) \subseteq {active[i] : i \in 1 .. Len(active)} \cup strays
  <2>1. \A u \in DOMAIN pools : Owners(pools[u]) \subseteq {active[i] : i \in 1 .. Len(active)} \cup strays
    BY <1>0 DEF SceneOK
  <2>2. QED BY <1>1, <2>1
<1>3. SceneOK(pools', active', nextID', meshes', strays')
  <2>1. SceneOK(pools', active, nextID, meshes, strays)
    BY <1>0, <1>1, <1>2 DEF SceneOK
  <2>2. QED BY <2>1
<1>4. DiskOK' /\ running' \in BOOLEAN
  BY <1>0, DiskUnchanged DEF RegistryInv
<1>5. QED BY <1>0, <1>3, <1>4, InvAfter

LEMMA VisitOK ==
  ASSUME RegistryInv, NEW t \in Types, Visit(t)
  PROVE  RegistryInv'
<1>1. {t} \in SUBSET Types /\ selected \in Entity \cup {NoEntity}
  BY DEF RegistryInv
<1>2. QED BY <1>1, TouchOK DEF Visit

LEMMA PickOK ==
  ASSUME RegistryInv, NEW e \in Entity \cup {NoEntity}, Pick(e)
  PROVE  RegistryInv'
<1>1. {Bounds} \in SUBSET Types
  BY DEF Types
<1>2. QED BY <1>1, TouchOK DEF Pick

LEMMA SelectOK ==
  ASSUME RegistryInv, NEW e \in Entity, Select(e)
  PROVE  RegistryInv'
<1>1. SceneOK(pools', active', nextID', meshes', strays') /\ meshes' \in Catalogues
  BY DEF RegistryInv, Select
<1>2. DiskOK' /\ running' \in BOOLEAN
  BY DiskUnchanged DEF RegistryInv, Select
<1>3. QED BY <1>1, <1>2, InvAfter DEF Select

\* The ids the registry knows of, for the steps that end the process.
LEMMA ExitOK ==
  ASSUME Exit
  PROVE  /\ SceneOK(pools', active', nextID', meshes', strays')
         /\ running' = FALSE /\ selected' \in Entity \cup {NoEntity}
BY ClearedOK DEF Exit

LEMMA SpawnOK ==
  ASSUME RegistryInv, NEW m \in 0 .. Len(meshes) - 1, NEW v \in Values, Spawn(m, v)
  PROVE  RegistryInv'
<1>0. SceneOK(pools, active, nextID, meshes, strays) /\ DiskOK /\ meshes \in Catalogues
  BY DEF RegistryInv
<1>1. CASE meshes[m + 1] \in EmptyMeshes
  <2>1. /\ SceneOK(pools', active', nextID', meshes', strays')
        /\ running' = FALSE /\ selected' \in Entity \cup {NoEntity}
    BY <1>1, ExitOK DEF Spawn
  <2>2. disk' = disk /\ savedStrays' = savedStrays /\ meshes' = meshes
    BY DEF Spawn
  <2>3. DiskOK' /\ meshes' \in Catalogues
    BY <1>0, <2>2, DiskUnchanged
  <2>4. QED BY <2>1, <2>3, InvAfter
<1>2. CASE meshes[m + 1] \notin EmptyMeshes
  <2> DEFINE c == [t \in Restored |->
                     IF t = MeshRenderer THEN m ELSE IF t = Bounds THEN Default ELSE v]
  <2>1. /\ nextID \in Entity /\ nextID' = nextID + 1
        /\ active' = Append(active, nextID)
        /\ pools' = AddAll(pools, nextID, c)
        /\ running' = running /\ meshes' = meshes /\ disk' = disk
        /\ selected' = selected /\ strays' = strays /\ savedStrays' = savedStrays
    <3>1. nextID \in 0 .. MaxID + 1 /\ nextID <= MaxID
      BY <1>0 DEF Spawn, SceneOK
    <3>2. nextID \in Entity
      BY <3>1, RegistryAssumption DEF Entity
    <3>3. QED BY <1>2, <3>2 DEF Spawn
  <2>2. \A t \in DOMAIN pools : ~Has(pools[t], nextID) \/ nextID \in strays
    BY <1>0, <2>1 DEF SceneOK, Owners, Has, Entity
  <2>3. /\ DOMAIN c \subseteq Types
        /\ \A t \in DOMAIN c : c[t] \in PayloadIn(t, meshes)
    BY <1>0, TypesFacts, RegistryAssumption DEF PayloadIn
  <2> HIDE DEF c
  <2>4. /\ DOMAIN pools' \subseteq Types
        /\ \A t \in DOMAIN pools' :
             /\ PoolOK(pools'[t], Entity, PayloadIn(t, meshes), strays)
             /\ Owners(pools'[t]) \subseteq {nextID} \cup (IF t \in DOMAIN pools THEN Owners(pools[t]) ELSE {})
    <3>1. /\ DOMAIN pools \subseteq Types
          /\ \A t \in DOMAIN pools : PoolOK(pools[t], Entity, PayloadIn(t, meshes), strays)
      BY <1>0 DEF SceneOK
    <3>2. \A t \in DOMAIN c \cap DOMAIN pools : ~Has(pools[t], nextID) \/ nextID \in strays
      BY <2>2
    <3>3. QED BY <2>1, <2>3, <3>1, <3>2, AddAllOK
  <2>5. /\ active' \in Seq(Entity)
        /\ Len(active') = Len(active) + 1
        /\ \A i \in 1 .. Len(active) : active'[i] = active[i]
        /\ active'[Len(active) + 1] = nextID
    BY <1>0, <2>1 DEF SceneOK
  <2>6. nextID' \in 0 .. MaxID + 1 /\ \A i \in 1 .. Len(active') : active'[i] < nextID'
    <3>1. \A i \in 1 .. Len(active) : active[i] < nextID /\ active[i] \in Nat
      BY <1>0, TypesFacts DEF SceneOK, Entity
    <3>2. Len(active) \in Nat /\ nextID \in 0 .. MaxID
      BY <1>0, <2>1 DEF SceneOK, Entity
    <3>3. ASSUME NEW i \in 1 .. Len(active') PROVE active'[i] < nextID'
      BY <2>1, <2>5, <3>1, <3>2, <3>3, TypesFacts
    <3>4. QED BY <2>1, <3>2, <3>3, TypesFacts
  <2>7. \A i, j \in 1 .. Len(active') : active'[i] = active'[j] => i = j
    BY <1>0, <2>5 DEF SceneOK, Entity
  <2>8. {nextID} \cup {active[i] : i \in 1 .. Len(active)} \subseteq {active'[i] : i \in 1 .. Len(active')}
    <3>1. ASSUME NEW i \in 1 .. Len(active) PROVE active[i] \in {active'[k] : k \in 1 .. Len(active')}
      <4>1. i \in 1 .. Len(active') /\ active'[i] = active[i]
        BY <1>0, <2>5 DEF SceneOK
      <4>2. QED BY <4>1
    <3>2. Len(active) + 1 \in 1 .. Len(active')
      BY <1>0, <2>5 DEF SceneOK
    <3>3. QED BY <2>5, <3>1, <3>2
  <2>9. \A t \in DOMAIN pools' : Owners(pools'[t]) \subseteq {active'[i] : i \in 1 .. Len(active')} \cup strays
    BY <1>0, <2>4, <2>8 DEF SceneOK
  <2>10. SceneOK(pools', active', nextID', meshes', strays')
    BY <1>0, <2>1, <2>4, <2>5, <2>6, <2>7, <2>9 DEF SceneOK
  <2>11. DiskOK' /\ running' \in BOOLEAN /\ selected' \in Entity \cup {NoEntity}
    BY <1>0, <2>1, DiskUnchanged DEF RegistryInv
  <2>12. QED BY <1>0, <2>1, <2>10, <2>11, InvAfter
<1>3. QED BY <1>1, <1>2

\* The panel adds a type the entity lacks; the entity is listed, or is a stray
\* from then on.
LEMMA AttachOK ==
  ASSUME RegistryInv, NEW e \in Entity, NEW t \in Types, Attach(e, t)
  PROVE  RegistryInv'
<1> DEFINE c == [u \in {t} |-> IF t = MeshRenderer THEN 0 ELSE Default]
           ts == Touched(pools, Types)
           S == strays'
<1>0. SceneOK(pools, active, nextID, meshes, strays) /\ DiskOK /\ meshes \in Catalogues
  BY DEF RegistryInv
<1>1. /\ pools' = AddAll(ts, e, c)
      /\ strays \subseteq S /\ S \subseteq strays \cup {e}
      /\ e \in {active[i] : i \in 1 .. Len(active)} \cup S
      /\ active' = active /\ nextID' = nextID /\ meshes' = meshes
      /\ running' = running /\ disk' = disk
      /\ selected' = selected /\ savedStrays' = savedStrays
  BY DEF Attach, ActiveSet
<1>2. DOMAIN c = {t} /\ c[t] \in PayloadIn(t, meshes)
  BY <1>0, TypesFacts DEF PayloadIn
<1> HIDE DEF S
<1>3. /\ DOMAIN ts \subseteq Types
      /\ \A u \in DOMAIN ts :
           /\ PoolOK(ts[u], Entity, PayloadIn(u, meshes), S)
           /\ Owners(ts[u]) = IF u \in DOMAIN pools THEN Owners(pools[u]) ELSE {}
           /\ Has(ts[u], e) => u \in DOMAIN pools /\ Has(pools[u], e)
  <2>1. /\ DOMAIN pools \subseteq Types
        /\ \A u \in DOMAIN pools : PoolOK(pools[u], Entity, PayloadIn(u, meshes), S)
    BY <1>0, <1>1, MoreStrays DEF SceneOK
  <2>2. Types \in SUBSET Types
    OBVIOUS
  <2>3. QED BY <2>1, <2>2, TouchedOK
<1> HIDE DEF c, ts
<1>4. \A u \in DOMAIN c \cap DOMAIN ts : ~Has(ts[u], e) \/ e \in S
  BY <1>2, <1>3 DEF Attach, HasComponent
<1>5. /\ DOMAIN pools' \subseteq Types
      /\ \A u \in DOMAIN pools' :
           /\ PoolOK(pools'[u], Entity, PayloadIn(u, meshes), S)
           /\ Owners(pools'[u]) \subseteq {e} \cup (IF u \in DOMAIN ts THEN Owners(ts[u]) ELSE {})
  <2>1. DOMAIN c \subseteq Types /\ \A u \in DOMAIN c : c[u] \in PayloadIn(u, meshes)
    BY <1>2
  <2>2. \A u \in DOMAIN ts : PoolOK(ts[u], Entity, PayloadIn(u, meshes), S)
    BY <1>3
  <2>3. DOMAIN ts \subseteq Types
    BY <1>3
  <2>4. QED BY <1>1, <1>4, <2>1, <2>2, <2>3, AddAllOK
<1>6. \A u \in DOMAIN pools' : Owners(pools'[u]) \subseteq {active[i] : i \in 1 .. Len(active)} \cup S
  <2>1. \A u \in DOMAIN pools : Owners(pools[u]) \subseteq {active[i] : i \in 1 .. Len(active)} \cup S
    BY <1>0, <1>1 DEF SceneOK
  <2>2. QED BY <1>1, <1>3, <1>5, <2>1
<1>7. SceneOK(pools', active', nextID', meshes', strays')
  <2>1. S \subseteq Entity
    BY <1>0, <1>1 DEF SceneOK
  <2>2. SceneOK(pools', active, nextID, meshes, S)
    BY <1>0, <1>5, <1>6, <2>1 DEF SceneOK
  <2>3. QED BY <1>1, <2>2 DEF S
<1>8. DiskOK' /\ running' \in BOOLEAN /\ selected' \in Entity \cup {NoEntity}
  BY <1>0, <1>1, DiskUnchanged DEF RegistryInv
<1>9. QED BY <1>0, <1>1, <1>7, <1>8, InvAfter

LEMMA EditOK ==
  ASSUME RegistryInv, NEW e \in Entity, NEW t \in Plain, NEW v \in Values, Edit(e, t, v)
  PROVE  RegistryInv'
<1>0. SceneOK(pools, active, nextID, meshes, strays) /\ DiskOK /\ meshes \in Catalogues
  BY DEF RegistryInv
<1>1. /\ t \in DOMAIN pools /\ Has(pools[t], e)
      /\ pools' = [pools EXCEPT ![t] = Assign(pools[t], e, v)]
      /\ active' = active /\ nextID' = nextID /\ meshes' = meshes
      /\ running' = running /\ disk' = disk
      /\ selected' = selected /\ strays' = strays /\ savedStrays' = savedStrays
  BY DEF Edit, HasComponent
<1>2. v \in PayloadIn(t, meshes)
  BY RegistryAssumption DEF PayloadIn
<1>3. /\ PoolOK(Assign(pools[t], e, v), Entity, PayloadIn(t, meshes), strays)
      /\ Owners(Assign(pools[t], e, v)) = Owners(pools[t])
  BY <1>0, <1>1, <1>2, AssignOK DEF SceneOK
<1>4. /\ DOMAIN pools' = DOMAIN pools
      /\ \A u \in DOMAIN pools : pools'[u] = IF u = t THEN Assign(pools[t], e, v) ELSE pools[u]
  BY <1>1
<1>5. SceneOK(pools', active', nextID', meshes', strays')
  BY <1>0, <1>1, <1>3, <1>4 DEF SceneOK
<1>6. DiskOK' /\ running' \in BOOLEAN /\ selected' \in Entity \cup {NoEntity}
  BY <1>0, <1>1, DiskUnchanged DEF RegistryInv
<1>7. QED BY <1>0, <1>1, <1>5, <1>6, InvAfter

\* Removing an element of a vector without duplicates by swap-and-pop leaves
\* the others, each once.
LEMMA SwapAndPopOK ==
  ASSUME NEW S, NEW s \in Seq(S), NEW k \in 1 .. Len(s),
         \A i, j \in 1 .. Len(s) : s[i] = s[j] => i = j
  PROVE  /\ SwapAndPop(s, k) \in Seq(S)
         /\ Len(SwapAndPop(s, k)) = Len(s) - 1
         /\ \A i, j \in 1 .. Len(s) - 1 : SwapAndPop(s, k)[i] = SwapAndPop(s, k)[j] => i = j
         /\ {SwapAndPop(s, k)[i] : i \in 1 .. Len(s) - 1} = {s[i] : i \in 1 .. Len(s)} \ {s[k]}
<1> DEFINE n == Len(s)
           q == SwapAndPop(s, k)
<1>1. /\ n \in Nat
      /\ q = [j \in 1 .. n - 1 |-> IF j = k THEN s[n] ELSE s[j]]
  BY DEF SwapAndPop
<1>2. q \in Seq(S) /\ Len(q) = n - 1
  BY <1>1
<1>3. \A i, j \in 1 .. n - 1 : q[i] = q[j] => i = j
  BY <1>1
<1>4. ASSUME NEW i \in 1 .. n - 1 PROVE q[i] \in {s[j] : j \in 1 .. n} \ {s[k]}
  BY <1>1
<1>5. ASSUME NEW j \in 1 .. n, s[j] # s[k] PROVE s[j] \in {q[i] : i \in 1 .. n - 1}
  <2>1. CASE j = n
    <3>1. k \in 1 .. n - 1 /\ q[k] = s[j]
      BY <1>1, <1>5, <2>1
    <3>2. QED BY <3>1
  <2>2. CASE j # n
    <3>1. j \in 1 .. n - 1 /\ q[j] = s[j]
      BY <1>1, <1>5, <2>2
    <3>2. QED BY <3>1
  <2>3. QED BY <2>1, <2>2
<1> HIDE DEF q
<1>6. {q[i] : i \in 1 .. n - 1} = {s[j] : j \in 1 .. n} \ {s[k]}
  <2>1. {q[i] : i \in 1 .. n - 1} \subseteq {s[j] : j \in 1 .. n} \ {s[k]}
    BY <1>4
  <2>2. ASSUME NEW x \in {s[j] : j \in 1 .. n} \ {s[k]}
        PROVE  x \in {q[i] : i \in 1 .. n - 1}
    <3>1. PICK j \in 1 .. n : x = s[j]
      BY <2>2
    <3>2. QED BY <1>5, <2>2, <3>1
  <2>3. QED BY <2>1, <2>2
<1>7. QED BY <1>2, <1>3, <1>6 DEF q

LEMMA DestroyOK ==
  ASSUME RegistryInv, NEW e \in Entity, Destroy(e)
  PROVE  RegistryInv'
<1>0. SceneOK(pools, active, nextID, meshes, strays) /\ DiskOK /\ meshes \in Catalogues
  BY DEF RegistryInv
<1>1. /\ pools' = [t \in DOMAIN pools |-> Remove(pools[t], e)]
      /\ nextID' = nextID /\ meshes' = meshes /\ running' = running /\ disk' = disk
      /\ selected' = NoEntity /\ strays' = strays /\ savedStrays' = savedStrays
  BY DEF Destroy
<1>2. PICK k \in 1 .. Len(active) : active[k] = e /\ active' = SwapAndPop(active, k)
  BY DEF Destroy, PositionsOf
<1>3. /\ active' \in Seq(Entity)
      /\ Len(active') = Len(active) - 1
      /\ \A i, j \in 1 .. Len(active') : active'[i] = active'[j] => i = j
      /\ {active'[i] : i \in 1 .. Len(active')} = {active[i] : i \in 1 .. Len(active)} \ {e}
  <2>1. /\ active \in Seq(Entity) /\ \A i, j \in 1 .. Len(active) : active[i] = active[j] => i = j
    BY <1>0 DEF SceneOK
  <2>2. /\ active' \in Seq(Entity)
        /\ Len(active') = Len(active) - 1
        /\ \A i, j \in 1 .. Len(active) - 1 : active'[i] = active'[j] => i = j
        /\ {active'[i] : i \in 1 .. Len(active) - 1} = {active[i] : i \in 1 .. Len(active)} \ {active[k]}
    <3> DEFINE r == SwapAndPop(active, k)
    <3>1. /\ r \in Seq(Entity)
          /\ Len(r) = Len(active) - 1
          /\ \A i, j \in 1 .. Len(active) - 1 : r[i] = r[j] => i = j
          /\ {r[i] : i \in 1 .. Len(active) - 1} = {active[i] : i \in 1 .. Len(active)} \ {active[k]}
      BY <2>1, SwapAndPopOK, Zenon
    <3>2. active' = r
      BY <1>2
    <3> HIDE DEF r
    <3>3. QED BY <3>1, <3>2
  <2>3. QED BY <1>2, <2>2
<1>4. /\ DOMAIN pools' = DOMAIN pools
      /\ \A t \in DOMAIN pools : /\ PoolOK(pools'[t], Entity, PayloadIn(t, meshes), strays)
                                 /\ Owners(pools'[t]) \ strays = (Owners(pools[t]) \ {e}) \ strays
  BY <1>0, <1>1, RemoveOK DEF SceneOK
<1>5. ASSUME NEW i \in 1 .. Len(active') PROVE active'[i] < nextID'
  <2>1. active'[i] \in {active[j] : j \in 1 .. Len(active)}
    BY <1>3
  <2>2. \A x \in {active[j] : j \in 1 .. Len(active)} : x < nextID
    BY <1>0 DEF SceneOK
  <2>3. QED BY <1>1, <2>1, <2>2
<1>6. SceneOK(pools', active', nextID', meshes', strays')
  <2>1. \A t \in DOMAIN pools' : Owners(pools'[t]) \subseteq {active'[i] : i \in 1 .. Len(active')} \cup strays
    <3> DEFINE A == {active[i] : i \in 1 .. Len(active)}
               B == {active'[i] : i \in 1 .. Len(active')}
    <3>1. B = A \ {e}
      BY <1>3
    <3>2. \A t \in DOMAIN pools : Owners(pools[t]) \subseteq A \cup strays
      BY <1>0 DEF SceneOK
    <3> HIDE DEF A, B
    <3>3. \A t \in DOMAIN pools' : Owners(pools'[t]) \subseteq B \cup strays
      BY <1>4, <3>1, <3>2
    <3>4. QED BY <3>3 DEF B
  <2>2. \A t \in DOMAIN pools' : PoolOK(pools'[t], Entity, PayloadIn(t, meshes), strays)
    BY <1>4
  <2>3. DOMAIN pools' \subseteq Types /\ nextID' \in 0 .. MaxID + 1 /\ strays \subseteq Entity
    BY <1>0, <1>1, <1>4 DEF SceneOK
  <2>4. QED BY <1>1, <1>3, <1>5, <2>1, <2>2, <2>3 DEF SceneOK
<1>7. DiskOK' /\ running' \in BOOLEAN /\ selected' \in Entity \cup {NoEntity}
  BY <1>0, <1>1, DiskUnchanged DEF RegistryInv
<1>8. QED BY <1>0, <1>1, <1>6, <1>7, InvAfter

\* A saved file names each entity once in a pool, strays apart, because the pools
\* do.
LEMMA SaveOK ==
  ASSUME RegistryInv, Save
  PROVE  RegistryInv'
<1>0. SceneOK(pools, active, nextID, meshes, strays) /\ DiskOK /\ meshes \in Catalogues
  BY DEF RegistryInv
<1>1. /\ running' = running /\ pools' = pools /\ active' = active /\ nextID' = nextID
      /\ meshes' = meshes /\ strays' = strays /\ selected' = selected
  BY DEF Save
<1> SUFFICES DiskOK'
  BY <1>0, <1>1, InvAfter DEF RegistryInv
<1>2. CASE disk' = TornFile /\ savedStrays' = {}
  BY <1>2 DEF DiskOK, FileOK, TornFile, WholeFile
<1>3. CASE disk' = WholeFile([t \in DOMAIN pools |-> Saved(t)]) /\ savedStrays' = strays
  <2>1. disk'.content = [t \in DOMAIN pools |-> Saved(t)] /\ disk' = WholeFile(disk'.content)
    BY <1>3 DEF WholeFile
  <2>2. ASSUME NEW t \in DOMAIN pools
        PROVE  /\ Saved(t).entities \in Seq(Entity)
               /\ Saved(t).components \in Seq(IF t = MeshRenderer THEN MeshNames \cup {""} ELSE Values)
               /\ Len(Saved(t).entities) = Len(Saved(t).components)
               /\ RowsApart(Saved(t).entities, strays)
    <3>1. /\ pools[t].entities \in Seq(Entity)
          /\ pools[t].data \in Seq(PayloadIn(t, meshes))
          /\ Len(pools[t].entities) = Len(pools[t].data)
          /\ RowsApart(pools[t].entities, strays)
      BY <1>0 DEF SceneOK, PoolOK, PoolShape, Consistent, RowsApart
    <3>2. CASE t # MeshRenderer
      BY <3>1, <3>2 DEF Saved, Serialize, PayloadIn
    <3>3. CASE t = MeshRenderer
      <4>1. \A id \in Nat : MeshName(id) \in MeshNames \cup {""}
        <5>1. meshes \in Seq(MeshNames)
          BY <1>0, RegistryAssumption
        <5>2. \A i \in 1 .. Len(meshes) : meshes[i] \in MeshNames
          BY <5>1
        <5>3. QED BY <5>2 DEF MeshName
      <4>2. Saved(t).entities = pools[t].entities
        BY <3>3 DEF Saved
      <4>3. Saved(t).components = [i \in 1 .. Len(pools[t].data) |-> MeshName(pools[t].data[i])]
        BY <3>3 DEF Saved
      <4>4. /\ Saved(t).components \in Seq(MeshNames \cup {""})
            /\ Len(Saved(t).components) = Len(pools[t].data)
        <5>1. pools[t].data \in Seq(Nat)
          BY <3>1, <3>3 DEF PayloadIn
        <5> DEFINE d == pools[t].data
                   r == [i \in 1 .. Len(d) |-> MeshName(d[i])]
        <5>2. \A i \in 1 .. Len(d) : d[i] \in Nat
          BY <5>1
        <5>3. \A i \in 1 .. Len(d) : MeshName(d[i]) \in MeshNames \cup {""}
          BY <4>1, <5>2
        <5>4. Len(d) \in Nat
          BY <5>1
        <5> HIDE DEF d
        <5>5. r \in [1 .. Len(d) -> MeshNames \cup {""}]
          BY <5>3
        <5> HIDE DEF r
        <5>6. r \in Seq(MeshNames \cup {""}) /\ Len(r) = Len(d)
          BY <5>4, <5>5, FunctionIsSequence
        <5>7. Saved(t).components = r
          BY <4>3 DEF d, r
        <5>8. QED BY <5>6, <5>7 DEF d
      <4>5. /\ Saved(t).entities \in Seq(Entity)
            /\ Len(Saved(t).entities) = Len(Saved(t).components)
        BY <3>1, <4>2, <4>4
      <4>6. RowsApart(Saved(t).entities, strays)
        BY <3>1, <4>2
      <4>7. Saved(t).components \in
              Seq(IF t = MeshRenderer THEN MeshNames \cup {""} ELSE Values)
        BY <3>3, <4>4
      <4>8. QED BY <4>5, <4>6, <4>7
    <3>4. QED BY <3>2, <3>3
  <2>3. FileOK(disk'.content, strays)
    <3>1. DOMAIN disk'.content = DOMAIN pools /\ DOMAIN pools \subseteq Types
      BY <1>0, <2>1 DEF SceneOK
    <3>2. \A t \in DOMAIN pools : disk'.content[t] = Saved(t)
      BY <2>1
    <3> DEFINE f == disk'.content
    <3> HIDE DEF f
    <3>3. ASSUME NEW t \in DOMAIN f
          PROVE  /\ f[t].entities \in Seq(Entity)
                 /\ f[t].components \in Seq(IF t = MeshRenderer THEN MeshNames \cup {""} ELSE Values)
                 /\ Len(f[t].entities) = Len(f[t].components)
                 /\ RowsApart(f[t].entities, strays)
      <4>1. t \in DOMAIN pools /\ f[t] = Saved(t)
        BY <3>1, <3>2 DEF f
      <4>2. QED BY <2>2, <4>1
    <3>4. FileOK(f, strays)
      BY <3>1, <3>3 DEF FileOK, RowsApart, f
    <3>5. QED BY <3>4 DEF f
  <2>4. strays \subseteq Entity
    BY <1>0 DEF SceneOK
  <2>5. QED BY <1>3, <2>1, <2>3, <2>4 DEF DiskOK
<1>4. QED BY <1>2, <1>3 DEF Save

\* The id a restored mesh gets is a position of this run's catalogue.
LEMMA MeshIDOK ==
  ASSUME NEW cat, Len(cat) \in Nat, NEW name \in {cat[k] : k \in 1 .. Len(cat)}
  PROVE  MeshID(cat, name) \in 0 .. Len(cat) - 1
<1>1. \E i \in 1 .. Len(cat) : cat[i] = name
  OBVIOUS
<1>2. (CHOOSE i \in 1 .. Len(cat) : cat[i] = name) \in 1 .. Len(cat)
  BY <1>1
<1>3. QED BY <1>2 DEF MeshID

\* Dropping the rows whose mesh is unknown leaves a pool's two lists parallel and
\* the owners distinct, strays apart.
LEMMA ResolveOK ==
  ASSUME NEW file, NEW S, FileOK(file, S), NEW cat \in Catalogues,
         MeshRenderer \in DOMAIN file, NEW rows \in Resolvable(file, cat)
  PROVE  ListsOK(Resolve(file[MeshRenderer], cat, rows), Entity, 0 .. Len(cat) - 1, S)
<1> DEFINE f == file[MeshRenderer]
           names == {cat[k] : k \in 1 .. Len(cat)}
           row == {i \in 1 .. Len(f.components) : f.components[i] \in names}
           m == Cardinality(row)
           j == Resolve(f, cat, rows)
<1>1. /\ f.entities \in Seq(Entity)
      /\ Len(f.entities) = Len(f.components)
      /\ Len(f.components) \in Nat
      /\ RowsApart(f.entities, S)
  <2>1. /\ file[MeshRenderer].entities \in Seq(Entity)
        /\ file[MeshRenderer].components \in Seq(MeshNames \cup {""})
        /\ Len(file[MeshRenderer].entities) = Len(file[MeshRenderer].components)
        /\ RowsApart(file[MeshRenderer].entities, S)
    BY Zenon DEF FileOK, RowsApart
  <2>2. Len(file[MeshRenderer].components) \in Nat
    <3>1. \A D, s : s \in Seq(D) => Len(s) \in Nat
      OBVIOUS
    <3>2. QED BY <2>1, <3>1, Zenon
  <2>3. QED BY <2>1, <2>2
<1>2. m \in Nat
  <2>1. IsFiniteSet(1 .. Len(f.components))
    BY <1>1, FS_Interval
  <2>2. IsFiniteSet(row)
    BY <2>1, FS_Subset
  <2>3. QED BY <2>2, FS_CardinalityType
<1>3. /\ rows \in [1 .. m -> row]
      /\ \A a, b \in 1 .. m : a < b => rows[a] < rows[b]
  BY DEF Resolvable
<1>4. \A k \in 1 .. m : rows[k] \in 1 .. Len(f.components) /\ f.components[rows[k]] \in names
  BY <1>3
<1>5. Len(cat) \in Nat
  BY TypesFacts
<1> HIDE DEF row, m, f, names
<1>6. \A k \in 1 .. m : MeshID(cat, f.components[rows[k]]) \in 0 .. Len(cat) - 1
  BY <1>4, <1>5, MeshIDOK DEF names
<1>7. /\ j.entities = [k \in 1 .. m |-> f.entities[rows[k]]]
      /\ j.components = [k \in 1 .. m |-> MeshID(cat, f.components[rows[k]])]
  BY <1>3 DEF Resolve
<1>8. j.entities \in [1 .. m -> Entity]
  BY <1>1, <1>4, <1>7
<1>9. j.components \in [1 .. m -> 0 .. Len(cat) - 1]
  BY <1>6, <1>7
<1>10. \A a, b \in 1 .. m : j.entities[a] = j.entities[b] => a = b \/ j.entities[a] \in S
  <2> SUFFICES ASSUME NEW a \in 1 .. m, NEW b \in 1 .. m,
                      j.entities[a] = j.entities[b], j.entities[a] \notin S
               PROVE  a = b
    OBVIOUS
  <2>1. f.entities[rows[a]] = f.entities[rows[b]] /\ f.entities[rows[a]] \notin S
    BY <1>7
  <2>2. rows[a] = rows[b]
    BY <1>1, <1>4, <2>1 DEF RowsApart
  <2>3. rows[a] \in Nat /\ ~(a < b) /\ ~(b < a)
    BY <1>1, <1>3, <1>4, <2>2
  <2>4. QED BY <1>2, <2>3
<1> HIDE DEF j
<1>11. /\ j.entities \in Seq(Entity) /\ Len(j.entities) = m
       /\ j.components \in Seq(0 .. Len(cat) - 1) /\ Len(j.components) = m
  BY <1>2, <1>8, <1>9, FunctionIsSequence
<1>12. RowsApart(j.entities, S)
  BY <1>10, <1>11 DEF RowsApart
<1>13. QED BY <1>11, <1>12 DEF ListsOK, j, f

\* The pools load leaves behind are well formed and owned by the entities that
\* their dense vectors name.
RestoredOK(ps, file, cat, S) ==
  /\ DOMAIN ps = Restored \cap DOMAIN file
  /\ \A t \in DOMAIN ps :
       /\ PoolOK(ps[t], Entity, PayloadIn(t, cat), S)
       /\ Owners(ps[t]) = NamedIn(ps[t].entities)

LEMMA RestoredPoolsOK ==
  ASSUME NEW file, NEW S, FileOK(file, S), NEW cat \in Catalogues, NEW rows \in Resolvable(file, cat),
         NEW ps, ps = RestoredPools(file, cat, rows)
  PROVE  RestoredOK(ps, file, cat, S)
<1>1. DOMAIN ps = Restored \cap DOMAIN file
  BY DEF RestoredPools
<1>2. ASSUME NEW t \in DOMAIN ps
      PROVE  /\ PoolOK(ps[t], Entity, PayloadIn(t, cat), S)
             /\ Owners(ps[t]) = NamedIn(ps[t].entities)
  <2>1. t \in DOMAIN file /\ t \in Restored
    BY <1>1
  <2> DEFINE j == IF t = MeshRenderer THEN Resolve(file[t], cat, rows) ELSE file[t]
  <2>2. ps[t] = Deserialize(j)
    BY <1>1 DEF RestoredPools
  <2>3. ListsOK(j, Entity, PayloadIn(t, cat), S)
    <3>1. CASE t = MeshRenderer
      <4>1. j = Resolve(file[MeshRenderer], cat, rows) /\ MeshRenderer \in DOMAIN file
        BY <2>1, <3>1
      <4>2. PayloadIn(t, cat) = 0 .. Len(cat) - 1
        BY <3>1 DEF PayloadIn
      <4>3. ListsOK(Resolve(file[MeshRenderer], cat, rows), Entity, 0 .. Len(cat) - 1, S)
        BY <4>1, ResolveOK
      <4>4. QED BY <4>1, <4>2, <4>3
    <3>2. CASE t # MeshRenderer
      BY <2>1, <3>2 DEF FileOK, ListsOK, PayloadIn, RowsApart
    <3>3. QED BY <3>1, <3>2
  <2> HIDE DEF j
  <2>4. /\ PoolOK(Deserialize(j), Entity, PayloadIn(t, cat), S)
        /\ Owners(Deserialize(j)) = NamedIn(j.entities)
    BY <2>3, DeserializeOK, TypesFacts DEF Entity
  <2>5. ps[t].entities = j.entities
    BY <2>2 DEF Deserialize
  <2>6. QED BY <2>2, <2>4, <2>5
<1>3. QED BY <1>1, <1>2 DEF RestoredOK

\* What the body of load establishes, from any file a save can have written.
LEMMA RestoreOK ==
  ASSUME NEW file, NEW S, FileOK(file, S), NEW cat \in Catalogues, RestoreFrom(file, cat),
         S = savedStrays, S \subseteq Entity
  PROVE  SceneOK(pools', active', nextID', cat, strays')
<1>1. PICK rows \in Resolvable(file, cat) : pools' = RestoredPools(file, cat, rows)
  BY DEF RestoreFrom
<1>2. PICK maxID \in EntitiesIn(pools') \cup {0} :
        /\ \A e \in EntitiesIn(pools') : e <= maxID
        /\ nextID' = NextIDAfter(file, maxID)
  BY DEF RestoreFrom
<1>3. active' \in Orders(EntitiesIn(pools'))
  BY DEF RestoreFrom
<1> DEFINE E == EntitiesIn(pools')
<1>4. /\ DOMAIN pools' = Restored \cap DOMAIN file
      /\ \A t \in DOMAIN pools' :
           /\ PoolOK(pools'[t], Entity, PayloadIn(t, cat), S)
           /\ Owners(pools'[t]) = NamedIn(pools'[t].entities)
  <2>1. FileOK(file, S) /\ rows \in Resolvable(file, cat) /\ cat \in Catalogues
    BY <1>1
  <2>2. RestoredOK(pools', file, cat, S)
    BY <1>1, <2>1, RestoredPoolsOK
  <2>3. QED BY <2>2 DEF RestoredOK
<1>5. \A t \in DOMAIN pools' : Owners(pools'[t]) \subseteq E
  BY <1>4 DEF EntitiesIn, NamedIn
<1>6. E \subseteq Entity
  <2> SUFFICES ASSUME NEW t \in DOMAIN pools',
                      NEW k \in 1 .. Len(pools'[t].entities)
               PROVE  pools'[t].entities[k] \in Entity
    BY DEF EntitiesIn
  <2>1. pools'[t].entities \in Seq(Entity)
    BY <1>4 DEF PoolOK, PoolShape
  <2>2. QED BY <2>1
<1>7. Cardinality(E) \in Nat
  <2>1. IsFiniteSet(Entity)
    BY TypesFacts, FS_Interval DEF Entity
  <2>2. IsFiniteSet(E)
    BY <1>6, <2>1, FS_Subset
  <2>3. QED BY <2>2, FS_CardinalityType
<1>8. /\ active' \in [1 .. Cardinality(E) -> E]
      /\ \A i, j \in 1 .. Cardinality(E) : active'[i] = active'[j] => i = j
      /\ \A x \in E : \E i \in 1 .. Cardinality(E) : active'[i] = x
  BY <1>3 DEF Orders
<1>9. E = {} \/ DOMAIN file # {}
  BY <1>4 DEF EntitiesIn
<1> HIDE DEF E
<1>10. active' \in Seq(Entity) /\ Len(active') = Cardinality(E)
  <2>1. active' \in [1 .. Cardinality(E) -> Entity]
    BY <1>6, <1>8
  <2>2. QED BY <1>7, <2>1, FunctionIsSequence
<1>11. E \subseteq {active'[i] : i \in 1 .. Len(active')}
  BY <1>8, <1>10
<1>12. /\ nextID' \in 0 .. MaxID + 1
       /\ \A e \in E : e < nextID'
  <2>1. maxID \in 0 .. MaxID /\ \A e \in E : e \in 0 .. MaxID /\ e <= maxID
    BY <1>2, <1>6, TypesFacts DEF Entity, E
  <2>2. nextID' = maxID + 1 \/ (nextID' = 0 /\ DOMAIN file = {})
    BY <1>2 DEF NextIDAfter
  <2>3. QED BY <1>9, <2>1, <2>2, TypesFacts
<1>13. \A i \in 1 .. Len(active') : active'[i] < nextID'
  BY <1>8, <1>10, <1>12
<1>14. DOMAIN pools' \subseteq Types
  BY <1>4, TypesFacts
<1>15. \A t \in DOMAIN pools' : Owners(pools'[t]) \subseteq {active'[i] : i \in 1 .. Len(active')}
  BY <1>5, <1>11
<1>16. strays' = S
  BY DEF RestoreFrom
<1>17. QED BY <1>4, <1>8, <1>10, <1>12, <1>13, <1>14, <1>15, <1>16 DEF SceneOK

LEMMA StartOK ==
  ASSUME RegistryInv, Start
  PROVE  RegistryInv'
<1>0. DiskOK /\ selected' \in Entity \cup {NoEntity}
  BY DEF RegistryInv, Start
<1>1. running' \in BOOLEAN /\ meshes' \in Catalogues /\ DiskOK'
  <2>1. /\ disk' = disk /\ savedStrays' = savedStrays
        /\ running' \in BOOLEAN /\ meshes' \in Catalogues
    BY DEF Start
  <2>2. QED BY <1>0, <2>1, DiskUnchanged
<1>2. CASE ClearRegistry
  BY <1>0, <1>1, <1>2, ClearedOK, InvAfter
<1>3. CASE RestoreFrom(disk.content, meshes')
  <2>1. FileOK(disk.content, savedStrays) /\ savedStrays \subseteq Entity
    BY <1>0 DEF DiskOK
  <2> DEFINE f == disk.content
             c == meshes'
             S == savedStrays
  <2>2. FileOK(f, S) /\ c \in Catalogues /\ RestoreFrom(f, c) /\ S = savedStrays /\ S \subseteq Entity
    BY <1>1, <1>3, <2>1
  <2>3. SceneOK(pools', active', nextID', c, strays')
    BY <2>2, RestoreOK, Zenon
  <2>4. QED BY <1>0, <1>1, <2>3, InvAfter
<1>4. ClearRegistry \/ RestoreFrom(disk.content, meshes')
  BY DEF Start
<1>5. QED BY <1>2, <1>3, <1>4

LEMMA TerminateOK ==
  ASSUME RegistryInv, Terminate
  PROVE  RegistryInv'
<1>1. DiskOK' /\ meshes' \in Catalogues
  <2>1. disk' = disk /\ savedStrays' = savedStrays /\ meshes' = meshes
    BY DEF Terminate
  <2>2. DiskOK /\ meshes \in Catalogues
    BY DEF RegistryInv
  <2>3. QED BY <2>1, <2>2, DiskUnchanged
<1>2. QED BY <1>1, ExitOK, InvAfter DEF Terminate

LEMMA LoadOK ==
  ASSUME RegistryInv, Load
  PROVE  RegistryInv'
<1>0. DiskOK /\ meshes \in Catalogues /\ running \in BOOLEAN /\ selected \in Entity \cup {NoEntity}
  BY DEF RegistryInv
<1>1. meshes' = meshes /\ meshes' \in Catalogues /\ DiskOK'
  <2>1. disk' = disk /\ savedStrays' = savedStrays /\ meshes' = meshes
    BY DEF Load
  <2>2. QED BY <1>0, <2>1, DiskUnchanged
<1>2. CASE Exit
  BY <1>1, <1>2, ExitOK, InvAfter
<1>3. CASE RestoreFrom(disk.content, meshes) /\ running' = running /\ selected' = selected
  <2>1. FileOK(disk.content, savedStrays) /\ savedStrays \subseteq Entity
    BY <1>0 DEF DiskOK
  <2>2. SceneOK(pools', active', nextID', meshes, strays')
    BY <1>0, <1>3, <2>1, RestoreOK, Zenon
  <2>3. QED BY <1>0, <1>1, <1>3, <2>2, InvAfter
<1>4. QED BY <1>2, <1>3 DEF Load

LEMMA InitOK == Init => RegistryInv
<1> SUFFICES ASSUME Init PROVE RegistryInv
  OBVIOUS
<1>1. SceneOK(pools, active, nextID, meshes, strays)
  BY RegistryAssumption DEF Init, SceneOK, Entity
<1>2. DiskOK
  BY DEF Init, DiskOK, FileOK, NoFile, WholeFile
<1>3. QED BY <1>1, <1>2 DEF Init, RegistryInv

LEMMA StepOK == RegistryInv /\ [Next]_vars => RegistryInv'
<1> SUFFICES ASSUME RegistryInv, [Next]_vars PROVE RegistryInv'
  OBVIOUS
<1>1. CASE UNCHANGED vars
  <2>1. /\ SceneOK(pools', active', nextID', meshes', strays') /\ running' \in BOOLEAN
        /\ meshes' \in Catalogues /\ selected' \in Entity \cup {NoEntity}
    BY <1>1 DEF vars, RegistryInv
  <2>2. DiskOK'
    BY <1>1, DiskUnchanged DEF vars, RegistryInv
  <2>3. QED BY <2>1, <2>2, InvAfter
<1>2. CASE Start
  BY <1>2, StartOK
<1>3. CASE Terminate
  BY <1>3, TerminateOK
<1>4. ASSUME NEW m \in 0 .. Len(meshes) - 1, NEW v \in Values, Spawn(m, v) PROVE RegistryInv'
  BY <1>4, SpawnOK
<1>5. ASSUME NEW e \in Entity, NEW t \in Types, Attach(e, t) PROVE RegistryInv'
  BY <1>5, AttachOK
<1>6. ASSUME NEW e \in Entity, NEW t \in Plain, NEW v \in Values, Edit(e, t, v) PROVE RegistryInv'
  BY <1>6, EditOK
<1>7. ASSUME NEW e \in Entity, Destroy(e) PROVE RegistryInv'
  BY <1>7, DestroyOK
<1>8. CASE Save
  BY <1>8, SaveOK
<1>9. CASE Load
  BY <1>9, LoadOK
<1>10. ASSUME NEW t \in Types, Visit(t) PROVE RegistryInv'
  BY <1>10, VisitOK
<1>11. ASSUME NEW e \in Entity, Select(e) PROVE RegistryInv'
  BY <1>11, SelectOK
<1>12. ASSUME NEW e \in Entity \cup {NoEntity}, Pick(e) PROVE RegistryInv'
  BY <1>12, PickOK
<1>13. QED
  BY <1>1, <1>2, <1>3, <1>4, <1>5, <1>6, <1>7, <1>8, <1>9, <1>10, <1>11, <1>12 DEF Next

\* The inductive invariant implies the four properties the runs check.
LEMMA InvImplies == RegistryInv => TypeOK /\ PoolsConsistent /\ ActiveComplete /\ MeshesResolve
<1> SUFFICES ASSUME RegistryInv PROVE TypeOK /\ PoolsConsistent /\ ActiveComplete /\ MeshesResolve
  OBVIOUS
<1>1. /\ SceneOK(pools, active, nextID, meshes, strays) /\ DiskOK
      /\ running \in BOOLEAN /\ meshes \in Catalogues /\ selected \in Entity \cup {NoEntity}
  BY DEF RegistryInv
<1>2. \A t \in DOMAIN pools : PoolOK(pools[t], Entity, PayloadIn(t, meshes), strays)
  BY <1>1 DEF SceneOK
<1>3. ASSUME NEW t \in DOMAIN pools PROVE PoolShape(pools[t], Entity, Payload(t))
  <2>1. PoolShape(pools[t], Entity, PayloadIn(t, meshes))
    BY <1>2 DEF PoolOK
  <2>2. PayloadIn(t, meshes) \subseteq Payload(t)
    BY <1>1, TypesFacts DEF PayloadIn, Payload
  <2>3. pools[t].data \in Seq(Payload(t))
    BY <2>1, <2>2 DEF PoolShape
  <2>4. QED BY <2>1, <2>3 DEF PoolShape
<1>4. TypeOK
  BY <1>1, <1>3 DEF TypeOK, SceneOK, DiskOK
<1>5. PoolsConsistent
  BY <1>2 DEF PoolsConsistent, PoolOK
<1>6. ActiveComplete
  BY <1>1 DEF ActiveComplete, SceneOK, ActiveSet
<1>7. ASSUME MeshRenderer \in DOMAIN pools,
             NEW i \in 1 .. Len(pools[MeshRenderer].data)
      PROVE  pools[MeshRenderer].data[i] + 1 \in 1 .. Len(meshes)
  <2>1. pools[MeshRenderer].data \in Seq(0 .. Len(meshes) - 1)
    BY <1>2, <1>7 DEF PoolOK, PoolShape, PayloadIn
  <2>2. pools[MeshRenderer].data[i] \in 0 .. Len(meshes) - 1
    BY <1>7, <2>1
  <2>3. Len(meshes) \in Nat
    BY <1>1, TypesFacts
  <2>4. QED BY <2>2, <2>3
<1>8. QED BY <1>4, <1>5, <1>6, <1>7 DEF MeshesResolve

\* The registry's fields always have their types, and a scene.json names each
\* entity at most once in a pool, those apart that were strays when it was saved.
THEOREM TypesAlways == Spec => []TypeOK
BY InitOK, StepOK, InvImplies, PTL DEF Spec

\* After any sequence of additions, swap-and-pop removals, saves and loads, and
\* components given to ids that no entity has, get returns the owner's own row;
\* and no entity but such an id has a row that get does not return.
THEOREM PoolsAlwaysConsistent == Spec => []PoolsConsistent
BY InitOK, StepOK, InvImplies, PTL DEF Spec

\* Every owner of a component is listed as active, once, and is older than the
\* next id to be issued, unless it was given a component while it was no entity.
THEOREM ActiveAlwaysComplete == Spec => []ActiveComplete
BY InitOK, StepOK, InvImplies, PTL DEF Spec

\* A mesh id of the scene always has a mesh, whatever catalogue wrote the file.
THEOREM MeshesAlwaysResolve == Spec => []MeshesResolve
BY InitOK, StepOK, InvImplies, PTL DEF Spec

-----------------------------------------------------------------------------
\* What get returns after each pool operation.

LEMMA GetAfterAdd ==
  ASSUME NEW Ents, NEW Data, NEW p, NEW S, PoolOK(p, Ents, Data, S), NEW e \in Nat, NEW c
  PROVE  /\ Get(Add(p, e, c), e) = c
         /\ \A x \in Owners(p) : x # e => Get(Add(p, e, c), x) = Get(p, x)
<1> DEFINE q == Add(p, e, c)
           n == Len(p.data)
<1>1. /\ n \in Nat /\ p.data \in Seq(Data)
      /\ \A x \in DOMAIN p.sparse : p.sparse[x] # NoIndex => p.sparse[x] \in 1 .. n
      /\ DOMAIN p.sparse \subseteq Ents
  BY DEF PoolOK, PoolShape, Consistent
<1>2. /\ q.data = Append(p.data, c)
      /\ q.sparse = [x \in DOMAIN p.sparse \cup 0 .. e |->
                       IF x = e THEN n + 1
                       ELSE IF x \in DOMAIN p.sparse THEN p.sparse[x] ELSE NoIndex]
  BY DEF Add
<1>3. /\ \A i \in 1 .. n : q.data[i] = p.data[i]
      /\ q.data[n + 1] = c
  BY <1>1, <1>2
<1>4. e \in 0 .. e
  OBVIOUS
<1> HIDE DEF q, n
<1>5. q.sparse[e] = n + 1
  BY <1>2, <1>4
<1>6. ASSUME NEW x \in Owners(p), x # e PROVE q.sparse[x] = p.sparse[x] /\ p.sparse[x] \in 1 .. n
  BY <1>1, <1>2, <1>6 DEF Owners, Has
<1>7. QED BY <1>3, <1>5, <1>6 DEF Get, q

LEMMA GetAfterRemove ==
  ASSUME NEW Ents, NEW Data, NEW p, NEW S, PoolOK(p, Ents, Data, S), NEW e,
         NEW x \in Owners(p) \ S, x # e
  PROVE  Get(Remove(p, e), x) = Get(p, x)
<1>1. CASE ~Has(p, e)
  BY <1>1 DEF Remove
<1>2. CASE Has(p, e)
  <2> DEFINE q == Remove(p, e)
             n == Len(p.data)
             i == p.sparse[e]
             last == p.entities[n]
  <2>1. /\ n \in Nat /\ Len(p.entities) = n
        /\ e \in DOMAIN p.sparse /\ i \in 1 .. n /\ p.entities[i] = e
        /\ last \in DOMAIN p.sparse /\ (p.sparse[last] = n \/ last \in S)
        /\ x \in DOMAIN p.sparse /\ p.sparse[x] \in 1 .. n /\ p.entities[p.sparse[x]] = x
    BY <1>2 DEF Has, PoolOK, PoolShape, Consistent, NoIndex, Owners
  <2>2. /\ q.data = [j \in 1 .. n - 1 |-> IF j = i THEN p.data[n] ELSE p.data[j]]
        /\ q.sparse = [p.sparse EXCEPT ![last] = i, ![e] = NoIndex]
    BY <1>2, <2>1 DEF Remove, SwapAndPop
  <2>3. q.sparse[x] = IF x = last THEN i ELSE p.sparse[x]
    BY <2>1, <2>2
  <2>4. CASE x = last
    <3>1. i \in 1 .. n - 1
      BY <2>1, <2>4
    <3>2. QED BY <2>1, <2>2, <2>3, <2>4, <3>1 DEF Get
  <2>5. CASE x # last
    <3>1. p.sparse[x] \in 1 .. n - 1 /\ p.sparse[x] # i
      BY <2>1, <2>5
    <3>2. QED BY <2>2, <2>3, <2>5, <3>1 DEF Get
  <2>6. QED BY <2>4, <2>5
<1>3. QED BY <1>1, <1>2

LEMMA GetAfterAssign ==
  ASSUME NEW Ents, NEW Data, NEW p, NEW S, PoolOK(p, Ents, Data, S), NEW e, NEW c, Has(p, e),
         NEW x \in Owners(p)
  PROVE  Get(Assign(p, e, c), x) = IF x = e THEN c ELSE Get(p, x)
<1> DEFINE q == Assign(p, e, c)
<1>1. q.sparse = p.sparse /\ q.data = [p.data EXCEPT ![p.sparse[e]] = c]
  BY DEF Assign
<1>2. /\ p.sparse[e] \in DOMAIN p.data /\ p.sparse[x] \in DOMAIN p.data
      /\ p.sparse[x] = p.sparse[e] => x = e
  BY DEF Has, PoolOK, PoolShape, Consistent, Owners
<1>3. QED BY <1>1, <1>2 DEF Get

LEMMA GetAfterDeserialize ==
  ASSUME NEW Ents, Ents \subseteq Nat, NEW Data, NEW S, NEW j, ListsOK(j, Ents, Data, S),
         NEW k \in 1 .. Len(j.entities), j.entities[k] \notin S
  PROVE  Get(Deserialize(j), j.entities[k]) = j.components[k]
<1> DEFINE q == Deserialize(j)
           D == UNION {0 .. j.entities[i] : i \in 1 .. Len(j.entities)}
<1>0. j.entities \in Seq(Ents) /\ RowsApart(j.entities, S)
  BY DEF ListsOK
<1>1. q.data = j.components /\ q.sparse = [x \in D |-> LastIndexOf(j.entities, x)]
  BY DEF Deserialize
<1>2. j.entities[k] \in 0 .. j.entities[k]
  <2> HIDE DEF D, q
  <2>1. j.entities[k] \in Nat
    <3>1. \A i \in 1 .. Len(j.entities) : j.entities[i] \in Ents
      BY <1>0
    <3>2. QED BY <3>1
  <2>2. \A n \in Nat : n \in 0 .. n
    OBVIOUS
  <2>3. QED BY <2>1, <2>2
<1>3. j.entities[k] \in D
  BY <1>2
<1>4. LastIndexOf(j.entities, j.entities[k]) = k
  <2>1. \A a \in 1 .. Len(j.entities) : j.entities[a] = j.entities[k] => a = k
    BY <1>0 DEF RowsApart
  <2>2. QED BY <1>0, <2>1, LastIndexUnique
<1> HIDE DEF D, q
<1>5. q.sparse[j.entities[k]] = k
  BY <1>1, <1>3, <1>4
<1>6. QED BY <1>1, <1>5 DEF Get, q

-----------------------------------------------------------------------------
\* The scene as EntityStore sees it, type by type.

NameIn(cat, id) == IF id + 1 \in 1 .. Len(cat) THEN cat[id + 1] ELSE ""

\* What the pool p of type t shows to a run with the catalogue cat, strays apart.
ShownAs(t, cat, x) == IF t = MeshRenderer THEN NameIn(cat, x) ELSE x
PoolView(p, t, cat, S) == [e \in Owners(p) \ S |-> ShownAs(t, cat, Get(p, e))]
ViewOf(ps, t, cat, S) == PoolView(Pool(ps, t), t, cat, S)

LEMMA EmptyView ==
  ASSUME NEW t, NEW cat, NEW S
  PROVE  PoolView(EmptyPool, t, cat, S) = <<>>
BY EmptyPoolOK DEF PoolView

LEMMA SceneViewIs ==
  /\ SceneView = [t \in Types |-> ViewOf(pools, t, meshes, strays)]
  /\ SceneView' = [t \in Types |-> ViewOf(pools', t, meshes', strays')]
<1>1. ASSUME NEW t \in Types
      PROVE  ViewOf(pools, t, meshes, strays) =
               IF t \notin DOMAIN pools THEN <<>>
               ELSE [e \in Owners(pools[t]) \ strays |->
                       IF t = MeshRenderer THEN NameIn(meshes, Get(pools[t], e))
                       ELSE Get(pools[t], e)]
  <2>1. CASE t \notin DOMAIN pools
    BY <2>1, EmptyView DEF ViewOf, Pool
  <2>2. CASE t \in DOMAIN pools
    BY <2>2 DEF ViewOf, Pool, PoolView, ShownAs
  <2>3. QED BY <2>1, <2>2
<1>2. ASSUME NEW t \in Types
      PROVE  ViewOf(pools', t, meshes', strays') =
               IF t \notin DOMAIN pools' THEN <<>>
               ELSE [e \in Owners(pools'[t]) \ strays' |->
                       IF t = MeshRenderer THEN NameIn(meshes', Get(pools'[t], e))
                       ELSE Get(pools'[t], e)]
  <2>1. CASE t \notin DOMAIN pools'
    BY <2>1, EmptyView DEF ViewOf, Pool
  <2>2. CASE t \in DOMAIN pools'
    BY <2>2 DEF ViewOf, Pool, PoolView, ShownAs
  <2>3. QED BY <2>1, <2>2
<1>3. SceneView = [t \in Types |-> ViewOf(pools, t, meshes, strays)]
  BY <1>1 DEF SceneView, MeshName, NameIn
<1>4. SceneView' = [t \in Types |-> ViewOf(pools', t, meshes', strays')]
  BY <1>2 DEF SceneView, MeshName, NameIn
<1>5. QED BY <1>3, <1>4

LEMMA PoolViewAdd ==
  ASSUME NEW Ents, NEW Data, NEW p, NEW S, PoolOK(p, Ents, Data, S), NEW e \in Nat \ S, NEW c,
         Owners(Add(p, e, c)) = Owners(p) \cup {e}, NEW t, NEW cat
  PROVE  PoolView(Add(p, e, c), t, cat, S) = Store!Extend(PoolView(p, t, cat, S), e, ShownAs(t, cat, c))
<1> DEFINE q == Add(p, e, c)
<1>1. Get(q, e) = c /\ \A x \in Owners(p) : x # e => Get(q, x) = Get(p, x)
  BY GetAfterAdd
<1> HIDE DEF q
<1>2. Owners(q) = Owners(p) \cup {e}
  BY DEF q
<1>3. PoolView(q, t, cat, S) = Store!Extend(PoolView(p, t, cat, S), e, ShownAs(t, cat, c))
  BY <1>1, <1>2 DEF PoolView, Store!Extend
<1>4. QED BY <1>3 DEF q

\* What is given to a stray shows in no view, nor does its becoming one.
LEMMA PoolViewAddStray ==
  ASSUME NEW Ents, NEW Data, NEW p, NEW S, PoolOK(p, Ents, Data, S), NEW e \in Nat, NEW c,
         Owners(Add(p, e, c)) = Owners(p) \cup {e}, NEW t, NEW cat,
         NEW T, T = S \cup {e}, e \in S \/ e \notin Owners(p)
  PROVE  PoolView(Add(p, e, c), t, cat, T) = PoolView(p, t, cat, S)
<1> DEFINE q == Add(p, e, c)
<1>1. \A x \in Owners(p) : x # e => Get(q, x) = Get(p, x)
  BY GetAfterAdd
<1> HIDE DEF q
<1>2. Owners(q) \ T = Owners(p) \ S
  BY DEF q
<1>3. \A x \in Owners(p) \ S : Get(q, x) = Get(p, x)
  BY <1>1
<1>4. PoolView(q, t, cat, T) = PoolView(p, t, cat, S)
  BY <1>2, <1>3 DEF PoolView
<1>5. QED BY <1>4 DEF q

LEMMA PoolViewRemove ==
  ASSUME NEW Ents, NEW Data, NEW p, NEW S, PoolOK(p, Ents, Data, S), NEW e, NEW t, NEW cat
  PROVE  PoolView(Remove(p, e), t, cat, S) = Store!Without(PoolView(p, t, cat, S), e)
<1> DEFINE q == Remove(p, e)
<1>1. Owners(q) \ S = (Owners(p) \ {e}) \ S
  BY RemoveOK
<1>2. \A x \in Owners(p) \ S : x # e => Get(q, x) = Get(p, x)
  BY GetAfterRemove
<1> HIDE DEF q
<1>3. PoolView(q, t, cat, S) = Store!Without(PoolView(p, t, cat, S), e)
  BY <1>1, <1>2 DEF PoolView, Store!Without
<1>4. QED BY <1>3 DEF q

LEMMA PoolViewAssign ==
  ASSUME NEW Ents, NEW Data, NEW p, NEW S, PoolOK(p, Ents, Data, S), NEW e, NEW c \in Data, Has(p, e),
         NEW t, t # MeshRenderer, NEW cat
  PROVE  PoolView(Assign(p, e, c), t, cat, S) = [PoolView(p, t, cat, S) EXCEPT ![e] = c]
<1> DEFINE q == Assign(p, e, c)
<1>1. Owners(q) = Owners(p)
  BY AssignOK
<1>2. \A x \in Owners(p) : Get(q, x) = IF x = e THEN c ELSE Get(p, x)
  BY GetAfterAssign
<1> HIDE DEF q
<1>3. PoolView(q, t, cat, S) = [PoolView(p, t, cat, S) EXCEPT ![e] = c]
  BY <1>1, <1>2 DEF PoolView, ShownAs
<1>4. QED BY <1>3 DEF q

\* An id that owns nothing is missed by no view when it becomes a stray.
LEMMA PoolViewStray ==
  ASSUME NEW p, NEW S, NEW e, NEW T, T = S \cup {e}, e \in S \/ e \notin Owners(p), NEW t, NEW cat
  PROVE  PoolView(p, t, cat, T) = PoolView(p, t, cat, S)
<1>1. Owners(p) \ T = Owners(p) \ S
  OBVIOUS
<1>2. QED BY <1>1 DEF PoolView

\* The pool of a type after the operations on the table of pools.
LEMMA PoolAfter ==
  ASSUME NEW ps, NEW t
  PROVE  /\ \A S : Pool(Touched(ps, S), t) = Pool(ps, t)
         /\ \A e, c : Pool(AddAll(ps, e, c), t) =
                        IF t \in DOMAIN c THEN Add(Pool(ps, t), e, c[t]) ELSE Pool(ps, t)
         /\ \A e : Pool([u \in DOMAIN ps |-> Remove(ps[u], e)], t) = Remove(Pool(ps, t), e)
<1>1. \A e : Remove(EmptyPool, e) = EmptyPool
  BY DEF Remove, Has, EmptyPool
<1>2. QED BY <1>1 DEF Pool, Touched, AddAll

LEMMA AnyPoolOK ==
  ASSUME RegistryInv, NEW t
  PROVE  /\ PoolOK(Pool(pools, t), Entity, PayloadIn(t, meshes), strays)
         /\ Owners(Pool(pools, t)) \subseteq ActiveSet \cup strays
         /\ \A e : HasComponent(e, t) <=> Has(Pool(pools, t), e)
<1>1. \A u \in DOMAIN pools : PoolOK(pools[u], Entity, PayloadIn(u, meshes), strays)
  BY DEF RegistryInv, SceneOK
<1>2. \A u \in DOMAIN pools : Owners(pools[u]) \subseteq ActiveSet \cup strays
  BY DEF RegistryInv, SceneOK, ActiveSet
<1>3. PoolOK(EmptyPool, Entity, PayloadIn(t, meshes), strays) /\ Owners(EmptyPool) = {}
  BY EmptyPoolOK
<1>4. \A e : ~Has(EmptyPool, e)
  BY DEF Has, EmptyPool
<1>5. QED BY <1>1, <1>2, <1>3, <1>4 DEF Pool, HasComponent

LEMMA OwnersAre ==
  ASSUME NEW p, NEW e
  PROVE  Has(p, e) <=> e \in Owners(p)
BY DEF Has, Owners

-----------------------------------------------------------------------------
\* The fields of the abstract store that most steps leave alone.

LEMMA SameNames ==
  ASSUME meshes' = meshes
  PROVE  KnownNames' = KnownNames
BY DEF KnownNames

LEMMA SameFile ==
  ASSUME disk' = disk, savedStrays' = savedStrays
  PROVE  [kind |-> disk.kind, content |-> FileView, strays |-> savedStrays]' =
           [kind |-> disk.kind, content |-> FileView, strays |-> savedStrays]
BY DEF FileView

\* The entities of the store, when the active list and the strays are the same.
LEMMA SameAlive ==
  ASSUME active' = active, strays' = strays
  PROVE  (ActiveSet \ strays)' = ActiveSet \ strays
BY DEF ActiveSet

\* A cleared registry shows an empty scene.
LEMMA ClearedView ==
  ASSUME ClearRegistry
  PROVE  Store!Reset
<1>1. pools' = <<>> /\ active' = <<>> /\ nextID' = 0 /\ strays' = {}
  BY DEF ClearRegistry
<1>2. (ActiveSet \ strays)' = {}
  BY <1>1 DEF ActiveSet
<1>3. (0 .. nextID - 1)' = {}
  BY <1>1
<1>4. SceneView' = [t \in Types |-> <<>>]
  BY <1>1 DEF SceneView
<1>5. QED BY <1>1, <1>2, <1>3, <1>4 DEF Store!Reset, Store!NoComponents

\* A process that ends stops the store.
LEMMA ExitStore ==
  ASSUME running, Exit, UNCHANGED <<meshes, disk, savedStrays>>
  PROVE  Store!Stop
BY ClearedView, SameNames, SameFile DEF Exit, Store!Stop

\* A step after which every pool shows what it did leaves the store alone.
LEMMA SameStore ==
  ASSUME SceneView' = SceneView,
         (ActiveSet \ strays)' = ActiveSet \ strays,
         UNCHANGED <<running, nextID, meshes, disk, strays, savedStrays>>
  PROVE  UNCHANGED Store!storeVars
<1>1. (0 .. nextID - 1)' = 0 .. nextID - 1
  OBVIOUS
<1>2. QED BY <1>1, SameNames, SameFile DEF Store!storeVars

LEMMA TouchStore ==
  ASSUME NEW U, pools' = Touched(pools, U),
         UNCHANGED <<running, active, nextID, meshes, disk, strays, savedStrays>>
  PROVE  UNCHANGED Store!storeVars
<1>1. \A u : Pool(pools', u) = Pool(pools, u)
  BY PoolAfter
<1>2. SceneView' = SceneView
  BY <1>1, SceneViewIs DEF ViewOf
<1>3. QED BY <1>2, SameAlive, SameStore

LEMMA SelectStore ==
  ASSUME NEW e \in Entity, Select(e)
  PROVE  UNCHANGED Store!storeVars
<1>1. SceneView' = SceneView
  BY SceneViewIs DEF Select
<1>2. QED BY <1>1, SameAlive, SameStore DEF Select

\* The new entity is one of the store, unless its id is a stray's.
LEMMA SpawnStore ==
  ASSUME RegistryInv, NEW m \in 0 .. Len(meshes) - 1, NEW v \in Values, Spawn(m, v)
  PROVE  \/ Store!Stop
         \/ \E name \in KnownNames : Store!Spawn(v, name)
         \/ \E e \in Entity : Store!SpawnStray(e)
<1>0. SceneOK(pools, active, nextID, meshes, strays) /\ meshes \in Catalogues
  BY DEF RegistryInv
<1>1. CASE meshes[m + 1] \in EmptyMeshes
  BY <1>1, ExitStore DEF Spawn
<1>2. CASE meshes[m + 1] \notin EmptyMeshes
  <2> DEFINE c == [t \in Restored |->
                     IF t = MeshRenderer THEN m ELSE IF t = Bounds THEN Default ELSE v]
             name == meshes[m + 1]
  <2>1. /\ nextID \in Entity /\ nextID' = nextID + 1
        /\ active' = Append(active, nextID)
        /\ pools' = AddAll(pools, nextID, c)
        /\ running' = running /\ meshes' = meshes /\ disk' = disk /\ running
        /\ strays' = strays /\ savedStrays' = savedStrays
    <3>1. nextID \in 0 .. MaxID + 1 /\ nextID <= MaxID
      BY <1>0 DEF Spawn, SceneOK
    <3>2. nextID \in Entity
      BY <3>1, RegistryAssumption DEF Entity
    <3>3. QED BY <1>2, <3>2 DEF Spawn
  <2>2. m + 1 \in 1 .. Len(meshes) /\ name \in KnownNames
    BY <1>0, TypesFacts DEF KnownNames
  <2>3. nextID \in Nat /\ nextID \in Store!Entity \ (0 .. nextID - 1)
    BY <2>1, TypesFacts DEF Entity, Store!Entity
  <2>4. ActiveSet' = ActiveSet \cup {nextID}
    <3>1. /\ Len(active) \in Nat /\ Len(active') = Len(active) + 1
          /\ \A i \in 1 .. Len(active) : active'[i] = active[i]
          /\ active'[Len(active) + 1] = nextID
      BY <1>0, <2>1 DEF SceneOK
    <3>2. 1 .. Len(active') = 1 .. Len(active) \cup {Len(active) + 1}
      BY <3>1
    <3>3. QED BY <3>1, <3>2 DEF ActiveSet
  <2>5. (0 .. nextID - 1)' = (0 .. nextID - 1) \cup {nextID}
    BY <2>1, <2>3
  <2>6. ASSUME NEW t
        PROVE  /\ PoolOK(Pool(pools, t), Entity, PayloadIn(t, meshes), strays)
               /\ ~Has(Pool(pools, t), nextID) \/ nextID \in strays
    <3>1. nextID \notin ActiveSet
      BY <1>0, <2>3 DEF SceneOK, ActiveSet
    <3>2. QED BY <3>1, AnyPoolOK, OwnersAre
  <2>7. ASSUME NEW t \in Restored
        PROVE  /\ Pool(pools', t) = Add(Pool(pools, t), nextID, c[t])
               /\ Owners(Add(Pool(pools, t), nextID, c[t])) = Owners(Pool(pools, t)) \cup {nextID}
    <3>1. Pool(pools', t) = Add(Pool(pools, t), nextID, c[t])
      BY <2>1, PoolAfter
    <3>2. c[t] \in PayloadIn(t, meshes)
      BY <1>0, TypesFacts, RegistryAssumption DEF PayloadIn
    <3>3. QED BY <2>1, <2>6, <3>1, <3>2, AddOK, TypesFacts DEF Entity
  <2>8. ASSUME NEW t \in Types \ Restored
        PROVE  ViewOf(pools', t, meshes, strays) = ViewOf(pools, t, meshes, strays)
    BY <2>1, PoolAfter DEF ViewOf
  <2>9. CASE nextID \in strays
    <3>1. ASSUME NEW t \in Restored
          PROVE  ViewOf(pools', t, meshes, strays) = ViewOf(pools, t, meshes, strays)
      <4>1. strays = strays \cup {nextID}
        BY <2>9
      <4> HIDE DEF c
      <4>2. PoolView(Add(Pool(pools, t), nextID, c[t]), t, meshes, strays) =
              PoolView(Pool(pools, t), t, meshes, strays)
        BY <2>3, <2>6, <2>7, <2>9, <4>1, PoolViewAddStray
      <4>3. QED BY <2>7, <4>2 DEF ViewOf
    <3>2. SceneView' = SceneView
      BY <2>1, <2>8, <3>1, SceneViewIs
    <3>3. (ActiveSet \ strays)' = ActiveSet \ strays
      BY <2>1, <2>4, <2>9
    <3>4. Store!SpawnStray(nextID)
      BY <2>1, <2>3, <2>5, <2>9, <3>2, <3>3, SameNames, SameFile DEF Store!SpawnStray
    <3>5. QED BY <2>1, <3>4
  <2>10. CASE nextID \notin strays
    <3>1. ASSUME NEW t \in Restored
          PROVE  ViewOf(pools', t, meshes, strays) =
                   Store!Extend(ViewOf(pools, t, meshes, strays), nextID,
                                IF t = MeshRenderer THEN name
                                ELSE IF t \in {Bounds} THEN Default ELSE v)
      <4>1. ViewOf(pools', t, meshes, strays) =
              Store!Extend(ViewOf(pools, t, meshes, strays), nextID, ShownAs(t, meshes, c[t]))
        <5> HIDE DEF c
        <5>1. QED BY <2>3, <2>6, <2>7, <2>10, PoolViewAdd DEF ViewOf
      <4>2. ShownAs(t, meshes, c[t]) =
              IF t = MeshRenderer THEN name ELSE IF t \in {Bounds} THEN Default ELSE v
        BY <2>2 DEF ShownAs, NameIn
      <4>3. QED BY <4>1, <4>2
    <3> HIDE DEF c, name
    <3>2. SceneView' = [t \in Types |->
                          IF t \notin Restored THEN SceneView[t]
                          ELSE Store!Extend(SceneView[t], nextID,
                                            IF t = MeshRenderer THEN name
                                            ELSE IF t \in {Bounds} THEN Default ELSE v)]
      BY <2>1, <2>8, <3>1, SceneViewIs
    <3>3. (ActiveSet \ strays)' = (ActiveSet \ strays) \cup {nextID}
      BY <2>1, <2>4, <2>10
    <3>4. Store!Spawn(v, name)
      BY <2>1, <2>3, <2>5, <2>10, <3>2, <3>3, SameNames, SameFile DEF Store!Spawn
    <3>5. QED BY <2>2, <3>4
  <2>11. QED BY <2>9, <2>10
<1>3. QED BY <1>1, <1>2

\* A component for an entity of the store, for an id that no entity has, or for
\* an entity that has the id of a stray.
LEMMA AttachStore ==
  ASSUME RegistryInv, NEW e \in Entity, NEW t \in Types, Attach(e, t)
  PROVE  \/ /\ e \in ActiveSet \ strays
            /\ \E v \in IF t = MeshRenderer THEN KnownNames ELSE {Default} : Store!Attach(e, t, v)
         \/ Store!Stray(e)
         \/ UNCHANGED Store!storeVars
<1> DEFINE x == IF t = MeshRenderer THEN 0 ELSE Default
           v == IF t = MeshRenderer THEN meshes[1] ELSE Default
           p == Pool(pools, t)
<1>0. meshes \in Catalogues /\ Len(meshes) \in Nat \ {0}
  BY TypesFacts DEF RegistryInv
<1>1. /\ pools' = AddAll(Touched(pools, Types), e, [u \in {t} |-> x])
      /\ ~HasComponent(e, t)
      /\ strays' = IF e \in ActiveSet THEN strays ELSE strays \cup {e}
      /\ active' = active /\ nextID' = nextID /\ meshes' = meshes
      /\ running' = running /\ disk' = disk /\ savedStrays' = savedStrays /\ running
  BY DEF Attach
<1>2. \A u : Pool(pools', u) = IF u = t THEN Add(p, e, x) ELSE Pool(pools, u)
  BY <1>1, PoolAfter
<1>3. PoolOK(p, Entity, PayloadIn(t, meshes), strays) /\ ~Has(p, e) /\ e \in Nat
  BY <1>1, AnyPoolOK, TypesFacts DEF Entity
<1>4. x \in PayloadIn(t, meshes)
  BY <1>0, TypesFacts DEF PayloadIn
<1>5. ShownAs(t, meshes, x) = v /\ v \in (IF t = MeshRenderer THEN KnownNames ELSE {Default})
  <2>1. 1 \in 1 .. Len(meshes) /\ 0 + 1 = 1
    BY <1>0
  <2>2. meshes[1] \in KnownNames /\ NameIn(meshes, 0) = meshes[1]
    BY <2>1 DEF KnownNames, NameIn
  <2>3. QED BY <2>2 DEF ShownAs
<1> HIDE DEF x, v
<1>6. Owners(Add(p, e, x)) = Owners(p) \cup {e}
  BY <1>3, <1>4, AddOK, TypesFacts DEF Entity
<1>7. ActiveSet' = ActiveSet /\ (0 .. nextID - 1)' = 0 .. nextID - 1
  BY <1>1 DEF ActiveSet
<1>8. CASE e \in ActiveSet \ strays
  <2>1. PoolView(Add(p, e, x), t, meshes, strays) = Store!Extend(PoolView(p, t, meshes, strays), e, v)
    BY <1>3, <1>5, <1>6, <1>8, PoolViewAdd
  <2>2. SceneView' = [SceneView EXCEPT ![t] = Store!Extend(@, e, v)]
    BY <1>1, <1>2, <1>8, <2>1, SceneViewIs DEF ViewOf
  <2>3. e \notin DOMAIN SceneView[t]
    <3>1. DOMAIN SceneView[t] = Owners(p) \ strays
      BY SceneViewIs DEF ViewOf, PoolView
    <3>2. QED BY <1>3, <3>1, OwnersAre
  <2>4. (ActiveSet \ strays)' = ActiveSet \ strays
    BY <1>1, <1>7, <1>8
  <2>5. Store!Attach(e, t, v)
    BY <1>1, <1>7, <1>8, <2>2, <2>3, <2>4, SameNames, SameFile DEF Store!Attach
  <2>6. QED BY <1>5, <1>8, <2>5
<1>9. CASE e \notin ActiveSet \ strays
  <2> DEFINE T == strays \cup {e}
  <2>1. /\ strays' = T
        /\ (ActiveSet \ strays)' = ActiveSet \ strays
    BY <1>1, <1>7, <1>9
  <2>2. ASSUME NEW u
        PROVE  /\ PoolOK(Pool(pools, u), Entity, PayloadIn(u, meshes), strays)
               /\ e \in strays \/ e \notin Owners(Pool(pools, u))
    BY <1>9, AnyPoolOK
  <2>3. ASSUME NEW u \in Types
        PROVE  ViewOf(pools', u, meshes, T) = ViewOf(pools, u, meshes, strays)
    <3>1. CASE u = t
      <4>1. PoolView(Add(p, e, x), t, meshes, T) = PoolView(p, t, meshes, strays)
        BY <1>3, <1>6, <2>2, PoolViewAddStray
      <4>2. QED BY <1>2, <3>1, <4>1 DEF ViewOf
    <3>2. CASE u # t
      <4>1. PoolView(Pool(pools, u), u, meshes, T) = PoolView(Pool(pools, u), u, meshes, strays)
        BY <2>2, PoolViewStray
      <4>2. QED BY <1>2, <3>2, <4>1 DEF ViewOf
    <3>3. QED BY <3>1, <3>2
  <2>4. SceneView' = SceneView
    BY <1>1, <2>1, <2>3, SceneViewIs
  <2>5. CASE e \in strays
    <3>1. strays' = strays
      BY <2>1, <2>5
    <3>2. QED BY <1>1, <2>1, <2>4, <3>1, SameStore
  <2>6. CASE e \notin strays
    <3>1. e \notin ActiveSet \ strays /\ strays' = strays \cup {e}
      BY <1>9, <2>1
    <3>2. Store!Stray(e)
      BY <1>1, <1>7, <2>1, <2>4, <3>1, SameNames, SameFile DEF Store!Stray
    <3>3. QED BY <3>2
  <2>7. QED BY <2>5, <2>6
<1>10. QED BY <1>8, <1>9

LEMMA EditStore ==
  ASSUME RegistryInv, NEW e \in Entity, NEW t \in Plain, NEW v \in Values, Edit(e, t, v)
  PROVE  /\ t \in Types /\ t # MeshRenderer
         /\ \/ e \in DOMAIN SceneView[t] /\ Store!Edit(e, t, v)
            \/ UNCHANGED Store!storeVars
<1> DEFINE p == Pool(pools, t)
<1>0. t \in Types /\ t # MeshRenderer
  BY RegistryAssumption DEF Types
<1>1. /\ t \in DOMAIN pools /\ HasComponent(e, t)
      /\ pools' = [pools EXCEPT ![t] = Assign(pools[t], e, v)]
      /\ active' = active /\ nextID' = nextID /\ meshes' = meshes
      /\ running' = running /\ disk' = disk /\ running
      /\ strays' = strays /\ savedStrays' = savedStrays
  BY DEF Edit, HasComponent
<1>2. \A u : Pool(pools', u) = IF u = t THEN Assign(p, e, v) ELSE Pool(pools, u)
  BY <1>1 DEF Pool
<1>3. PoolOK(p, Entity, PayloadIn(t, meshes), strays) /\ Has(p, e) /\ v \in PayloadIn(t, meshes)
  BY <1>0, <1>1, AnyPoolOK DEF PayloadIn
<1>4. PoolView(Assign(p, e, v), t, meshes, strays) = [PoolView(p, t, meshes, strays) EXCEPT ![e] = v]
  BY <1>0, <1>3, PoolViewAssign
<1>5. SceneView' = [SceneView EXCEPT ![t][e] = v]
  BY <1>0, <1>1, <1>2, <1>4, SceneViewIs DEF ViewOf
<1>6. SceneView[t] = PoolView(p, t, meshes, strays) /\ DOMAIN SceneView[t] = Owners(p) \ strays
  BY <1>0, SceneViewIs DEF ViewOf, PoolView
<1>7. (ActiveSet \ strays)' = ActiveSet \ strays /\ (0 .. nextID - 1)' = 0 .. nextID - 1
  BY <1>1, SameAlive
<1>8. CASE e \notin strays
  <2>1. e \in DOMAIN SceneView[t]
    BY <1>3, <1>6, <1>8, OwnersAre
  <2>2. QED BY <1>0, <1>1, <1>5, <1>7, <2>1, SameNames, SameFile DEF Store!Edit
<1>9. CASE e \in strays
  <2>1. [PoolView(p, t, meshes, strays) EXCEPT ![e] = v] = PoolView(p, t, meshes, strays)
    <3>1. e \notin DOMAIN PoolView(p, t, meshes, strays)
      BY <1>9 DEF PoolView
    <3>2. QED BY <3>1 DEF PoolView
  <2>2. SceneView' = SceneView
    BY <1>0, <1>1, <1>2, <1>4, <2>1, SceneViewIs DEF ViewOf
  <2>3. QED BY <1>0, <1>1, <1>7, <2>2, SameStore
<1>10. QED BY <1>8, <1>9

LEMMA DestroyStore ==
  ASSUME RegistryInv, NEW e \in Entity, Destroy(e)
  PROVE  Store!Destroy(e) \/ UNCHANGED Store!storeVars
<1>1. /\ pools' = [u \in DOMAIN pools |-> Remove(pools[u], e)]
      /\ e \in ActiveSet
      /\ nextID' = nextID /\ meshes' = meshes /\ running' = running /\ disk' = disk /\ running
      /\ strays' = strays /\ savedStrays' = savedStrays
  BY DEF Destroy
<1>2. ActiveSet' = ActiveSet \ {e}
  <2>1. PICK k \in 1 .. Len(active) : active[k] = e /\ active' = SwapAndPop(active, k)
    BY DEF Destroy, PositionsOf
  <2>2. /\ active \in Seq(Entity) /\ Len(active) \in Nat
        /\ \A i, j \in 1 .. Len(active) : active[i] = active[j] => i = j
    BY DEF RegistryInv, SceneOK
  <2> DEFINE r == SwapAndPop(active, k)
  <2>3. /\ Len(r) = Len(active) - 1
        /\ {r[i] : i \in 1 .. Len(active) - 1} = {active[i] : i \in 1 .. Len(active)} \ {active[k]}
    BY <2>2, SwapAndPopOK, Zenon
  <2>4. active' = r
    BY <2>1
  <2> HIDE DEF r
  <2>5. QED BY <2>1, <2>3, <2>4 DEF ActiveSet
<1>3. ASSUME NEW u \in Types
      PROVE  ViewOf(pools', u, meshes, strays) = Store!Without(ViewOf(pools, u, meshes, strays), e)
  <2>1. Pool(pools', u) = Remove(Pool(pools, u), e)
    BY <1>1, PoolAfter
  <2>2. PoolOK(Pool(pools, u), Entity, PayloadIn(u, meshes), strays)
    BY AnyPoolOK
  <2>3. QED BY <2>1, <2>2, PoolViewRemove DEF ViewOf
<1>4. SceneView' = [u \in Types |-> Store!Without(SceneView[u], e)]
  BY <1>1, <1>3, SceneViewIs
<1>5. (0 .. nextID - 1)' = 0 .. nextID - 1
  BY <1>1
<1>6. CASE e \notin strays
  <2>1. (ActiveSet \ strays)' = (ActiveSet \ strays) \ {e} /\ e \in ActiveSet \ strays
    BY <1>1, <1>2, <1>6
  <2>2. QED BY <1>1, <1>4, <1>5, <2>1, SameNames, SameFile DEF Store!Destroy
<1>7. CASE e \in strays
  <2>1. (ActiveSet \ strays)' = ActiveSet \ strays
    BY <1>1, <1>2, <1>7
  <2>2. ASSUME NEW u \in Types PROVE Store!Without(SceneView[u], e) = SceneView[u]
    <3>1. /\ SceneView[u] = [x \in DOMAIN SceneView[u] |-> SceneView[u][x]]
          /\ e \notin DOMAIN SceneView[u]
      BY <1>7, SceneViewIs DEF ViewOf, PoolView
    <3>2. QED BY <3>1 DEF Store!Without
  <2>3. SceneView' = SceneView
    BY <1>4, <2>2, SceneViewIs
  <2>4. QED BY <1>1, <2>1, <2>3, SameStore
<1>8. QED BY <1>6, <1>7

\* What a file holds of a type, as the map from entities to saved components, the
\* strays in S apart.
FileViewOf(file, t, S) ==
  IF t \notin DOMAIN file THEN <<>>
  ELSE LET j == file[t]
       IN [e \in {j.entities[i] : i \in 1 .. Len(j.entities)} \ S |->
             j.components[LastIndexOf(j.entities, e)]]

LEMMA FileViewIs ==
  /\ FileView = [t \in Types |-> FileViewOf(disk.content, t, savedStrays)]
  /\ FileView' = [t \in Types |-> FileViewOf(disk'.content, t, savedStrays')]
BY DEF FileView, FileViewOf

\* A pool is saved as the map it shows.
LEMMA SavedView ==
  ASSUME RegistryInv, NEW t \in DOMAIN pools,
         NEW file, file = [u \in DOMAIN pools |-> Saved(u)]
  PROVE  FileViewOf(file, t, strays) = ViewOf(pools, t, meshes, strays)
<1> DEFINE p == pools[t]
           n == Len(p.entities)
<1>1. /\ p.entities \in Seq(Entity) /\ n \in Nat /\ Len(p.data) = n
      /\ \A i \in 1 .. n : /\ p.entities[i] \in DOMAIN p.sparse
                           /\ p.sparse[p.entities[i]] = i \/ p.entities[i] \in strays
      /\ \A e \in DOMAIN p.sparse : p.sparse[e] # NoIndex =>
           p.sparse[e] \in 1 .. n /\ p.entities[p.sparse[e]] = e
  BY DEF RegistryInv, SceneOK, PoolOK, PoolShape, Consistent
<1>2. /\ Saved(t).entities = p.entities
      /\ \A i \in 1 .. n : Saved(t).components[i] = ShownAs(t, meshes, p.data[i])
  BY <1>1 DEF Saved, Serialize, ShownAs, NameIn, MeshName
<1>3. Owners(p) \ strays = {p.entities[i] : i \in 1 .. n} \ strays
  <2>1. \A e \in Owners(p) : p.sparse[e] \in 1 .. n /\ p.entities[p.sparse[e]] = e
    BY <1>1 DEF Owners
  <2>2. \A i \in 1 .. n : p.entities[i] \notin strays => p.entities[i] \in Owners(p)
    BY <1>1 DEF Owners, NoIndex
  <2>3. QED BY <2>1, <2>2
<1>4. ASSUME NEW e \in Owners(p) \ strays
      PROVE  Saved(t).components[LastIndexOf(p.entities, e)] = ShownAs(t, meshes, Get(p, e))
  <2>1. p.sparse[e] \in 1 .. n /\ p.entities[p.sparse[e]] = e
    BY <1>1 DEF Owners
  <2>2. \A a \in 1 .. Len(p.entities) : p.entities[a] = p.entities[p.sparse[e]] => a = p.sparse[e]
    BY <1>1, <2>1
  <2>3. LastIndexOf(p.entities, p.entities[p.sparse[e]]) = p.sparse[e]
    BY <1>1, <2>1, <2>2, LastIndexUnique
  <2>4. QED BY <1>2, <2>1, <2>3 DEF Get
<1>5. FileViewOf(file, t, strays) =
        [e \in Owners(p) \ strays |-> Saved(t).components[LastIndexOf(p.entities, e)]]
  BY <1>2, <1>3 DEF FileViewOf
<1>6. ViewOf(pools, t, meshes, strays) = [e \in Owners(p) \ strays |-> ShownAs(t, meshes, Get(p, e))]
  BY DEF ViewOf, PoolView, Pool
<1>7. QED BY <1>4, <1>5, <1>6

LEMMA SaveStore ==
  ASSUME RegistryInv, Save
  PROVE  Store!Save
<1>1. /\ running' = running /\ pools' = pools /\ active' = active /\ nextID' = nextID
      /\ meshes' = meshes /\ strays' = strays /\ running
  BY DEF Save
<1>2. (ActiveSet \ strays)' = ActiveSet \ strays /\ (0 .. nextID - 1)' = 0 .. nextID - 1
  BY <1>1, SameAlive
<1>3. SceneView' = SceneView
  BY <1>1, SceneViewIs
<1>4. [kind |-> disk.kind, content |-> FileView, strays |-> savedStrays]' =
        [kind |-> disk'.kind, content |-> [t \in Types |-> FileViewOf(disk'.content, t, savedStrays')],
         strays |-> savedStrays']
  BY FileViewIs
<1>5. CASE disk' = TornFile /\ savedStrays' = {}
  <2>1. disk'.kind = "torn" /\ \A t : FileViewOf(disk'.content, t, savedStrays') = <<>>
    BY <1>5 DEF TornFile, FileViewOf
  <2>2. QED BY <1>1, <1>2, <1>3, <1>4, <1>5, <2>1, SameNames DEF Store!Save, Store!NoComponents
<1>6. CASE disk' = WholeFile([t \in DOMAIN pools |-> Saved(t)]) /\ savedStrays' = strays
  <2> DEFINE f == disk'.content
  <2>1. disk'.kind = "whole" /\ f = [t \in DOMAIN pools |-> Saved(t)]
    BY <1>6 DEF WholeFile
  <2>2. ASSUME NEW t \in Types
        PROVE  FileViewOf(f, t, strays) = ViewOf(pools, t, meshes, strays)
    <3>1. CASE t \in DOMAIN pools
      BY <2>1, <3>1, SavedView
    <3>2. CASE t \notin DOMAIN pools
      <4>1. FileViewOf(f, t, strays) = <<>>
        BY <2>1, <3>2 DEF FileViewOf
      <4>2. ViewOf(pools, t, meshes, strays) = <<>>
        BY <3>2, EmptyView DEF ViewOf, Pool
      <4>3. QED BY <4>1, <4>2
    <3>3. QED BY <3>1, <3>2
  <2> HIDE DEF f
  <2>3. [t \in Types |-> FileViewOf(f, t, strays)] = SceneView
    BY <2>2, SceneViewIs
  <2>4. QED BY <1>1, <1>2, <1>3, <1>4, <1>6, <2>1, <2>3, SameNames DEF Store!Save, f
<1>7. QED BY <1>5, <1>6 DEF Save

-----------------------------------------------------------------------------
\* Loading: what a run with another catalogue gets back.

NamesOf(cat) == {cat[i] : i \in 1 .. Len(cat)}

\* A pool read back shows what its two lists say, strays apart.
ReadsBack(j, S) ==
  /\ Owners(Deserialize(j)) = NamedIn(j.entities)
  /\ \A k \in 1 .. Len(j.entities) :
       j.entities[k] \notin S => Get(Deserialize(j), j.entities[k]) = j.components[k]

LEMMA DeserializedView ==
  ASSUME NEW Data, NEW S, NEW j, ListsOK(j, Entity, Data, S)
  PROVE  ReadsBack(j, S)
<1>1. ListsOK(j, 0 .. MaxID, Data, S) /\ MaxID \in Nat /\ 0 .. MaxID \subseteq Nat
  BY TypesFacts DEF Entity
<1>2. Owners(Deserialize(j)) = NamedIn(j.entities)
  BY <1>1, DeserializeOK
<1>3. ASSUME NEW k \in 1 .. Len(j.entities), j.entities[k] \notin S
      PROVE  Get(Deserialize(j), j.entities[k]) = j.components[k]
  BY <1>1, <1>3, GetAfterDeserialize
<1>4. QED BY <1>2, <1>3 DEF ReadsBack

\* The name behind the id a restored mesh gets is the name that was saved.
LEMMA NameOfMeshID ==
  ASSUME NEW cat, NEW name \in NamesOf(cat), Len(cat) \in Nat
  PROVE  NameIn(cat, MeshID(cat, name)) = name
<1> DEFINE i == CHOOSE k \in 1 .. Len(cat) : cat[k] = name
<1>1. \E k \in 1 .. Len(cat) : cat[k] = name
  BY DEF NamesOf
<1>2. i \in 1 .. Len(cat) /\ cat[i] = name
  BY <1>1
<1>3. MeshID(cat, name) = i - 1
  BY DEF MeshID
<1> HIDE DEF i
<1>4. (i - 1) + 1 = i
  BY <1>2
<1>5. QED BY <1>2, <1>3, <1>4 DEF NameIn

\* The rows load resolves are all those whose mesh the run knows.
LEMMA EveryRow ==
  ASSUME NEW file, NEW cat, MeshRenderer \in DOMAIN file, NEW rows \in Resolvable(file, cat),
         Len(file[MeshRenderer].components) \in Nat
  PROVE  {rows[k] : k \in DOMAIN rows} =
           {i \in 1 .. Len(file[MeshRenderer].components) :
              file[MeshRenderer].components[i] \in NamesOf(cat)}
<1> DEFINE f == file[MeshRenderer]
           row == {i \in 1 .. Len(f.components) : f.components[i] \in NamesOf(cat)}
           m == Cardinality(row)
<1>1. IsFiniteSet(row) /\ m \in Nat
  <2>1. IsFiniteSet(1 .. Len(f.components))
    BY FS_Interval
  <2>2. IsFiniteSet(row)
    BY <2>1, FS_Subset
  <2>3. QED BY <2>2, FS_CardinalityType
<1>2. /\ rows \in [1 .. m -> row]
      /\ \A a, b \in 1 .. m : a < b => rows[a] < rows[b]
  BY DEF Resolvable, NamesOf
<1>3. \A i \in row : i \in Nat
  OBVIOUS
<1> HIDE DEF row, m, f
<1>4. rows \in Injection(1 .. m, row)
  <2>1. ASSUME NEW a \in 1 .. m, NEW b \in 1 .. m, rows[a] = rows[b] PROVE a = b
    <3>1. rows[a] \in Nat /\ rows[b] \in Nat
      BY <1>2, <1>3
    <3>2. ~(a < b) /\ ~(b < a)
      BY <1>2, <2>1, <3>1
    <3>3. QED BY <1>1, <3>2
  <2>2. QED BY <1>2, <2>1 DEF Injection, IsInjective
<1>5. Cardinality(1 .. m) = Cardinality(row)
  <2>1. Cardinality(1 .. m) = IF 1 > m THEN 0 ELSE m - 1 + 1
    BY <1>1, FS_Interval
  <2>2. QED BY <1>1, <2>1 DEF m
<1>6. rows \in Surjection(1 .. m, row)
  BY <1>1, <1>4, <1>5, FS_Injection
<1>7. {rows[k] : k \in DOMAIN rows} = row
  BY <1>2, <1>6 DEF Surjection
<1>8. QED BY <1>7 DEF row, f

\* What the file promises of a type to a run with the catalogue cat.
ReadBack(file, t, cat, S) ==
  IF t \notin Restored THEN <<>>
  ELSE [e \in {x \in DOMAIN FileViewOf(file, t, S) :
                 t = MeshRenderer => FileViewOf(file, t, S)[x] \in NamesOf(cat)} |->
          FileViewOf(file, t, S)[e]]

LEMMA RestoredView ==
  ASSUME NEW file, NEW S, FileOK(file, S), NEW cat \in Catalogues, NEW rows \in Resolvable(file, cat),
         NEW ps, ps = RestoredPools(file, cat, rows), NEW t \in Types
  PROVE  ViewOf(ps, t, cat, S) = ReadBack(file, t, cat, S)
<1> DEFINE F == FileViewOf(file, t, S)
           f == file[t]
           n == Len(f.entities)
<1>1. DOMAIN ps = Restored \cap DOMAIN file
  BY DEF RestoredPools
<1>2. CASE t \notin DOMAIN ps
  <2>1. ViewOf(ps, t, cat, S) = <<>>
    BY <1>2, EmptyView DEF ViewOf, Pool
  <2>2. t \in Restored => F = <<>>
    BY <1>1, <1>2 DEF FileViewOf
  <2>3. QED BY <2>1, <2>2 DEF ReadBack
<1>3. CASE t \in DOMAIN ps
  <2>1. /\ t \in Restored /\ t \in DOMAIN file
        /\ ListsOK(f, Entity, IF t = MeshRenderer THEN MeshNames \cup {""} ELSE Values, S)
        /\ f.entities \in Seq(Entity) /\ n \in Nat /\ Len(f.components) = n
        /\ RowsApart(f.entities, S)
    <3>1. t \in Restored /\ t \in DOMAIN file
      BY <1>1, <1>3
    <3>2. ListsOK(f, Entity, IF t = MeshRenderer THEN MeshNames \cup {""} ELSE Values, S)
      BY <3>1, Zenon DEF FileOK, ListsOK, RowsApart
    <3>3. /\ f.entities \in Seq(Entity)
          /\ Len(f.entities) = Len(f.components)
          /\ RowsApart(f.entities, S)
      BY <3>2, Zenon DEF ListsOK
    <3> HIDE DEF f
    <3>4. n \in Nat
      BY <3>3
    <3> HIDE DEF n
    <3>5. n = Len(f.entities)
      BY DEF n
    <3>6. QED BY <3>1, <3>2, <3>3, <3>4, <3>5
  <2>2. /\ DOMAIN F = {f.entities[k] : k \in 1 .. n} \ S
        /\ \A k \in 1 .. n : f.entities[k] \notin S => F[f.entities[k]] = f.components[k]
    <3>1. ASSUME NEW k \in 1 .. n, f.entities[k] \notin S
          PROVE  LastIndexOf(f.entities, f.entities[k]) = k
      <4>1. \A a \in 1 .. n : f.entities[a] = f.entities[k] => a = k
        BY <2>1, <3>1 DEF RowsApart
      <4>2. QED BY <2>1, <4>1, LastIndexUnique
    <3>2. F = [e \in {f.entities[k] : k \in 1 .. n} \ S |-> f.components[LastIndexOf(f.entities, e)]]
      BY <2>1 DEF FileViewOf
    <3> HIDE DEF F, f
    <3>3. QED BY <3>1, <3>2
  <2>3. CASE t # MeshRenderer
    <3>1. ps[t] = Deserialize(f)
      BY <1>1, <1>3, <2>3 DEF RestoredPools
    <3>2. /\ Owners(Deserialize(f)) = {f.entities[k] : k \in 1 .. n}
          /\ \A k \in 1 .. n : f.entities[k] \notin S => Get(Deserialize(f), f.entities[k]) = f.components[k]
      <4> DEFINE D == IF t = MeshRenderer THEN MeshNames \cup {""} ELSE Values
      <4>1. ListsOK(f, Entity, D, S)
        BY <2>1
      <4> HIDE DEF f, D
      <4>2. ReadsBack(f, S)
        BY <4>1, DeserializedView
      <4>3. QED BY <4>2 DEF ReadsBack, NamedIn
    <3>3. ViewOf(ps, t, cat, S) = [e \in Owners(Deserialize(f)) \ S |-> Get(Deserialize(f), e)]
      BY <1>3, <2>3, <3>1 DEF ViewOf, Pool, PoolView, ShownAs
    <3> HIDE DEF F, f
    <3>4. ViewOf(ps, t, cat, S) = [e \in DOMAIN F |-> F[e]]
      BY <2>2, <3>2, <3>3
    <3>5. QED BY <2>1, <2>3, <3>4 DEF F, ReadBack
  <2>4. CASE t = MeshRenderer
    <3> DEFINE j == Resolve(f, cat, rows)
               row == {i \in 1 .. n : f.components[i] \in NamesOf(cat)}
    <3>1. ps[t] = Deserialize(j)
      BY <1>1, <1>3, <2>4 DEF RestoredPools
    <3>2. ListsOK(j, Entity, 0 .. Len(cat) - 1, S)
      <4> DEFINE k == Resolve(file[MeshRenderer], cat, rows)
      <4>1. ListsOK(k, Entity, 0 .. Len(cat) - 1, S)
        BY <2>1, <2>4, ResolveOK, Zenon
      <4>2. j = k
        BY <2>4
      <4> HIDE DEF j, k
      <4>3. QED BY <4>1, <4>2
    <3>3. /\ Owners(Deserialize(j)) = {j.entities[k] : k \in 1 .. Len(j.entities)}
          /\ \A k \in 1 .. Len(j.entities) :
               j.entities[k] \notin S => Get(Deserialize(j), j.entities[k]) = j.components[k]
      <4> HIDE DEF j
      <4>1. ReadsBack(j, S)
        BY <3>2, DeserializedView
      <4>2. QED BY <4>1 DEF ReadsBack, NamedIn
    <3>4. {rows[k] : k \in DOMAIN rows} = row
      <4>1. {rows[k] : k \in DOMAIN rows} =
              {i \in 1 .. Len(file[MeshRenderer].components) :
                 file[MeshRenderer].components[i] \in NamesOf(cat)}
        <5>1. MeshRenderer \in DOMAIN file /\ Len(file[MeshRenderer].components) \in Nat
          BY <2>1, <2>4
        <5>2. rows \in Resolvable(file, cat)
          OBVIOUS
        <5>3. QED BY <5>1, <5>2, EveryRow
      <4>2. QED BY <2>1, <2>4, <4>1
    <3>5. /\ j.entities = [k \in DOMAIN rows |-> f.entities[rows[k]]]
          /\ j.components = [k \in DOMAIN rows |-> MeshID(cat, f.components[rows[k]])]
          /\ 1 .. Len(j.entities) = DOMAIN rows
      <4>1. /\ j.entities = [k \in DOMAIN rows |-> f.entities[rows[k]]]
            /\ j.components = [k \in DOMAIN rows |-> MeshID(cat, f.components[rows[k]])]
        BY DEF Resolve
      <4>2. DOMAIN j.entities = 1 .. Len(j.entities)
        <5>1. j.entities \in Seq(Entity)
          BY <3>2, Zenon DEF ListsOK
        <5> HIDE DEF j
        <5>2. QED BY <5>1
      <4>3. DOMAIN j.entities = DOMAIN rows
        BY <4>1
      <4>4. QED BY <4>1, <4>2, <4>3
    <3>6. Len(cat) \in Nat
      BY TypesFacts
    <3> DEFINE q == Deserialize(j)
               R == {x \in DOMAIN F : F[x] \in NamesOf(cat)}
    <3>7. ViewOf(ps, t, cat, S) = [e \in Owners(q) \ S |-> NameIn(cat, Get(q, e))]
      BY <1>3, <2>4, <3>1 DEF ViewOf, Pool, PoolView, ShownAs
    <3> HIDE DEF F, f, q, j
    <3>8. ASSUME NEW k \in DOMAIN rows, f.entities[rows[k]] \notin S
          PROVE  /\ f.entities[rows[k]] \in R
                 /\ NameIn(cat, Get(q, f.entities[rows[k]])) = F[f.entities[rows[k]]]
      <4>1. rows[k] \in row
        BY <3>4
      <4>2. rows[k] \in 1 .. n /\ f.components[rows[k]] \in NamesOf(cat)
        BY <4>1
      <4>3. F[f.entities[rows[k]]] = f.components[rows[k]]
        BY <2>2, <3>8, <4>2
      <4>4. Get(q, f.entities[rows[k]]) = MeshID(cat, f.components[rows[k]])
        BY <3>3, <3>5, <3>8 DEF q
      <4>5. QED BY <2>2, <3>6, <3>8, <4>2, <4>3, <4>4, NameOfMeshID
    <3>9. Owners(q) \ S = {f.entities[rows[k]] : k \in DOMAIN rows} \ S
      BY <3>3, <3>5 DEF q
    <3>10. ASSUME NEW x \in R PROVE x \notin S /\ \E k \in DOMAIN rows : x = f.entities[rows[k]]
      <4>1. PICK i \in 1 .. n : x = f.entities[i] /\ F[x] = f.components[i] /\ x \notin S
        BY <2>2
      <4>2. i \in row
        BY <4>1
      <4>3. PICK k \in DOMAIN rows : rows[k] = i
        BY <3>4, <4>2
      <4>4. QED BY <4>1, <4>3
    <3> HIDE DEF R, row, n
    <3>11. Owners(q) \ S = R
      BY <3>8, <3>9, <3>10
    <3>12. \A e \in R : NameIn(cat, Get(q, e)) = F[e]
      BY <3>8, <3>10
    <3>13. ViewOf(ps, t, cat, S) = [e \in R |-> F[e]]
      BY <3>7, <3>11, <3>12
    <3>14. QED BY <2>1, <2>4, <3>13 DEF F, R, ReadBack
  <2>5. QED BY <2>3, <2>4
<1>4. QED BY <1>2, <1>3

\* Loading a file replaces the scene by what the store promises to give back.
LEMMA ReplacedView ==
  ASSUME DiskOK, meshes' \in Catalogues, RestoreFrom(disk.content, meshes')
  PROVE  Store!Replace(KnownNames')
<1> DEFINE file == disk.content
           cat == meshes'
           S == savedStrays
<1>0. FileOK(file, S) /\ S = savedStrays /\ S \subseteq Entity /\ cat \in Catalogues
  BY DEF DiskOK
<1>1. PICK rows \in Resolvable(file, cat) : pools' = RestoredPools(file, cat, rows)
  BY DEF RestoreFrom
<1>2. active' \in Orders(EntitiesIn(pools')) /\ strays' = S
  BY DEF RestoreFrom
<1> DEFINE ps == RestoredPools(file, cat, rows)
<1>3. RestoredOK(ps, file, cat, S)
  BY <1>0, <1>1, RestoredPoolsOK, Zenon
<1>4. SceneOK(pools', active', nextID', cat, strays')
  BY <1>0, RestoreOK, Zenon
<1>5. KnownNames' = NamesOf(cat)
  BY DEF KnownNames, NamesOf
<1>6. \A t \in Types : ViewOf(ps, t, cat, S) = ReadBack(file, t, cat, S)
  <2>1. FileOK(file, S) /\ cat \in Catalogues /\ rows \in Resolvable(file, cat)
    BY <1>0, <1>1
  <2> HIDE DEF file, cat, S
  <2>2. QED BY <2>1, RestoredView
<1>7. pools' = ps
  BY <1>1
<1> HIDE DEF ps, file, cat, S
<1>8. SceneView' = [t \in Types |-> ViewOf(ps, t, cat, S)]
  BY <1>2, <1>7, SceneViewIs DEF cat
<1>9. SceneView' = Store!Persisted(FileView, NamesOf(cat))
  <2>1. FileView = [t \in Types |-> FileViewOf(file, t, S)]
    BY FileViewIs DEF file, S
  <2>2. \A t \in Types : FileView[t] = FileViewOf(file, t, S)
    BY <2>1
  <2>3. Store!Persisted(FileView, NamesOf(cat)) = [t \in Types |-> ReadBack(file, t, cat, S)]
    BY <2>2 DEF Store!Persisted, ReadBack
  <2>4. QED BY <1>6, <1>8, <2>3
<1>10. ActiveSet' = EntitiesIn(ps)
  <2> DEFINE E == EntitiesIn(ps)
             n == Cardinality(E)
  <2>1. /\ active' \in [1 .. n -> E]
        /\ \A x \in E : \E i \in 1 .. n : active'[i] = x
    BY <1>2, <1>7 DEF Orders
  <2>2. DOMAIN active' = 1 .. Len(active')
    BY <1>4 DEF SceneOK
  <2>3. DOMAIN active' = 1 .. n
    BY <2>1
  <2> HIDE DEF E, n
  <2>4. {active'[i] : i \in 1 .. Len(active')} = E
    BY <2>1, <2>2, <2>3
  <2>5. QED BY <2>4 DEF ActiveSet, E
<1>11. EntitiesIn(ps) \ S = UNION {DOMAIN SceneView'[t] : t \in Types}
  <2>1. DOMAIN ps \subseteq Types
    BY <1>4, <1>7 DEF SceneOK
  <2>2. \A t \in DOMAIN ps : {ps[t].entities[i] : i \in 1 .. Len(ps[t].entities)} = Owners(ps[t])
    BY <1>3 DEF RestoredOK, NamedIn
  <2>3. \A t \in Types : DOMAIN SceneView'[t] = Owners(Pool(ps, t)) \ S
    BY <1>8 DEF ViewOf, PoolView
  <2>4. \A t : t \notin DOMAIN ps => Owners(Pool(ps, t)) = {}
    BY EmptyPoolOK DEF Pool
  <2>5. \A t \in DOMAIN ps : Pool(ps, t) = ps[t]
    BY DEF Pool
  <2>6. EntitiesIn(ps) = UNION {Owners(ps[t]) : t \in DOMAIN ps}
    BY <2>2 DEF EntitiesIn
  <2>7. UNION {Owners(ps[t]) : t \in DOMAIN ps} = UNION {Owners(Pool(ps, t)) : t \in Types}
    BY <2>1, <2>4, <2>5
  <2>8. UNION {DOMAIN SceneView'[t] : t \in Types} = (UNION {Owners(Pool(ps, t)) : t \in Types}) \ S
    BY <2>3
  <2>9. QED BY <2>6, <2>7, <2>8
<1>12. /\ nextID' \in 0 .. MaxID + 1
       /\ (0 .. nextID - 1)' = {e \in Store!Entity : e < nextID'}
       /\ ActiveSet' \subseteq (0 .. nextID - 1)'
  <2>1. /\ active' \in Seq(Entity) /\ nextID' \in 0 .. MaxID + 1
        /\ \A i \in 1 .. Len(active') : active'[i] < nextID'
    BY <1>4 DEF SceneOK
  <2>2. \A i \in 1 .. Len(active') : active'[i] \in 0 .. nextID' - 1
    BY <2>1, TypesFacts DEF Entity
  <2>3. 0 .. nextID' - 1 = {e \in Store!Entity : e < nextID'}
    BY <2>1, TypesFacts DEF Store!Entity
  <2>4. QED BY <2>1, <2>2, <2>3 DEF ActiveSet
<1>13. (0 .. nextID - 1)' \in {{e \in Store!Entity : e < n} : n \in 0 .. MaxID + 1}
  BY <1>12
<1>14. /\ (ActiveSet \ strays)' = UNION {DOMAIN SceneView'[t] : t \in Types}
       /\ (ActiveSet \ strays)' \subseteq (0 .. nextID - 1)'
  BY <1>2, <1>10, <1>11, <1>12
<1>15. strays' = savedStrays
  BY <1>2 DEF S
<1>16. QED BY <1>5, <1>9, <1>13, <1>14, <1>15 DEF Store!Replace

LEMMA StartStore ==
  ASSUME RegistryInv, Start
  PROVE  Store!Start
<1>1. DiskOK
  BY DEF RegistryInv
<1>2. ~running /\ meshes' \in Catalogues /\ disk' = disk /\ savedStrays' = savedStrays
  BY DEF Start
<1>3. KnownNames' \in {{c[i] : i \in 1 .. Len(c)} : c \in Catalogues}
  BY <1>2 DEF KnownNames
<1>4. \/ disk.kind = "absent" /\ Store!Reset /\ running'
      \/ disk.kind = "whole" /\ Store!Replace(KnownNames') /\ running'
      \/ disk.kind = "torn" /\ Store!Reset /\ ~running'
  <2>1. CASE disk.kind = "absent" /\ ClearRegistry /\ running' = TRUE
    BY <2>1, ClearedView
  <2>2. CASE disk.kind = "whole" /\ RestoreFrom(disk.content, meshes') /\ running' = TRUE
    BY <1>1, <1>2, <2>2, ReplacedView
  <2>3. CASE disk.kind = "torn" /\ ClearRegistry /\ running' = FALSE
    BY <2>3, ClearedView
  <2>4. QED BY <2>1, <2>2, <2>3 DEF Start
<1>5. QED BY <1>2, <1>3, <1>4, SameFile DEF Store!Start

LEMMA LoadStore ==
  ASSUME RegistryInv, Load
  PROVE  Store!Load \/ Store!Stop
<1>1. DiskOK /\ meshes \in Catalogues
  BY DEF RegistryInv
<1>2. running /\ meshes' = meshes /\ disk' = disk /\ savedStrays' = savedStrays
  BY DEF Load
<1>3. CASE disk.kind = "whole" /\ RestoreFrom(disk.content, meshes) /\ running' = running
  <2>1. Store!Replace(KnownNames)
    <3>1. meshes' \in Catalogues /\ RestoreFrom(disk.content, meshes')
      BY <1>1, <1>2, <1>3
    <3>2. Store!Replace(KnownNames')
      BY <1>1, <3>1, ReplacedView
    <3>3. QED BY <1>2, <3>2, SameNames
  <2>2. QED BY <1>2, <1>3, <2>1, SameNames, SameFile DEF Store!Load
<1>4. CASE Exit
  BY <1>2, <1>4, ExitStore
<1>5. QED BY <1>3, <1>4 DEF Load

LEMMA InitStore == Init => Store!Init
<1> SUFFICES ASSUME Init PROVE Store!Init
  OBVIOUS
<1>1. ActiveSet \ strays = {} /\ 0 .. nextID - 1 = {}
  BY DEF Init, ActiveSet
<1>2. SceneView = [t \in Types |-> <<>>]
  BY DEF Init, SceneView
<1>3. FileView = [t \in Types |-> <<>>] /\ disk.kind = "absent"
  BY DEF Init, FileView, NoFile
<1>4. KnownNames \in {{c[i] : i \in 1 .. Len(c)} : c \in Catalogues}
  BY DEF Init, KnownNames
<1>5. QED BY <1>1, <1>2, <1>3, <1>4 DEF Init, Store!Init, Store!NoComponents

LEMMA StepStore == RegistryInv /\ [Next]_vars => [Store!Next]_(Store!storeVars)
<1> SUFFICES ASSUME RegistryInv, [Next]_vars PROVE [Store!Next]_(Store!storeVars)
  OBVIOUS
<1>0. Store!Entity = Entity
  BY DEF Entity, Store!Entity
<1>1. CASE UNCHANGED vars
  <2>1. SceneView' = SceneView
    BY <1>1, SceneViewIs DEF vars
  <2>2. QED BY <1>1, <2>1, SameAlive, SameStore DEF vars
<1>2. CASE Start
  BY <1>2, StartStore DEF Store!Next
<1>3. CASE Terminate
  BY <1>3, ExitStore DEF Terminate, Store!Next
<1>4. ASSUME NEW m \in 0 .. Len(meshes) - 1, NEW v \in Values, Spawn(m, v)
      PROVE  Store!Next
  BY <1>0, <1>4, SpawnStore DEF Store!Next
<1>5. ASSUME NEW e \in Entity, NEW t \in Types, Attach(e, t)
      PROVE  Store!Next \/ UNCHANGED Store!storeVars
  BY <1>0, <1>5, AttachStore DEF Store!Next
<1>6. ASSUME NEW e \in Entity, NEW t \in Plain, NEW v \in Values, Edit(e, t, v)
      PROVE  Store!Next \/ UNCHANGED Store!storeVars
  BY <1>6, EditStore DEF Store!Next
<1>7. ASSUME NEW e \in Entity, Destroy(e) PROVE Store!Next \/ UNCHANGED Store!storeVars
  BY <1>0, <1>7, DestroyStore DEF Store!Next
<1>8. CASE Save
  BY <1>8, SaveStore DEF Store!Next
<1>9. CASE Load
  BY <1>9, LoadStore DEF Store!Next
<1>10. ASSUME NEW t \in Types, Visit(t) PROVE UNCHANGED Store!storeVars
  BY <1>10, TouchStore DEF Visit
<1>11. ASSUME NEW e \in Entity, Select(e) PROVE UNCHANGED Store!storeVars
  BY <1>11, SelectStore
<1>12. ASSUME NEW e \in Entity \cup {NoEntity}, Pick(e) PROVE UNCHANGED Store!storeVars
  BY <1>12, TouchStore DEF Pick
<1>13. QED
  BY <1>1, <1>2, <1>3, <1>4, <1>5, <1>6, <1>7, <1>8, <1>9, <1>10, <1>11, <1>12 DEF Next

\* Whatever the pools, the indices, the mesh ids and the stale selections of a run
\* do, the scene behaves as the store of EntityStore.
THEOREM SceneIsStore == Spec => ImplementsStore
<1>1. Spec => []RegistryInv
  BY InitOK, StepOK, PTL DEF Spec
<1>2. QED BY <1>1, InitStore, StepStore, PTL DEF Spec, ImplementsStore, Store!StoreSpec
=============================================================================
