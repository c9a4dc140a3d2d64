--------------------------- MODULE ComponentPool ---------------------------
(***************************************************************************)
(* The sparse set behind every component type of the engine's ECS          *)
(* (core/a_registry.hpp, class ComponentPool<T>), as operators on a pool.   *)
(*                                                                         *)
(* A pool is a record                                                      *)
(*   data      the dense vector of components,                             *)
(*   entities  the dense vector of their owners, parallel to data,         *)
(*   sparse    entity id -> position in the dense vectors, or NoIndex.     *)
(*                                                                         *)
(* Positions count from 1, so NoIndex (the code's INVALID_INDEX) is 0.     *)
(* sparse is a function on 0..n-1, n the size of the code's vector.        *)
(***************************************************************************)
EXTENDS Integers, Sequences

NoIndex == 0

EmptyPool == [data |-> <<>>, entities |-> <<>>, sparse |-> <<>>]

(***************************************************************************)
(* What a pool shows to its users: has, get, and the map of the two.       *)
(***************************************************************************)
Has(p, e) == e \in DOMAIN p.sparse /\ p.sparse[e] # NoIndex

Get(p, e) == p.data[p.sparse[e]]

Owners(p) == {e \in DOMAIN p.sparse : p.sparse[e] # NoIndex}

View(p) == [e \in Owners(p) |-> Get(p, e)]

(***************************************************************************)
(* add: the sparse vector grows to hold the entity, the new component goes *)
(* to the end of the dense vectors. The code does not look for an earlier  *)
(* component of the same entity, and neither does this.                    *)
(***************************************************************************)
Add(p, e, c) ==
  [data     |-> Append(p.data, c),
   entities |-> Append(p.entities, e),
   sparse   |-> [x \in DOMAIN p.sparse \cup 0..e |->
                   IF x = e THEN Len(p.data) + 1
                   ELSE IF x \in DOMAIN p.sparse THEN p.sparse[x] ELSE NoIndex]]

\* The vector s with its last element moved into position i: swap-and-pop.
SwapAndPop(s, i) ==
  [j \in 1 .. Len(s) - 1 |-> IF j = i THEN s[Len(s)] ELSE s[j]]

\* Defects of removeEntity for the mutation check: the removed entity's index is
\* invalidated before the last one's is redirected; the owners are not popped;
\* the vectors are popped without moving the last component.
RemoveInvalidatingFirst(p, e) ==
  IF ~Has(p, e) THEN p
  ELSE LET i == p.sparse[e]
           lastEntity == p.entities[Len(p.data)]
       IN [data     |-> SwapAndPop(p.data, i),
           entities |-> SwapAndPop(p.entities, i),
           sparse   |-> [p.sparse EXCEPT ![e] = NoIndex, ![lastEntity] = i]]

RemoveKeepingOwner(p, e) ==
  IF ~Has(p, e) THEN p
  ELSE [data     |-> SwapAndPop(p.data, p.sparse[e]),
        entities |-> p.entities,
        sparse   |-> [p.sparse EXCEPT ![e] = NoIndex]]

RemoveWithoutMove(p, e) ==
  IF ~Has(p, e) THEN p
  ELSE LET i == p.sparse[e]
           lastEntity == p.entities[Len(p.data)]
       IN [data     |-> SubSeq(p.data, 1, Len(p.data) - 1),
           entities |-> SwapAndPop(p.entities, i),
           sparse   |-> [p.sparse EXCEPT ![lastEntity] = i, ![e] = NoIndex]]

\* removeEntity. The last entity's index is redirected before the removed
\* entity's is invalidated, which matters when they are the same entity.
Remove(p, e) ==
  IF ~Has(p, e) THEN p
  ELSE LET i == p.sparse[e]
           lastEntity == p.entities[Len(p.data)]
       IN [data     |-> SwapAndPop(p.data, i),
           entities |-> SwapAndPop(p.entities, i),
           sparse   |-> [p.sparse EXCEPT ![lastEntity] = i, ![e] = NoIndex]]

\* A write through the reference that get returns.
Assign(p, e, c) == [p EXCEPT !.data = [p.data EXCEPT ![p.sparse[e]] = c]]

(***************************************************************************)
(* serializePool writes the dense vectors; deserializePool reads them back *)
(* and rebuilds the sparse vector, later entries overwriting earlier ones. *)
(***************************************************************************)
Serialize(p) == [entities |-> p.entities, components |-> p.data]

LastIndexOf(s, x) ==
  IF \E i \in 1 .. Len(s) : s[i] = x
  THEN CHOOSE i \in 1 .. Len(s) : s[i] = x /\ \A j \in i+1 .. Len(s) : s[j] # x
  ELSE NoIndex

Deserialize(j) ==
  [data     |-> j.components,
   entities |-> j.entities,
   sparse   |-> [x \in UNION {0 .. j.entities[i] : i \in 1 .. Len(j.entities)}
                   |-> LastIndexOf(j.entities, x)]]

(***************************************************************************)
(* The representation invariant of a pool: the dense vectors are parallel, *)
(* a sparse entry leads to a row of its own entity, and each row is the    *)
(* one its owner's entry leads to, the rows of the entities in S apart.    *)
(***************************************************************************)
PoolShape(p, Entity, Data) ==
  /\ p.data \in Seq(Data)
  /\ p.entities \in Seq(Entity)
  /\ Len(p.data) = Len(p.entities)
  /\ DOMAIN p.sparse \subseteq Entity
  /\ p.sparse \in [DOMAIN p.sparse -> 0 .. Len(p.data)]

Consistent(p, S) ==
  /\ \A e \in DOMAIN p.sparse :
       p.sparse[e] # NoIndex => /\ p.sparse[e] \in 1 .. Len(p.entities)
                                /\ p.entities[p.sparse[e]] = e
  /\ \A i \in 1 .. Len(p.entities) :
       /\ p.entities[i] \in DOMAIN p.sparse
       /\ p.sparse[p.entities[i]] = i \/ p.entities[i] \in S
=============================================================================
