------------------------------ MODULE Registry ------------------------------
(***************************************************************************)
(* The scene of the engine: the component registry (core/a_registry.hpp),  *)
(* the operations SceneManager and the editor panels perform on it, and    *)
(* SceneSerializer, which writes it to scene.json and reads it back in     *)
(* this or in a later run of the program.                                  *)
(*                                                                         *)
(* The component types are told apart by what the serializer does with     *)
(* them: Plain ones are written and read verbatim, MeshRenderer is written *)
(* by mesh name because mesh ids are only stable within a run, Bounds is   *)
(* the AABB attached last by addEntity, and WriteOnly types are written    *)
(* by save but looked up nowhere in load.                                  *)
(***************************************************************************)
EXTENDS ComponentPool, FiniteSets

CONSTANTS
  Plain,         \* Transform, Tag, Material
  MeshRenderer,  \* the MeshRenderer component type
  Bounds,        \* the AABB component type
  WriteOnly,     \* Device, ParticleSystem
  Values,        \* payloads of every type but MeshRenderer
  Default,       \* the payload of a default-constructed component
  MaxID,         \* largest entity id; MaxID + 1 stands for INVALID_ENTITY_ID
  MeshNames,     \* names of meshes
  EmptyMeshes,   \* names of meshes without vertices (getAABB throws on them)
  Catalogues     \* the mesh tables a run can have: id i is the mesh c[i+1]

Types == Plain \cup {MeshRenderer, Bounds} \cup WriteOnly

Restored == Plain \cup {MeshRenderer, Bounds}

Entity == 0 .. MaxID

NoEntity == MaxID + 1

Payload(t) == IF t = MeshRenderer THEN Nat ELSE Values

\* scene.json as the program can find it.
NoFile == [kind |-> "absent", content |-> <<>>]
TornFile == [kind |-> "torn", content |-> <<>>]
WholeFile(c) == [kind |-> "whole", content |-> c]

ASSUME RegistryAssumption ==
  /\ MaxID \in Nat
  /\ Default \in Values
  /\ MeshRenderer \notin Plain \cup WriteOnly
  /\ Bounds \notin Plain \cup WriteOnly
  /\ MeshRenderer # Bounds
  /\ Plain \cap WriteOnly = {}
  /\ Catalogues \subseteq Seq(MeshNames) \ {<<>>}

VARIABLES
  running,  \* whether the process is up
  pools,    \* m_Pools: component type -> pool, for the types seen so far
  active,   \* m_ActiveEntities
  nextID,   \* m_NextID
  meshes,   \* the mesh catalogue of this run (resource/resource_manager.cpp)
  disk,     \* scene.json: its kind and, when whole, type -> serialized pool
  selected, \* SelectionContext::m_SelectedEntity
  strays,   \* history variable: ids given a component while they were not active
  savedStrays  \* history variable: those the scene in scene.json had

vars == <<running, pools, active, nextID, meshes, disk, selected, strays, savedStrays>>

-----------------------------------------------------------------------------
\* Helpers on the registry.

\* getPool creates the pool of a type on first use.
Pool(ps, t) == IF t \in DOMAIN ps THEN ps[t] ELSE EmptyPool

HasComponent(e, t) == t \in DOMAIN pools /\ Has(pools[t], e)

Touched(ps, S) == [t \in DOMAIN ps \cup S |-> Pool(ps, t)]

\* addComponent for each type t in DOMAIN c, with payload c[t].
AddAll(ps, e, c) ==
  [t \in DOMAIN ps \cup DOMAIN c |->
     IF t \in DOMAIN c THEN Add(Pool(ps, t), e, c[t]) ELSE ps[t]]

PositionsOf(s, x) == {i \in 1 .. Len(s) : s[i] = x}

ActiveSet == {active[i] : i \in 1 .. Len(active)}

\* Every way an unordered_set can be copied into a vector.
Orders(S) ==
  {s \in [1 .. Cardinality(S) -> S] :
     /\ \A i, j \in 1 .. Cardinality(S) : s[i] = s[j] => i = j
     /\ \A x \in S : \E i \in 1 .. Cardinality(S) : s[i] = x}

EntitiesIn(ps) ==
  UNION {{ps[t].entities[i] : i \in 1 .. Len(ps[t].entities)} : t \in DOMAIN ps}

-----------------------------------------------------------------------------
\* Helpers of the serializer.

KnownNames == {meshes[i] : i \in 1 .. Len(meshes)}

\* getMeshNameByID: the empty name for an id the catalogue does not hold.
MeshName(id) == IF id + 1 \in 1 .. Len(meshes) THEN meshes[id + 1] ELSE ""

\* A defect: the position in the catalogue is taken for the id.
MeshIDFromOne(cat, name) == CHOOSE i \in 1 .. Len(cat) : cat[i] = name

\* tryGetMeshIDByName, for a name the catalogue cat holds.
MeshID(cat, name) == (CHOOSE i \in 1 .. Len(cat) : cat[i] = name) - 1

Saved(t) ==
  IF t = MeshRenderer
  THEN [entities   |-> pools[t].entities,
        components |-> [i \in 1 .. Len(pools[t].data) |-> MeshName(pools[t].data[i])]]
  ELSE Serialize(pools[t])

\* The rows of the MeshRenderer pool whose mesh the catalogue cat still has,
\* as the increasing sequence of their positions in the file.
Resolvable(file, cat) ==
  IF MeshRenderer \notin DOMAIN file THEN {<<>>}
  ELSE LET row == {i \in 1 .. Len(file[MeshRenderer].components) :
                     file[MeshRenderer].components[i] \in {cat[k] : k \in 1 .. Len(cat)}}
       IN {s \in [1 .. Cardinality(row) -> row] :
             \A i, j \in 1 .. Cardinality(row) : i < j => s[i] < s[j]}

Resolve(j, cat, rows) ==
  [entities   |-> [k \in DOMAIN rows |-> j.entities[rows[k]]],
   components |-> [k \in DOMAIN rows |-> MeshID(cat, j.components[rows[k]])]]

RestoredPools(file, cat, rows) ==
  [t \in Restored \cap DOMAIN file |->
     Deserialize(IF t = MeshRenderer THEN Resolve(file[t], cat, rows) ELSE file[t])]

\* A defect for the mutation check: the guard looks at the largest id alone, and
\* a scene whose only entity is 0 leaves m_NextID at 0.
NextIDAfterByMaxOnly(file, maxID) == IF maxID > 0 THEN maxID + 1 ELSE 0

NextIDAfter(file, maxID) ==
  IF maxID > 0 \/ DOMAIN file # {} THEN maxID + 1 ELSE 0

\* The body of SceneSerializer::load once the file has been parsed: only the
\* Restored types come back, m_NextID goes past the largest restored id, and
\* the active list is rebuilt from the pools in no particular order.
RestoreFrom(file, cat) ==
  \E rows \in Resolvable(file, cat) :
    /\ pools' = RestoredPools(file, cat, rows)
    /\ \E maxID \in EntitiesIn(pools') \cup {0} :
         /\ \A e \in EntitiesIn(pools') : e <= maxID
         /\ nextID' = NextIDAfter(file, maxID)
    /\ active' \in Orders(EntitiesIn(pools'))
    /\ strays' = savedStrays

ClearRegistry ==
  /\ pools' = <<>>
  /\ active' = <<>>
  /\ nextID' = 0
  /\ strays' = {}

\* The process ends, and with it the scene and the selection.
Exit ==
  /\ running' = FALSE
  /\ ClearRegistry
  /\ selected' = NoEntity

-----------------------------------------------------------------------------
Init ==
  /\ running = FALSE
  /\ pools = <<>>
  /\ active = <<>>
  /\ nextID = 0
  /\ meshes \in Catalogues
  /\ disk = NoFile
  /\ selected = NoEntity
  /\ strays = {}
  /\ savedStrays = {}

\* SDL_AppInit: the resource manager fills its catalogue, then scene.json is
\* loaded if it exists.
Start ==
  /\ ~running
  /\ meshes' \in Catalogues
  /\ \/ /\ disk.kind = "absent"
        /\ running' = TRUE
        /\ ClearRegistry
     \/ /\ disk.kind = "whole"
        /\ running' = TRUE
        /\ RestoreFrom(disk.content, meshes')
     \/ /\ disk.kind = "torn"     \* the parser throws out of SDL_AppInit
        /\ running' = FALSE
        /\ ClearRegistry
  /\ UNCHANGED <<disk, selected, savedStrays>>

\* The process ends: on request, by a kill, or by an exception nobody catches.
Terminate ==
  /\ running
  /\ Exit
  /\ UNCHANGED <<meshes, disk, savedStrays>>

\* SceneManager::addEntity for mesh id m. An empty mesh makes getAABB throw
\* and the program ends; the entity it leaves behind dies with the process.
Spawn(m, v) ==
  /\ running
  /\ nextID <= MaxID
  /\ IF meshes[m + 1] \in EmptyMeshes
     THEN Exit
     ELSE /\ nextID' = nextID + 1
          /\ active' = Append(active, nextID)
          /\ pools' = AddAll(pools, nextID,
                             [t \in Restored |->
                                IF t = MeshRenderer THEN m
                                ELSE IF t = Bounds THEN Default ELSE v])
          /\ UNCHANGED <<running, selected, strays>>
  /\ UNCHANGED <<meshes, disk, savedStrays>>

\* The geometry pass, picking and the component search ask for pools (getPool,
\* EntityHandle::has), which creates the missing ones.
Visit(t) ==
  /\ running
  /\ t \notin DOMAIN pools
  /\ pools' = Touched(pools, {t})
  /\ UNCHANGED <<running, active, nextID, meshes, disk, selected, strays, savedStrays>>

\* HierarchyPanel::selectEntity, by a click or by opening a context menu.
Select(e) ==
  /\ running
  /\ e \in ActiveSet
  /\ selected' = e
  /\ UNCHANGED <<running, pools, active, nextID, meshes, disk, strays, savedStrays>>

\* Editor::editorPicking: a click hits an entity with bounds and a transform,
\* active or not, or nothing at all.
Pick(e) ==
  /\ running
  /\ \/ e = NoEntity
     \/ HasComponent(e, Bounds) /\ \E t \in Plain : HasComponent(e, t)
  /\ pools' = Touched(pools, {Bounds})
  /\ selected' = e
  /\ UNCHANGED <<running, active, nextID, meshes, disk, strays, savedStrays>>

\* DetailsPanel::renderComponentList asks every type's pool, offers the types
\* the selected entity lacks and adds a value-initialised component: mesh id 0
\* for MeshRenderer. Nothing asks whether the entity is active: after a load the
\* selection can be an id of the scene before, which the component makes a stray.
Attach(e, t) ==
  /\ running
  /\ e = selected
  /\ ~HasComponent(e, t)
  /\ pools' = AddAll(Touched(pools, Types), e,
                     [u \in {t} |-> IF t = MeshRenderer THEN 0 ELSE Default])
  /\ strays' = IF e \in ActiveSet THEN strays ELSE strays \cup {e}
  /\ UNCHANGED <<running, active, nextID, meshes, disk, selected, savedStrays>>

\* An inspector widget writes through the reference get<T>() returned.
Edit(e, t, v) ==
  /\ running
  /\ HasComponent(e, t)
  /\ pools' = [pools EXCEPT ![t] = Assign(pools[t], e, v)]
  /\ UNCHANGED <<running, active, nextID, meshes, disk, selected, strays, savedStrays>>

\* ComponentRegistry::destroyEntity, from the hierarchy's context menu, which has
\* selected the entity when it was opened and deselects it.
Destroy(e) ==
  /\ running
  /\ e \in ActiveSet
  /\ e = selected
  /\ pools' = [t \in DOMAIN pools |-> Remove(pools[t], e)]
  /\ \E i \in PositionsOf(active, e) :
       /\ \A j \in PositionsOf(active, e) : i <= j
       /\ active' = SwapAndPop(active, i)
  /\ selected' = NoEntity
  /\ UNCHANGED <<running, nextID, meshes, disk, strays, savedStrays>>

\* SceneSerializer::save. The stream is not checked after the write, so a
\* write cut short (or a kill in the middle of it) leaves a torn file.
Save ==
  /\ running
  /\ \/ /\ disk' = WholeFile([t \in DOMAIN pools |-> Saved(t)])
        /\ savedStrays' = strays
     \/ /\ disk' = TornFile
        /\ savedStrays' = {}
  /\ UNCHANGED <<running, pools, active, nextID, meshes, selected, strays>>

\* SceneSerializer::load from the File menu. The registry is cleared before
\* the file is opened; a missing or torn file throws and ends the program. The
\* selection is left as it was.
Load ==
  /\ running
  /\ \/ /\ disk.kind = "whole"
        /\ RestoreFrom(disk.content, meshes)
        /\ UNCHANGED <<running, selected>>
     \/ /\ disk.kind # "whole"
        /\ Exit
  /\ UNCHANGED <<meshes, disk, savedStrays>>

Next ==
  \/ Start
  \/ Terminate
  \/ \E m \in 0 .. Len(meshes) - 1, v \in Values : Spawn(m, v)
  \/ \E t \in Types : Visit(t)
  \/ \E e \in Entity : Select(e)
  \/ \E e \in Entity \cup {NoEntity} : Pick(e)
  \/ \E e \in Entity, t \in Types : Attach(e, t)
  \/ \E e \in Entity, t \in Plain, v \in Values : Edit(e, t, v)
  \/ \E e \in Entity : Destroy(e)
  \/ Save
  \/ Load

Spec == Init /\ [][Next]_vars

-----------------------------------------------------------------------------
\* The scene as its users see it, strays apart, and the refinement of
\* EntityStore: pools as the maps that has and get show, mesh ids as the names
\* they stand for.
SceneView ==
  [t \in Types |->
     IF t \notin DOMAIN pools THEN <<>>
     ELSE [e \in Owners(pools[t]) \ strays |->
             IF t = MeshRenderer THEN MeshName(Get(pools[t], e)) ELSE Get(pools[t], e)]]

FileView ==
  [t \in Types |->
     IF t \notin DOMAIN disk.content THEN <<>>
     ELSE LET j == disk.content[t]
          IN [e \in {j.entities[i] : i \in 1 .. Len(j.entities)} \ savedStrays |->
                j.components[LastIndexOf(j.entities, e)]]]

Store == INSTANCE EntityStore WITH
           Derived <- {Bounds}, Catalogues <- {{c[i] : i \in 1 .. Len(c)} : c \in Catalogues},
           alive <- ActiveSet \ strays, issued <- 0 .. nextID - 1, comp <- SceneView,
           known <- KnownNames,
           saved <- [kind |-> disk.kind, content |-> FileView, strays |-> savedStrays]

\* No two rows of a pool in the file are of one entity, unless it was a stray.
FileOK(file, S) ==
  /\ DOMAIN file \subseteq Types
  /\ \A t \in DOMAIN file :
       /\ file[t].entities \in Seq(Entity)
       /\ file[t].components \in Seq(IF t = MeshRenderer THEN MeshNames \cup {""} ELSE Values)
       /\ Len(file[t].entities) = Len(file[t].components)
       /\ \A i, j \in 1 .. Len(file[t].entities) :
            file[t].entities[i] = file[t].entities[j] => i = j \/ file[t].entities[i] \in S

\* The types of the registry's fields; a scene.json names each entity at most
\* once in a pool, those apart that were strays when it was written.
TypeOK ==
  /\ running \in BOOLEAN
  /\ DOMAIN pools \subseteq Types
  /\ \A t \in DOMAIN pools : PoolShape(pools[t], Entity, Payload(t))
  /\ active \in Seq(Entity)
  /\ nextID \in 0 .. MaxID + 1
  /\ meshes \in Catalogues
  /\ disk = WholeFile(disk.content) \/ disk \in {NoFile, TornFile}
  /\ strays \subseteq Entity /\ savedStrays \subseteq Entity
  /\ FileOK(disk.content, savedStrays)
  /\ selected \in Entity \cup {NoEntity}

\* Through any sequence of spawns, attachments, swap-and-pop removals, saves
\* and loads, get never returns another entity's component or reads outside the
\* dense vectors; and each row is its owner's, reachable through the sparse
\* vector, unless the details panel gave that id a component while no entity had
\* it (a_DetailsPanel.cpp:68), the one way to a second row for the same owner.
PoolsConsistent == \A t \in DOMAIN pools : Consistent(pools[t], strays)

\* m_ActiveEntities lists no entity twice and nothing at or past the id that
\* createEntity hands out next; an id that owns a component is listed, or is one
\* the details panel gave a component while it was not. So a new entity starts
\* with the components of an earlier one only if it gets the id of such a stray.
ActiveComplete ==
  /\ \A i, j \in 1 .. Len(active) : active[i] = active[j] => i = j
  /\ \A i \in 1 .. Len(active) : active[i] < nextID
  /\ \A t \in DOMAIN pools : Owners(pools[t]) \subseteq ActiveSet \cup strays

\* Every mesh id in the scene is one of this run's catalogue, also when the
\* scene was saved by a run with another catalogue: getMeshByID (which uses
\* at()) does not throw, and save never writes an empty mesh name.
MeshesResolve ==
  MeshRenderer \in DOMAIN pools =>
    \A i \in 1 .. Len(pools[MeshRenderer].data) :
      pools[MeshRenderer].data[i] + 1 \in 1 .. Len(meshes)

\* Whatever the pools, indices, mesh ids and stale selections do, the entities
\* that are no strays behave as the maps of EntityStore: an edit or a removal
\* touches one entity only, ids are fresh, and a file gives back what was saved,
\* across runs with other mesh ids. A component given to a stray, and all that
\* comes of its second rows, reaches none of them.
ImplementsStore == Store!StoreSpec
=============================================================================
