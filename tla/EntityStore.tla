---------------------------- MODULE EntityStore ----------------------------
(***************************************************************************)
(* What the scene promises to the rest of the engine, with no pools, no    *)
(* indices and no ids of meshes: each component type maps the entities     *)
(* that have it to a component, ids are not issued twice in the life of a  *)
(* scene, and a scene file gives back the restored types as they were      *)
(* saved, less the mesh components whose mesh no longer exists.            *)
(***************************************************************************)
EXTENDS Naturals

CONSTANTS
  Types,         \* component types
  Restored,      \* those a scene file gives back
  Derived,       \* those a new entity gets a default component of
  MeshRenderer,  \* the type whose component is a mesh name
  MaxID,         \* the largest entity id
  Values, Default,
  Catalogues     \* the sets of mesh names a run can know

Entity == 0 .. MaxID

VARIABLES
  running,  \* whether the program is up
  alive,    \* the entities of the scene
  issued,   \* the ids issued since the scene was made or loaded
  comp,     \* type -> entity -> component (a mesh name for MeshRenderer)
  strays,   \* ids given a component while no entity had them: nothing is
            \* promised of the entities that get such an id
  known,    \* the mesh names this run knows
  saved     \* the scene file: its kind, its content, type -> entity -> component,
            \* and the strays of the scene it holds

storeVars == <<running, alive, issued, comp, strays, known, saved>>

NoComponents == [t \in Types |-> <<>>]

Extend(f, e, v) == [x \in DOMAIN f \cup {e} |-> IF x = e THEN v ELSE f[x]]

Without(f, e) == [x \in DOMAIN f \ {e} |-> f[x]]

\* What a run that knows the meshes k gets back from the content c of a file.
Persisted(c, k) ==
  [t \in Types |->
     IF t \notin Restored THEN <<>>
     ELSE [e \in {x \in DOMAIN c[t] : t = MeshRenderer => c[t][x] \in k} |-> c[t][e]]]

Reset ==
  /\ alive' = {}
  /\ issued' = {}
  /\ comp' = NoComponents
  /\ strays' = {}

Replace(k) ==
  /\ strays' = saved.strays
  /\ comp' = Persisted(saved.content, k)
  /\ alive' = UNION {DOMAIN comp'[t] : t \in Types}
  /\ issued' \in {{e \in Entity : e < n} : n \in 0 .. MaxID + 1}
  /\ alive' \subseteq issued'

Init ==
  /\ running = FALSE
  /\ alive = {}
  /\ issued = {}
  /\ comp = NoComponents
  /\ strays = {}
  /\ known \in Catalogues
  /\ saved = [kind |-> "absent", content |-> NoComponents, strays |-> {}]

Start ==
  /\ ~running
  /\ known' \in Catalogues
  /\ \/ saved.kind = "absent" /\ Reset /\ running'
     \/ saved.kind = "whole" /\ Replace(known') /\ running'
     \/ saved.kind = "torn" /\ Reset /\ ~running'
  /\ UNCHANGED saved

Stop ==
  /\ running
  /\ ~running'
  /\ Reset
  /\ UNCHANGED <<known, saved>>

\* A new entity, under a fresh id that is no stray's, with all restored types.
Spawn(v, name) ==
  /\ running
  /\ \E e \in Entity \ (issued \cup strays) :
       /\ issued' = issued \cup {e}
       /\ alive' = alive \cup {e}
       /\ comp' = [t \in Types |->
                     IF t \notin Restored THEN comp[t]
                     ELSE Extend(comp[t], e,
                                 IF t = MeshRenderer THEN name
                                 ELSE IF t \in Derived THEN Default ELSE v)]
  /\ UNCHANGED <<running, strays, known, saved>>

\* An id that no entity has is given a component.
Stray(e) ==
  /\ running
  /\ e \notin alive
  /\ strays' = strays \cup {e}
  /\ UNCHANGED <<running, alive, issued, comp, known, saved>>

\* A new entity gets the id of a stray.
SpawnStray(e) ==
  /\ running
  /\ e \in strays \ issued
  /\ issued' = issued \cup {e}
  /\ UNCHANGED <<running, alive, comp, strays, known, saved>>

Attach(e, t, v) ==
  /\ running
  /\ e \in alive \ DOMAIN comp[t]
  /\ comp' = [comp EXCEPT ![t] = Extend(@, e, v)]
  /\ UNCHANGED <<running, alive, issued, strays, known, saved>>

Edit(e, t, v) ==
  /\ running
  /\ e \in DOMAIN comp[t]
  /\ comp' = [comp EXCEPT ![t][e] = v]
  /\ UNCHANGED <<running, alive, issued, strays, known, saved>>

Destroy(e) ==
  /\ running
  /\ e \in alive
  /\ alive' = alive \ {e}
  /\ comp' = [t \in Types |-> Without(comp[t], e)]
  /\ UNCHANGED <<running, issued, strays, known, saved>>

Save ==
  /\ running
  /\ \/ saved' = [kind |-> "whole", content |-> comp, strays |-> strays]
     \/ saved' = [kind |-> "torn", content |-> NoComponents, strays |-> {}]
  /\ UNCHANGED <<running, alive, issued, comp, strays, known>>

Load ==
  /\ running
  /\ saved.kind = "whole"
  /\ Replace(known)
  /\ UNCHANGED <<running, known, saved>>

Next ==
  \/ Start
  \/ Stop
  \/ Save
  \/ Load
  \/ \E v \in Values, name \in known : Spawn(v, name)
  \/ \E e \in Entity : Destroy(e) \/ Stray(e) \/ SpawnStray(e)
  \/ \E t \in Types, e \in alive :
       \E v \in IF t = MeshRenderer THEN known ELSE {Default} : Attach(e, t, v)
  \/ \E t \in Types \ {MeshRenderer} :
       \E e \in DOMAIN comp[t], v \in Values : Edit(e, t, v)

StoreSpec == Init /\ [][Next]_storeVars
=============================================================================
