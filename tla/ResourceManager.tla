--------------------------- MODULE ResourceManager ---------------------------
(***************************************************************************)
(* The resource manager: what start builds from the asset directory, step  *)
(* by step, and what the editor and the scene file then make of its mesh   *)
(* catalogue, over several runs of the program with other directories.     *)
(*                                                                         *)
(* A model stands for a file with the geometry in it, or for a built-in    *)
(* primitive.  Its name is the file name without folder and extension, so  *)
(* two files may share it; its type is read off its path.  A sequence of   *)
(* models is a directory in the order its iterator happens to have.        *)
(***************************************************************************)
EXTENDS Naturals, Sequences, FiniteSets, Functions

CONSTANTS
  Directories,  \* what the asset directory may hold: sequences of models
  Primitives,   \* the built-in models: cube, plane and sphere in the code
  IconTypes,    \* the device types that have an icon file
  MaxEntities,  \* bound on the entities in the scene
  MaxKnown      \* bound on the model files seen in a behaviour

Model == (UNION {Range(d) : d \in Directories}) \cup Range(Primitives)

ASSUME ModelAssumption ==
  /\ Directories \subseteq Seq(Model) /\ Primitives \in Seq(Model)
  /\ \A m \in Model : m.body \in {"mesh", "empty", "unreadable"}
  /\ \A i, j \in 1 .. Len(Primitives) : Primitives[i].name = Primitives[j].name => i = j
  /\ Primitives # <<>> /\ \A p \in Range(Primitives) : p.body = "mesh" /\ p.type = "DEFAULT"

VARIABLES
  pc,        \* the next step of start, "running", or "ended" by an exception
  left,      \* the models that this step of start has not come to yet
  catalogue, \* the tables of meshes
  icons,     \* the types in m_DeviceIcons
  scene,     \* the kinds of entities: mesh id and, as history, the model placed
  file,      \* {} or, once saved, {the scene}: mesh names and, as history, models
  known      \* history: all model files that some run has found

vars == <<pc, left, catalogue, icons, scene, file, known>>

-----------------------------------------------------------------------------
(* The catalogue.  gpu counts the uploads of each mesh.                    *)

NoMeshes ==
  [nextID |-> 0, meshes |-> <<>>, gpu |-> <<>>, records |-> <<>>, index |-> <<>>,
   idByName |-> <<>>]

With(f, x, y) == [z \in DOMAIN f \cup {x} |-> IF z = x THEN y ELSE f[z]]

createMesh(gpu, id) == With(gpu, id, IF id \in DOMAIN gpu THEN gpu[id] + 1 ELSE 1)

\* What loadScene and registerCustomMesh do to every table but gpu.
Registered(c, m) ==
  [c EXCEPT !.nextID = @ + 1,
            !.meshes = With(@, c.nextID, m),
            !.records = With(@, c.nextID, [name |-> m.name, type |-> m.type]),
            !.index = Append(@, c.nextID),
            !.idByName = With(@, m.name, c.nextID)]

\* A defect for the mutation check: a name that is taken is taken over.
registerCustomMeshAnew(c, m) ==
  [Registered(c, m) EXCEPT !.gpu = createMesh(@, c.nextID)]

registerCustomMesh(c, m) ==
  IF m.name \in DOMAIN c.idByName THEN c
  ELSE [Registered(c, m) EXCEPT !.gpu = createMesh(@, c.nextID)]

\* A defect for the mutation check: the mesh of a file is uploaded at once.
loadSceneUploading(c, m) == registerCustomMesh(c, m)

loadScene(c, m) == IF m.name \in DOMAIN c.idByName THEN c ELSE Registered(c, m)

getMeshNameByID(c, id) == IF id \in DOMAIN c.records THEN c.records[id].name ELSE ""

\* A defect for the mutation check: operator[] gives an unknown name the id 0.
tryGetMeshIDByNameInserting(c, name) ==
  IF name \in DOMAIN c.idByName THEN {c.idByName[name]} ELSE {0}

\* The empty set for a name that is not known.
tryGetMeshIDByName(c, name) ==
  IF name \in DOMAIN c.idByName THEN {c.idByName[name]} ELSE {}

-----------------------------------------------------------------------------
(* start, and the load of the scene that follows it.                       *)

Goes(from, to) == pc = from /\ pc' = to

Init ==
  /\ pc = "models"
  /\ left \in Directories
  /\ catalogue = NoMeshes
  /\ icons = {}
  /\ scene = {}
  /\ file = {}
  /\ known = Range(left)

\* One file that assimp cannot read, and the program does not start.
loadModels ==
  /\ IF left = <<>> THEN Goes("models", "icons") /\ UNCHANGED <<left, catalogue>>
     ELSE /\ left' = Tail(left)
          /\ IF Head(left).body = "unreadable"
             THEN Goes("models", "ended") /\ UNCHANGED catalogue
             ELSE /\ Goes("models", "models")
                  /\ catalogue' = loadScene(catalogue, Head(left))
  /\ UNCHANGED <<icons, scene, file, known>>

\* Device icons and editor icons; a picture that cannot be decoded throws.
loadIcons ==
  /\ \/ Goes("icons", "setup") /\ icons' = IconTypes
     \/ Goes("icons", "ended") /\ icons' \in SUBSET IconTypes
  /\ UNCHANGED <<left, catalogue, scene, file, known>>

setupMeshes ==
  /\ Goes("setup", "primitives")
  /\ left' = Primitives
  /\ catalogue' = [catalogue EXCEPT !.gpu =
                     [id \in DOMAIN catalogue.meshes |-> createMesh(@, id)[id]]]
  /\ UNCHANGED <<icons, scene, file, known>>

registerDefaultPrimitives ==
  /\ IF left = <<>> THEN Goes("primitives", "scene") /\ UNCHANGED <<left, catalogue>>
     ELSE /\ Goes("primitives", "primitives")
          /\ left' = Tail(left)
          /\ catalogue' = registerCustomMesh(catalogue, Head(left))
  /\ UNCHANGED <<icons, scene, file, known>>

\* An entity whose mesh this run does not have loses it.
Resolved(placed) ==
  UNION {{[id |-> id, model |-> e.model] : id \in tryGetMeshIDByName(catalogue, e.name)} :
           e \in placed}

SceneLoad ==
  /\ Goes("scene", "running")
  /\ scene' = Resolved(UNION file)
  /\ UNCHANGED <<left, catalogue, icons, file, known>>

-----------------------------------------------------------------------------
(* The running editor.                                                     *)

\* getAABB throws for a mesh without vertices, and nobody catches.
addEntity(id) ==
  IF catalogue'.meshes[id].body = "empty"
  THEN pc' = "ended" /\ UNCHANGED scene
  ELSE /\ UNCHANGED pc
       /\ Cardinality(scene) < MaxEntities
       /\ scene' = scene \cup {[id |-> id, model |-> catalogue'.meshes[id]]}

\* Cube, Plane and Sphere of the hierarchy's menu.
spawnPrimitive(p) ==
  /\ pc = "running"
  /\ catalogue' = registerCustomMesh(catalogue, p)
  /\ addEntity(catalogue'.idByName[p.name])
  /\ UNCHANGED <<left, icons, file, known>>

\* Create Empty: mesh 0, whatever that is in this run.
createEmpty ==
  /\ pc = "running"
  /\ UNCHANGED catalogue
  /\ addEntity(0)
  /\ UNCHANGED <<left, icons, file, known>>

\* A tile of the browser, dropped on the viewport.
dropTile(i) ==
  /\ pc = "running"
  /\ UNCHANGED catalogue
  /\ addEntity(catalogue.index[i])
  /\ UNCHANGED <<left, icons, file, known>>

\* The browser asks for the icon of every tile; at() throws.
handleTileThrows ==
  /\ Goes("running", "ended")
  /\ \E id \in DOMAIN catalogue.records : catalogue.records[id].type \notin icons
  /\ UNCHANGED <<left, catalogue, icons, scene, file, known>>

deleteEntity(e) ==
  /\ Goes("running", "running")
  /\ scene' = scene \ {e}
  /\ UNCHANGED <<left, catalogue, icons, file, known>>

save ==
  /\ Goes("running", "running")
  /\ file' = {{[name |-> getMeshNameByID(catalogue, e.id), model |-> e.model] : e \in scene}}
  /\ UNCHANGED <<left, catalogue, icons, scene, known>>

\* Load of the file menu: an exception when there is no file.
drawFileMenuLoad ==
  /\ pc = "running"
  /\ pc' = IF file = {} THEN "ended" ELSE pc
  /\ scene' = Resolved(UNION file)
  /\ UNCHANGED <<left, catalogue, icons, file, known>>

\* The program ends in any way, and is started again over another directory.
restart ==
  /\ pc' = "models"
  /\ left' \in Directories
  /\ catalogue' = NoMeshes
  /\ icons' = {}
  /\ scene' = {}
  /\ known' = known \cup Range(left')
  /\ Cardinality(known') <= MaxKnown
  /\ UNCHANGED file

Next ==
  \/ loadModels \/ loadIcons \/ setupMeshes \/ registerDefaultPrimitives \/ SceneLoad
  \/ \E p \in Range(Primitives) : spawnPrimitive(p)
  \/ createEmpty
  \/ \E i \in DOMAIN catalogue.index : dropTile(i)
  \/ handleTileThrows
  \/ \E e \in scene : deleteEntity(e)
  \/ save
  \/ drawFileMenuLoad
  \/ restart

Spec == Init /\ [][Next]_vars

-----------------------------------------------------------------------------
TypeOK ==
  /\ pc \in {"models", "icons", "setup", "primitives", "scene", "running", "ended"}
  /\ left \in Seq(known \cup Range(Primitives))
  /\ catalogue.nextID \in Nat
  /\ DOMAIN catalogue.meshes = 0 .. catalogue.nextID - 1
  /\ Range(catalogue.meshes) \subseteq Model
  /\ icons \subseteq IconTypes
  /\ \A e \in scene : e.id \in DOMAIN catalogue.meshes /\ e.model \in Model
  /\ \A e \in UNION file : e.model \in Model
  /\ known \subseteq Model

\* The five tables tell the same: the list that the browser walks holds each
\* id once, each mesh has a record, and names and ids translate into each
\* other, whatever files there are, in whatever order, and however many share
\* a name with each other or with a primitive.
CatalogueCoherent ==
  LET c == catalogue
  IN /\ DOMAIN c.records = DOMAIN c.meshes
     /\ c.index = [i \in 1 .. c.nextID |-> i - 1]
     /\ DOMAIN c.idByName = {c.records[id].name : id \in DOMAIN c.records}
     /\ \A id \in DOMAIN c.records : /\ c.idByName[getMeshNameByID(c, id)] = id
                                     /\ c.records[id].name = c.meshes[id].name

\* When the first frame is drawn every mesh is on the GPU, and none has been
\* put there twice: files are uploaded by setupMeshes and primitives by
\* registerCustomMesh, and no mesh is seen by both or by neither.
UploadedOnce ==
  pc \in {"scene", "running"} => catalogue.gpu = [id \in DOMAIN catalogue.meshes |-> 1]

\* No two models, of this run or another, have the same name.
NamesTell ==
  \A m, n \in known \cup Range(Primitives) : m.name = n.name => m = n

\* Mesh ids change from run to run with the files and their order; an entity
\* shows the model it was placed as, in every later run that has it, provided
\* names tell models apart.
SameModel == NamesTell => \A e \in scene : catalogue.meshes[e.id] = e.model
=============================================================================
