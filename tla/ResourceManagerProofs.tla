------------------------ MODULE ResourceManagerProofs ------------------------
(***************************************************************************)
(* For any model files, in any directory order, over any number of runs:   *)
(* the mesh tables agree, each mesh is uploaded once, and an entity shows  *)
(* the model it was placed as whenever names tell models apart.            *)
(***************************************************************************)
EXTENDS ResourceManager, SequenceTheorems, TLAPS

\* What the tables of the catalogue always are.
Tables(c) ==
  /\ c = [nextID |-> c.nextID, meshes |-> c.meshes, gpu |-> c.gpu,
          records |-> c.records, index |-> c.index, idByName |-> c.idByName]
  /\ c.nextID \in Nat
  /\ DOMAIN c.meshes = 0 .. c.nextID - 1
  /\ DOMAIN c.records = DOMAIN c.meshes
  /\ c.index = [i \in 1 .. c.nextID |-> i - 1]
  /\ DOMAIN c.idByName = {c.records[id].name : id \in DOMAIN c.records}
  /\ \A id \in DOMAIN c.records : /\ c.idByName[c.records[id].name] = id
                                  /\ c.records[id].name = c.meshes[id].name

Seen == known \cup Range(Primitives)

Uploads ==
  /\ pc \in {"models", "icons", "setup"} => catalogue.gpu = <<>>
  /\ pc \in {"primitives", "scene", "running"} =>
       catalogue.gpu = [id \in DOMAIN catalogue.meshes |-> 1]

\* Start leaves at least the primitives, so mesh 0 is there.
Filled ==
  /\ pc = "primitives" => left # <<>> \/ catalogue.nextID # 0
  /\ pc \in {"scene", "running"} => catalogue.nextID # 0

FromFiles == \A id \in DOMAIN catalogue.meshes : catalogue.meshes[id] \in Seen

Placed ==
  \A e \in scene : /\ e.id \in DOMAIN catalogue.meshes
                   /\ e.model \in Seen
                   /\ e.model.name = catalogue.meshes[e.id].name

Saved == \A e \in UNION file : e.model \in Seen /\ e.name = e.model.name

IInv == TypeOK /\ Tables(catalogue) /\ Uploads /\ Filled /\ FromFiles /\ Placed /\ Saved

-----------------------------------------------------------------------------
\* A list of ids 0, 1, ..., n - 1 goes on with n.
LEMMA IndexGrows ==
  ASSUME NEW n \in Nat
  PROVE  Append([i \in 1 .. n |-> i - 1], n) = [i \in 1 .. n + 1 |-> i - 1]
<1> DEFINE s == [i \in 1 .. n |-> i - 1]
<1>1. s \in Seq(Nat) /\ Len(s) = n
  OBVIOUS
<1>2. \A i \in 1 .. n : s[i] = i - 1
  OBVIOUS
<1> HIDE DEF s
<1>3. /\ Append(s, n) \in Seq(Nat) /\ Len(Append(s, n)) = n + 1
      /\ \A i \in 1 .. n : Append(s, n)[i] = s[i]
      /\ Append(s, n)[n + 1] = n
  BY <1>1
<1>4. DOMAIN Append(s, n) = 1 .. n + 1
  BY <1>3
<1>5. \A i \in 1 .. n + 1 : Append(s, n)[i] = i - 1
  BY <1>2, <1>3
<1> DEFINE t == [i \in 1 .. n + 1 |-> i - 1]
<1>6. t \in Seq(Nat) /\ Len(t) = n + 1 /\ \A i \in 1 .. n + 1 : t[i] = i - 1
  OBVIOUS
<1> HIDE DEF t
<1>7. Append(s, n) = t
  BY <1>3, <1>5, <1>6, SeqEqual
<1> QED BY <1>7 DEF s, t

\* A mesh under a name of its own leaves the tables in agreement, and what
\* was there stays.
LEMMA RegisteredAgrees ==
  ASSUME NEW c, Tables(c), NEW m, m.name \notin DOMAIN c.idByName,
         NEW d, d = Registered(c, m)
  PROVE  /\ Tables(d)
         /\ d.gpu = c.gpu
         /\ DOMAIN d.meshes = DOMAIN c.meshes \cup {c.nextID}
         /\ c.nextID \notin DOMAIN c.meshes
         /\ d.meshes[c.nextID] = m
         /\ \A id \in DOMAIN c.meshes : d.meshes[id] = c.meshes[id]
<1> DEFINE n == c.nextID
<1>1. n \in Nat /\ DOMAIN c.meshes = 0 .. n - 1 /\ DOMAIN c.records = 0 .. n - 1
  BY DEF Tables
<1>2. /\ d = [nextID |-> n + 1, meshes |-> With(c.meshes, n, m), gpu |-> c.gpu,
              records |-> With(c.records, n, [name |-> m.name, type |-> m.type]),
              index |-> Append(c.index, n), idByName |-> With(c.idByName, m.name, n)]
  BY DEF Registered, Tables
<1> HIDE DEF n
<1>3. (0 .. n - 1) \cup {n} = 0 .. n /\ n \notin 0 .. n - 1
  BY <1>1
<1>4. /\ DOMAIN d.meshes = 0 .. n /\ DOMAIN d.records = 0 .. n
      /\ d.meshes[n] = m /\ d.records[n].name = m.name
      /\ \A id \in 0 .. n - 1 : d.meshes[id] = c.meshes[id] /\ d.records[id] = c.records[id]
  BY <1>1, <1>2, <1>3 DEF With
<1>5. d.index = [i \in 1 .. n + 1 |-> i - 1]
  BY <1>1, <1>2, IndexGrows DEF Tables, n
<1>6. /\ DOMAIN d.idByName = DOMAIN c.idByName \cup {m.name}
      /\ d.idByName[m.name] = n
      /\ \A name \in DOMAIN c.idByName : d.idByName[name] = c.idByName[name]
  BY <1>2 DEF With
<1>7. DOMAIN c.idByName = {c.records[id].name : id \in 0 .. n - 1}
  BY <1>1 DEF Tables
<1>8. DOMAIN d.idByName = {d.records[id].name : id \in 0 .. n}
  BY <1>3, <1>4, <1>6, <1>7
<1>9. ASSUME NEW id \in 0 .. n
      PROVE  d.idByName[d.records[id].name] = id /\ d.records[id].name = d.meshes[id].name
  <2>1. CASE id = n
    BY <1>4, <1>6, <2>1
  <2>2. CASE id \in 0 .. n - 1
    <3>1. c.records[id].name \in DOMAIN c.idByName
      BY <1>7, <2>2
    <3>2. c.idByName[c.records[id].name] = id /\ c.records[id].name = c.meshes[id].name
      BY <1>1, <2>2 DEF Tables
    <3> QED BY <1>4, <1>6, <2>2, <3>1, <3>2
  <2> QED BY <1>3, <2>1, <2>2
<1>10. d.nextID = n + 1 /\ d.nextID \in Nat /\ (n + 1) - 1 = n /\ d.gpu = c.gpu
  BY <1>1, <1>2
<1>11. d = [nextID |-> d.nextID, meshes |-> d.meshes, gpu |-> d.gpu,
            records |-> d.records, index |-> d.index, idByName |-> d.idByName]
  BY <1>2
<1>12. Tables(d)
  BY <1>4, <1>5, <1>8, <1>9, <1>10, <1>11 DEF Tables
<1> QED BY <1>1, <1>3, <1>4, <1>10, <1>12 DEF n

\* A state that keeps the tables and the files seen keeps what was placed.
LEMMA PlacedKept ==
  ASSUME Placed, Saved, known \subseteq known', UNCHANGED <<scene, file>>,
         DOMAIN catalogue.meshes \subseteq DOMAIN catalogue'.meshes,
         \A id \in DOMAIN catalogue.meshes : catalogue'.meshes[id] = catalogue.meshes[id]
  PROVE  Placed' /\ Saved'
BY DEF Placed, Saved, Seen

\* The uploads are no matter for the other tables.
LEMMA TablesByParts ==
  ASSUME NEW d, Tables(d), NEW gpu,
         NEW c, c = [nextID |-> d.nextID, meshes |-> d.meshes, gpu |-> gpu,
                     records |-> d.records, index |-> d.index, idByName |-> d.idByName]
  PROVE  Tables(c)
<1>1. /\ c.nextID = d.nextID /\ c.meshes = d.meshes /\ c.gpu = gpu
      /\ c.records = d.records /\ c.index = d.index /\ c.idByName = d.idByName
  OBVIOUS
<1>2. c = [nextID |-> c.nextID, meshes |-> c.meshes, gpu |-> c.gpu,
           records |-> c.records, index |-> c.index, idByName |-> c.idByName]
  OBVIOUS
<1>3. c.nextID \in Nat /\ DOMAIN c.meshes = 0 .. c.nextID - 1 /\ DOMAIN c.records = DOMAIN c.meshes
  BY <1>1 DEF Tables
<1>4. c.index = [i \in 1 .. c.nextID |-> i - 1]
  BY <1>1 DEF Tables
<1>5. DOMAIN c.idByName = {c.records[id].name : id \in DOMAIN c.records}
  BY <1>1 DEF Tables
<1>6. \A id \in DOMAIN c.records : /\ c.idByName[c.records[id].name] = id
                                   /\ c.records[id].name = c.meshes[id].name
  BY <1>1 DEF Tables
<1> QED BY <1>2, <1>3, <1>4, <1>5, <1>6 DEF Tables

\* The tables grow by one model, which was found or is built in.
LEMMA Grown ==
  ASSUME IInv, NEW m \in Seen, m.name \notin DOMAIN catalogue.idByName,
         NEW d, d = Registered(catalogue, m), catalogue' = [d EXCEPT !.gpu = catalogue'.gpu],
         UNCHANGED known
  PROVE  /\ Tables(catalogue)' /\ FromFiles'
         /\ DOMAIN catalogue'.meshes = DOMAIN catalogue.meshes \cup {catalogue.nextID}
         /\ catalogue.nextID \notin DOMAIN catalogue.meshes
         /\ catalogue'.meshes[catalogue.nextID] = m
         /\ \A id \in DOMAIN catalogue.meshes : catalogue'.meshes[id] = catalogue.meshes[id]
<1>1. Tables(catalogue)
  BY DEF IInv
<1>2. /\ Tables(d) /\ DOMAIN d.meshes = DOMAIN catalogue.meshes \cup {catalogue.nextID}
      /\ catalogue.nextID \notin DOMAIN catalogue.meshes
      /\ d.meshes[catalogue.nextID] = m
      /\ \A id \in DOMAIN catalogue.meshes : d.meshes[id] = catalogue.meshes[id]
  BY <1>1, RegisteredAgrees
<1>3. /\ catalogue' = [nextID |-> d.nextID, meshes |-> d.meshes, gpu |-> catalogue'.gpu,
                       records |-> d.records, index |-> d.index, idByName |-> d.idByName]
  BY <1>2 DEF Tables
<1>4. /\ catalogue'.nextID = d.nextID /\ catalogue'.meshes = d.meshes
      /\ catalogue'.records = d.records /\ catalogue'.index = d.index
      /\ catalogue'.idByName = d.idByName
  BY <1>3
<1>5. Tables(catalogue)'
  BY <1>2, <1>3, TablesByParts
<1>6. FromFiles'
  BY <1>2, <1>4 DEF IInv, FromFiles, Seen
<1> QED BY <1>2, <1>4, <1>5, <1>6

\* The tables as loadScene leaves them: nothing, or one more model.
LEMMA LoadSceneKeeps ==
  ASSUME IInv, NEW m \in Seen, catalogue' = loadScene(catalogue, m), UNCHANGED known
  PROVE  /\ Tables(catalogue)' /\ FromFiles' /\ catalogue'.gpu = catalogue.gpu
         /\ DOMAIN catalogue.meshes \subseteq DOMAIN catalogue'.meshes
         /\ \A id \in DOMAIN catalogue.meshes : catalogue'.meshes[id] = catalogue.meshes[id]
<1>1. CASE m.name \in DOMAIN catalogue.idByName
  BY <1>1 DEF loadScene, IInv, FromFiles, Seen
<1>2. CASE m.name \notin DOMAIN catalogue.idByName
  <2>1. catalogue' = Registered(catalogue, m)
    BY <1>2 DEF loadScene
  <2>2. Tables(catalogue)' /\ catalogue'.gpu = catalogue.gpu
    BY <1>2, <2>1, RegisteredAgrees DEF IInv
  <2>3. catalogue' = [catalogue' EXCEPT !.gpu = catalogue'.gpu]
    BY <2>2 DEF Tables
  <2> QED BY <1>2, <2>1, <2>2, <2>3, Grown
<1> QED BY <1>1, <1>2

\* The same of registerCustomMesh, which uploads what it adds.
LEMMA RegisterKeeps ==
  ASSUME IInv, NEW m \in Seen, catalogue' = registerCustomMesh(catalogue, m), UNCHANGED known,
         catalogue.gpu = [id \in DOMAIN catalogue.meshes |-> 1]
  PROVE  /\ Tables(catalogue)' /\ FromFiles'
         /\ catalogue'.gpu = [id \in DOMAIN catalogue'.meshes |-> 1]
         /\ DOMAIN catalogue.meshes \subseteq DOMAIN catalogue'.meshes
         /\ \A id \in DOMAIN catalogue.meshes : catalogue'.meshes[id] = catalogue.meshes[id]
<1>1. CASE m.name \in DOMAIN catalogue.idByName
  BY <1>1 DEF registerCustomMesh, IInv, FromFiles, Seen
<1>2. CASE m.name \notin DOMAIN catalogue.idByName
  <2> DEFINE d == Registered(catalogue, m)
             n == catalogue.nextID
  <2>1. Tables(d) /\ d.gpu = catalogue.gpu
    BY <1>2, RegisteredAgrees DEF IInv
  <2>2. catalogue' = [d EXCEPT !.gpu = createMesh(d.gpu, n)]
    BY <1>2 DEF registerCustomMesh
  <2> HIDE DEF d
  <2>3. /\ catalogue'.gpu = createMesh(d.gpu, n)
        /\ catalogue' = [d EXCEPT !.gpu = catalogue'.gpu]
    BY <2>1, <2>2 DEF Tables
  <2>4. /\ Tables(catalogue)' /\ FromFiles'
        /\ DOMAIN catalogue'.meshes = DOMAIN catalogue.meshes \cup {n}
        /\ n \notin DOMAIN catalogue.meshes
        /\ \A id \in DOMAIN catalogue.meshes : catalogue'.meshes[id] = catalogue.meshes[id]
    BY <1>2, <2>3, Grown DEF d
  <2>5. createMesh(d.gpu, n) = [id \in DOMAIN catalogue.meshes \cup {n} |-> 1]
    BY <2>1, <2>4 DEF createMesh, With
  <2> QED BY <2>3, <2>4, <2>5
<1> QED BY <1>1, <1>2

\* Afterwards the name is known, so there is a mesh.
LEMMA RegisterNames ==
  ASSUME IInv, NEW m, catalogue' = registerCustomMesh(catalogue, m), Tables(catalogue)'
  PROVE  m.name \in DOMAIN catalogue'.idByName /\ catalogue'.nextID # 0
<1>1. m.name \in DOMAIN catalogue'.idByName
  <2>1. CASE m.name \in DOMAIN catalogue.idByName
    BY <2>1 DEF registerCustomMesh
  <2>2. CASE m.name \notin DOMAIN catalogue.idByName
    BY <2>2 DEF registerCustomMesh, Registered, With, IInv, Tables
  <2> QED BY <2>1, <2>2
<1>2. PICK id \in DOMAIN catalogue'.records : catalogue'.records[id].name = m.name
  BY <1>1 DEF Tables
<1>3. id \in 0 .. catalogue'.nextID - 1 /\ catalogue'.nextID \in Nat
  BY DEF Tables
<1> QED BY <1>1, <1>3

-----------------------------------------------------------------------------
\* A program that starts has empty tables and its files before it.
LEMMA InitIInv == Init => IInv
<1> SUFFICES ASSUME Init PROVE IInv
  OBVIOUS
<1> USE DEF Init
<1>1. left \in Seq(Model) /\ known \subseteq Model
  BY ModelAssumption DEF Model
<1>2. left \in Seq(known \cup Range(Primitives))
  <2>1. \A i \in DOMAIN left : left[i] \in known
    BY DEF Range
  <2> QED BY <1>1, <2>1
<1>3. DOMAIN NoMeshes.meshes = {} /\ DOMAIN NoMeshes.records = {} /\ DOMAIN NoMeshes.idByName = {}
  BY DEF NoMeshes
<1>4. NoMeshes.index = [i \in 1 .. 0 |-> i - 1]
  BY DEF NoMeshes
<1>5. Tables(NoMeshes)
  BY <1>3, <1>4 DEF Tables, NoMeshes
<1>6. TypeOK
  BY <1>1, <1>2, <1>3 DEF TypeOK, NoMeshes, Range
<1> QED BY <1>3, <1>5, <1>6 DEF IInv, Uploads, Filled, FromFiles, Placed, Saved, NoMeshes

\* Steps that leave tables, files and placed entities alone.
LEMMA SameTables ==
  ASSUME IInv, UNCHANGED <<catalogue, known>>
  PROVE  Tables(catalogue)' /\ FromFiles'
BY DEF IInv, Tables, FromFiles, Seen

\* What a load puts into the scene, it finds under the name it was saved with.
LEMMA ResolvedPlaced ==
  ASSUME IInv, scene' = Resolved(UNION file), UNCHANGED <<catalogue, file, known>>
  PROVE  Placed' /\ Saved'
<1>1. ASSUME NEW s \in scene'
      PROVE  /\ s.id \in DOMAIN catalogue.meshes /\ s.model \in Seen
             /\ s.model.name = catalogue.meshes[s.id].name
  <2>1. PICK e \in UNION file : \E id \in tryGetMeshIDByName(catalogue, e.name) :
                                  s = [id |-> id, model |-> e.model]
    BY <1>1 DEF Resolved
  <2>2. /\ e.name \in DOMAIN catalogue.idByName
        /\ s.id = catalogue.idByName[e.name] /\ s.model = e.model
    BY <2>1 DEF tryGetMeshIDByName
  <2>3. PICK i \in DOMAIN catalogue.records : catalogue.records[i].name = e.name
    BY <2>2 DEF IInv, Tables
  <2>4. s.id = i /\ i \in DOMAIN catalogue.meshes /\ catalogue.meshes[i].name = e.name
    BY <2>2, <2>3 DEF IInv, Tables
  <2>5. e.model \in Seen /\ e.name = e.model.name
    BY DEF IInv, Saved
  <2> QED BY <2>2, <2>4, <2>5
<1> QED BY <1>1 DEF Placed, Saved, Seen, IInv

\* An entity added to a running editor shows the mesh it was asked for.
LEMMA AddEntityKeeps ==
  ASSUME IInv, pc = "running", NEW id, id \in DOMAIN catalogue'.meshes, addEntity(id),
         FromFiles', UNCHANGED <<file, known>>,
         DOMAIN catalogue.meshes \subseteq DOMAIN catalogue'.meshes,
         \A i \in DOMAIN catalogue.meshes : catalogue'.meshes[i] = catalogue.meshes[i]
  PROVE  /\ Placed' /\ Saved'
         /\ pc' \in {"running", "ended"}
<1>1. Placed /\ Saved
  BY DEF IInv
<1>2. CASE UNCHANGED scene
  BY <1>1, <1>2, PlacedKept DEF addEntity
<1>3. CASE scene' = scene \cup {[id |-> id, model |-> catalogue'.meshes[id]]}
  <2>1. catalogue'.meshes[id] \in Seen'
    BY DEF FromFiles
  <2>2. Saved'
    BY <1>1, <1>3 DEF Saved, Seen
  <2>3. ASSUME NEW e \in scene'
        PROVE  /\ e.id \in DOMAIN catalogue'.meshes /\ e.model \in Seen'
               /\ e.model.name = catalogue'.meshes[e.id].name
    <3>1. CASE e \in scene
      BY <1>1, <3>1 DEF Placed, Seen
    <3>2. CASE e = [id |-> id, model |-> catalogue'.meshes[id]]
      BY <2>1, <3>2
    <3> QED BY <1>3, <2>3, <3>1, <3>2
  <2>4. Placed'
    BY <2>3 DEF Placed
  <2>5. pc' \in {"running", "ended"}
    BY DEF addEntity
  <2> QED BY <2>2, <2>4, <2>5
<1> QED BY <1>2, <1>3 DEF addEntity

\* The new state's type follows from the other parts.
LEMMA TypeFromParts ==
  ASSUME IInv, Tables(catalogue)', FromFiles', Placed', Saved',
         pc' \in {"models", "icons", "setup", "primitives", "scene", "running", "ended"},
         left' \in Seq(Seen'), icons' \subseteq IconTypes, known' \subseteq Model
  PROVE  TypeOK'
<1>1. Range(Primitives) \subseteq Model /\ Seen' \subseteq Model
  BY DEF Model, Seen
<1>2. Range(catalogue'.meshes) \subseteq Model
  BY <1>1 DEF FromFiles, Range
<1>3. DOMAIN catalogue'.meshes = 0 .. catalogue'.nextID - 1 /\ catalogue'.nextID \in Nat
  BY DEF Tables
<1> QED BY <1>1, <1>2, <1>3 DEF TypeOK, Placed, Saved, Seen

\* Every step of start, of the editor and of a restart keeps it all.
LEMMA NextIInv == IInv /\ [Next]_vars => IInv'
<1> SUFFICES ASSUME IInv, [Next]_vars PROVE IInv'
  OBVIOUS
<1>t. /\ left \in Seq(Seen) /\ icons \subseteq IconTypes /\ known \subseteq Model
      /\ Placed /\ Saved /\ Uploads /\ Filled
  BY DEF IInv, TypeOK, Seen
<1>q. ASSUME Tables(catalogue)', FromFiles', Placed', Saved', Uploads', Filled',
             pc' \in {"models", "icons", "setup", "primitives", "scene", "running", "ended"},
             left' \in Seq(Seen'), icons' \subseteq IconTypes, known' \subseteq Model
      PROVE  IInv'
  BY <1>q, TypeFromParts DEF IInv
<1>h. ASSUME left # <<>>
      PROVE  Head(left) \in Seen /\ Tail(left) \in Seq(Seen)
  BY <1>h, <1>t
<1>1. CASE loadModels
  <2> USE <1>1 DEF loadModels, Goes
  <2>1. /\ Tables(catalogue)' /\ FromFiles' /\ catalogue'.gpu = catalogue.gpu
        /\ DOMAIN catalogue.meshes \subseteq DOMAIN catalogue'.meshes
        /\ \A id \in DOMAIN catalogue.meshes : catalogue'.meshes[id] = catalogue.meshes[id]
    <3>1. CASE UNCHANGED catalogue
      BY <3>1, SameTables
    <3>2. CASE left # <<>> /\ catalogue' = loadScene(catalogue, Head(left))
      BY <1>h, <3>2, LoadSceneKeeps
    <3> QED BY <3>1, <3>2
  <2>2. Placed' /\ Saved'
    BY <1>t, <2>1, PlacedKept
  <2>3. Uploads' /\ Filled'
    BY <1>t, <2>1 DEF Uploads, Filled
  <2>4. left' \in Seq(Seen')
    BY <1>h, <1>t DEF Seen
  <2> QED BY <1>q, <1>t, <2>1, <2>2, <2>3, <2>4
<1>2. CASE loadIcons
  <2> USE <1>2 DEF loadIcons, Goes
  <2>1. Placed' /\ Saved'
    BY <1>t DEF Placed, Saved, Seen
  <2>2. Uploads' /\ Filled' /\ left' \in Seq(Seen')
    BY <1>t DEF Uploads, Filled, Seen
  <2> QED BY <1>q, <1>t, <2>1, <2>2, SameTables
<1>3. CASE setupMeshes
  <2> USE <1>3 DEF setupMeshes, Goes
  <2>1. catalogue.gpu = <<>>
    BY <1>t DEF Uploads
  <2>2. ASSUME NEW id PROVE createMesh(<<>>, id)[id] = 1
    BY DEF createMesh, With
  <2>u. [id \in DOMAIN catalogue.meshes |-> createMesh(<<>>, id)[id]]
        = [id \in DOMAIN catalogue.meshes |-> 1]
    BY <2>2
  <2>3. catalogue' = [nextID |-> catalogue.nextID, meshes |-> catalogue.meshes,
                      gpu |-> [id \in DOMAIN catalogue.meshes |-> 1],
                      records |-> catalogue.records, index |-> catalogue.index,
                      idByName |-> catalogue.idByName]
    BY <2>1, <2>u DEF IInv, Tables
  <2>4. Tables(catalogue)'
    BY <2>3, TablesByParts DEF IInv
  <2>5. /\ catalogue'.meshes = catalogue.meshes
        /\ catalogue'.gpu = [id \in DOMAIN catalogue'.meshes |-> 1]
    BY <2>3
  <2>6. FromFiles' /\ Placed' /\ Saved'
    BY <1>t, <2>5, PlacedKept DEF IInv, FromFiles, Seen
  <2>7. Uploads' /\ Filled'
    BY <2>5, ModelAssumption DEF Uploads, Filled
  <2>8. left' \in Seq(Seen')
    <3>1. Primitives \in Seq(Model)
      BY ModelAssumption
    <3>2. \A i \in 1 .. Len(Primitives) : Primitives[i] \in Seen'
      BY <3>1 DEF Seen, Range
    <3> QED BY <3>1, <3>2
  <2> QED BY <1>q, <1>t, <2>4, <2>6, <2>7, <2>8
<1>4. CASE registerDefaultPrimitives
  <2> USE <1>4 DEF registerDefaultPrimitives, Goes
  <2>1. catalogue.gpu = [id \in DOMAIN catalogue.meshes |-> 1]
    BY <1>t DEF Uploads
  <2>2. /\ Tables(catalogue)' /\ FromFiles'
        /\ catalogue'.gpu = [id \in DOMAIN catalogue'.meshes |-> 1]
        /\ DOMAIN catalogue.meshes \subseteq DOMAIN catalogue'.meshes
        /\ \A id \in DOMAIN catalogue.meshes : catalogue'.meshes[id] = catalogue.meshes[id]
    <3>1. CASE UNCHANGED catalogue
      BY <2>1, <3>1, SameTables
    <3>2. CASE left # <<>> /\ catalogue' = registerCustomMesh(catalogue, Head(left))
      BY <1>h, <2>1, <3>2, RegisterKeeps
    <3> QED BY <3>1, <3>2
  <2>3. Placed' /\ Saved'
    BY <1>t, <2>2, PlacedKept
  <2>n. catalogue.nextID # 0 => catalogue'.nextID # 0
    BY <2>2 DEF IInv, Tables
  <2>m. left # <<>> => catalogue'.nextID # 0
    BY <2>2, RegisterNames
  <2>4. Uploads' /\ Filled'
    BY <1>t, <2>2, <2>n, <2>m DEF Uploads, Filled
  <2>5. left' \in Seq(Seen')
    BY <1>h, <1>t DEF Seen
  <2> QED BY <1>q, <1>t, <2>2, <2>3, <2>4, <2>5
<1>5. CASE SceneLoad
  <2> USE <1>5 DEF SceneLoad, Goes
  <2>1. Placed' /\ Saved'
    BY ResolvedPlaced
  <2>2. Uploads' /\ Filled' /\ left' \in Seq(Seen')
    BY <1>t DEF Uploads, Filled, Seen
  <2> QED BY <1>q, <1>t, <2>1, <2>2, SameTables
<1>6. ASSUME NEW p \in Range(Primitives), spawnPrimitive(p) PROVE IInv'
  <2> USE <1>6 DEF spawnPrimitive
  <2>1. catalogue.gpu = [id \in DOMAIN catalogue.meshes |-> 1]
    BY <1>t DEF Uploads
  <2>2. /\ Tables(catalogue)' /\ FromFiles'
        /\ catalogue'.gpu = [id \in DOMAIN catalogue'.meshes |-> 1]
        /\ DOMAIN catalogue.meshes \subseteq DOMAIN catalogue'.meshes
        /\ \A id \in DOMAIN catalogue.meshes : catalogue'.meshes[id] = catalogue.meshes[id]
    BY <2>1, RegisterKeeps DEF Seen
  <2>3. p.name \in DOMAIN catalogue'.idByName /\ catalogue'.nextID # 0
    BY <2>2, RegisterNames
  <2>4. catalogue'.idByName[p.name] \in DOMAIN catalogue'.meshes
    BY <2>2, <2>3 DEF Tables
  <2>5. Placed' /\ Saved' /\ pc' \in {"running", "ended"}
    BY <2>2, <2>4, AddEntityKeeps
  <2>6. Uploads' /\ Filled' /\ left' \in Seq(Seen')
    BY <1>t, <2>2, <2>3, <2>5 DEF Uploads, Filled, Seen
  <2> QED BY <1>q, <1>t, <2>2, <2>5, <2>6
<1>z. ASSUME pc = "running", NEW id, id \in DOMAIN catalogue.meshes, addEntity(id),
             UNCHANGED <<left, catalogue, icons, file, known>>
      PROVE  IInv'
  <2>1. Tables(catalogue)' /\ FromFiles'
    BY <1>z, SameTables
  <2>2. Placed' /\ Saved' /\ pc' \in {"running", "ended"}
    BY <1>z, <2>1, AddEntityKeeps
  <2>3. Uploads' /\ Filled' /\ left' \in Seq(Seen')
    BY <1>t, <1>z, <2>2 DEF Uploads, Filled, Seen
  <2> QED BY <1>q, <1>t, <1>z, <2>1, <2>2, <2>3
<1>7. CASE createEmpty
  <2> USE <1>7 DEF createEmpty
  <2>1. 0 \in DOMAIN catalogue.meshes
    BY DEF IInv, Filled, Tables
  <2> QED BY <1>z, <2>1
<1>8. ASSUME NEW i \in DOMAIN catalogue.index, dropTile(i) PROVE IInv'
  <2> USE <1>8 DEF dropTile
  <2>1. catalogue.index[i] \in DOMAIN catalogue.meshes
    BY DEF IInv, Tables
  <2> QED BY <1>z, <2>1
<1>s. ASSUME UNCHANGED <<left, catalogue, icons, known>>, Placed', Saved',
             pc' = pc \/ pc' = "ended"
      PROVE  IInv'
  <2>1. Uploads' /\ Filled' /\ left' \in Seq(Seen')
    BY <1>s, <1>t DEF Uploads, Filled, Seen
  <2>2. pc' \in {"models", "icons", "setup", "primitives", "scene", "running", "ended"}
    BY <1>s DEF IInv, TypeOK
  <2> QED BY <1>q, <1>s, <1>t, <2>1, <2>2, SameTables
<1>9. CASE handleTileThrows
  BY <1>9, <1>s, <1>t DEF handleTileThrows, Goes, Placed, Saved, Seen
<1>10. ASSUME NEW e \in scene, deleteEntity(e) PROVE IInv'
  BY <1>10, <1>s, <1>t DEF deleteEntity, Goes, Placed, Saved, Seen
<1>11. CASE save
  <2> USE <1>11 DEF save, Goes
  <2>1. ASSUME NEW e \in scene
        PROVE  getMeshNameByID(catalogue, e.id) = e.model.name
    BY <1>t DEF getMeshNameByID, Placed, IInv, Tables
  <2>2. Placed' /\ Saved'
    BY <1>t, <2>1 DEF Placed, Saved, Seen
  <2> QED BY <1>s, <2>2
<1>12. CASE drawFileMenuLoad
  <2> USE <1>12 DEF drawFileMenuLoad
  <2>1. Placed' /\ Saved'
    BY ResolvedPlaced
  <2> QED BY <1>s, <2>1
<1>13. CASE restart
  <2> USE <1>13 DEF restart
  <2>1. left' \in Seq(Model) /\ Range(left') \subseteq Model
    BY ModelAssumption DEF Model
  <2>2. known' \subseteq Model
    BY <1>t, <2>1
  <2>3. left' \in Seq(Seen')
    <3>1. \A i \in DOMAIN left' : left'[i] \in known'
      BY DEF Range
    <3> QED BY <2>1, <3>1 DEF Seen
  <2>4. DOMAIN NoMeshes.meshes = {} /\ DOMAIN NoMeshes.records = {} /\ DOMAIN NoMeshes.idByName = {}
    BY DEF NoMeshes
  <2>5. NoMeshes.index = [i \in 1 .. 0 |-> i - 1]
    BY DEF NoMeshes
  <2>6. Tables(NoMeshes)
    BY <2>4, <2>5 DEF Tables, NoMeshes
  <2>7. Tables(catalogue)' /\ FromFiles' /\ Uploads' /\ Filled'
    BY <2>4, <2>6 DEF FromFiles, Uploads, Filled, NoMeshes, Tables
  <2>8. Placed' /\ Saved'
    BY <1>t DEF Placed, Saved, Seen
  <2> QED BY <1>q, <2>2, <2>3, <2>7, <2>8
<1>14. CASE UNCHANGED vars
  BY <1>14, <1>s, <1>t DEF vars, Placed, Saved, Seen
<1> QED BY <1>1, <1>2, <1>3, <1>4, <1>5, <1>6, <1>7, <1>8, <1>9, <1>10, <1>11, <1>12,
           <1>13, <1>14 DEF Next

-----------------------------------------------------------------------------
\* Two models of the same name are one, if names tell them apart, and so an
\* entity's model is the mesh it is drawn with.
LEMMA IInvImplies == IInv => CatalogueCoherent /\ UploadedOnce /\ SameModel
<1> SUFFICES ASSUME IInv PROVE CatalogueCoherent /\ UploadedOnce /\ SameModel
  OBVIOUS
<1>1. CatalogueCoherent
  BY DEF IInv, Tables, CatalogueCoherent, getMeshNameByID
<1>2. UploadedOnce
  BY DEF IInv, Uploads, UploadedOnce
<1>3. SameModel
  <2>1. SUFFICES ASSUME NamesTell, NEW e \in scene PROVE catalogue.meshes[e.id] = e.model
    BY DEF SameModel
  <2>2. /\ e.id \in DOMAIN catalogue.meshes /\ e.model \in Seen
        /\ e.model.name = catalogue.meshes[e.id].name
    BY DEF IInv, Placed
  <2>3. catalogue.meshes[e.id] \in Seen
    BY <2>2 DEF IInv, FromFiles
  <2> QED BY <2>1, <2>2, <2>3 DEF NamesTell, Seen
<1> QED BY <1>1, <1>2, <1>3

LEMMA SpecIInv == Spec => []IInv
BY InitIInv, NextIInv, PTL DEF Spec

\* In every state of every run the tables have their shape, and every mesh id
\* of the scene is a mesh of this run.
THEOREM SpecTypeOK == Spec => []TypeOK
<1>1. IInv => TypeOK
  BY DEF IInv
<1> QED BY SpecIInv, <1>1, PTL

\* For any directories, with any files sharing names, the five tables of
\* ResourceManager (a_resource_manager.hpp) agree with one another.
THEOREM SpecCatalogue == Spec => []CatalogueCoherent
BY SpecIInv, IInvImplies, PTL

\* start (resource_manager.cpp) puts every mesh on the GPU exactly once, be it
\* of a file or a primitive, before the first frame and ever after.
THEOREM SpecUploadedOnce == Spec => []UploadedOnce
BY SpecIInv, IInvImplies, PTL

\* Ids that change from run to run never change what an entity shows, if names
\* tell models apart.
THEOREM SpecSameModel == Spec => []SameModel
BY SpecIInv, IInvImplies, PTL
=============================================================================
