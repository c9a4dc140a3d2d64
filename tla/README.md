# Andromeda: a verification project

Andromeda is the desktop application of the ESP32 particulate-sensor project: a
small 3D engine and editor (C++20, SDL3, OpenGL, ImGui, Boost.Asio) that shows
the readings of a BMV080 sensor, with a launcher written in Flutter. This
directory holds TLA+ models of its stateful parts, the TLC configurations that
check them and TLAPS proofs of what the runs check. Source paths below are relative
to `andromeda/modules/` unless they say otherwise.

## 1. The system

### Threads and what they share

There are two threads. The **main thread** is SDL's: for each SDL event and each
frame `main.cpp` walks the registered subsystems (window, input, resources,
scene, renderer, editor, network) and calls `updateEvent` or `update`. The
**network thread** (`a_network_manager.cpp:25`) runs one Boost.Asio
`io_context`, on which coroutines read the sensor's TCP stream and talk to Home
Assistant over a WebSocket. They meet in three places: the sensor's
`ThreadSafeQueue`, the Home Assistant inbox `m_MessageQueue` with its mutex, and
the atomic `m_IsConnected`. Everything else belongs to the main thread, where
the parts interact by calls, by the singleton `EventManager` (synchronous
callbacks, which nest) and by one `ComponentRegistry` that scene manager,
renderer, editor panels and serializer all write or read.

The launcher is a program of its own: one Dart isolate whose futures interleave
at each `await`, and `projects.json`.

### Components

| Component | State | Operations | What makes it correct |
|---|---|---|---|
| Registry (`core/a_registry.hpp`) | per type a sparse set: dense data, dense owners, sparse index; active list; next id | add, get, has, remove (swap-and-pop), create, destroy, clear, rebuild | sparse and dense sides stay inverse; no entity sees another's component |
| Scene and serializer (`scene/`, `serialization/`) | `scene.json`; mesh names and ids | addEntity, save, load | what was saved comes back, in a run whose mesh ids differ; the next id is past everything loaded |
| Undo (`editor/a_undo_buffer.*`, dispatcher) | one byte vector, one vector of offsets | push with eviction at 50, undo | a bounded stack of whole commands |
| Events (`core/a_event_manager.hpp`) | listeners by type with a removal flag, dispatch level | add, remove, dispatch | removed listeners are never called, others exactly once, no removal makes a loop dangle |
| Editor (`editor/editor.cpp`, `gui/Panels`, `gui/Widgets`) | selection and two copies of it, gizmo drag with snapshot, field edit with snapshot, camera drag, tile drag | picking, hierarchy menu, fields, gizmo, undo key, menu, browser | copies agree; every edit can be undone, on the entity it was made on; a drag does what it did, and ends |
| Sensor stream (`network/a_network_manager.cpp`, `a_tcp_sensor_client.cpp`, `core/a_threadSafeQueue.hpp`, `mock/`) | byte buffer, queue, batch | connect, handshake, read a line, push, drain, dispatch, stop | lines arrive whole, once, in order, and eventually |
| Home Assistant (`network/a_HomeAssistant.cpp`, `a_BoostWebsocketClient.cpp`) | connection flag, read loop, pending sends, inbox, message id | connect, read, send, update, authenticate | one write at a time; in order; no command before authentication; the dialogue goes on |
| Resource manager (`resource/`) | meshes, names, records, tiles, icons | import, register, look up | the tables agree; each mesh is uploaded once; an entity keeps its model when ids change |
| Renderer and RHI (`renderer/`, `renderer_rhi/`) | shadow copy of GL's state, bindings, framebuffers, baked maps, selection | baking, nine passes, ImGui's draw | each draw runs in the state its pass asked for; the viewport gets one whole frame of one moment; only the GUI draws on the window |
| Subsystem manager, `main.cpp` | list of subsystems, delta time | start, update, destroy | a sane delta time |
| Input, window | table of held keys | SDL event translation | a key is held exactly while it is |
| Launcher (`andromeda_launcher/lib/`) | project list, `projects.json`, rows | load, add, create, open, remove, delete | no project twice; the file follows the list; what a crash within a save costs |
| Console (`gui/Widgets/Console.*`) | registry of commands, history and cursor | parse, execute, recall | see "Not modelled" |
| Weather, proxy settings, filesystem, math, shaders, bindings, tools | none that lives over time, or the driver's | | see "Not modelled" |

### What is hard here

* *Interleaving of the two threads*, of coroutines at each `co_await` and of the
  launcher's futures at each `await`: a message may arrive, a link break, the
  list change or the program stop between any two steps.
* *Unreliable delivery*: TCP splits and joins lines; connections break and no
  code tries again.
* *Callbacks under a loop*: listeners are added and removed, and events
  dispatched, by the callback that a dispatch is running.
* *State kept across frames*: a snapshot taken when an edit begins is used when
  it ends; the hit point of one drag is there for the next; SDL's and ImGui's
  view of one mouse button are frames apart.
* *A shadow copy of somebody else's state*: the GL context filters calls by what
  it thinks GL has, and ImGui changes GL behind it.
* *Restart*: ids of entities and meshes mean something only within one scene or
  one run; the scene file and `projects.json` can be torn.
* *Numbers at their edges*: removing the last row, evicting the only command, a
  scene whose only entity is 0, a scancode that does not fit, a clock cut to 32
  bits.

`PROJECT.json` lists each such hazard with the line where it bites and the
properties that watch it.

## 2. Modules

| Module | Models | Used by |
|---|---|---|
| `ComponentPool` | `ComponentPool<T>`: one sparse set, as operators on a record (data, entities, sparse) | `Registry` |
| `Registry` | `ComponentRegistry`, `SceneManager`, `SceneSerializer`, start and end of the process | |
| `EntityStore` | abstract: the scene as maps from entities to components, ids issued once, a file that gives back what was saved | refined by `Registry` |
| `UndoBuffer` | `UndoBuffer` and `CommandDispatcher::dispatch` on bytes | |
| `UndoStack` | abstract: a stack of the latest commands | refined by `UndoBuffer`, used by `EditorSession` |
| `EventManager` | `EventManager`, with loops of `Dispatch` as a stack of frames | |
| `PubSub` | abstract: publications call the subscribers they had, less those unsubscribed since | refined by `EventManager` |
| `EditorSession` | the editor and its panels over one scene, selection and history, by phases of a frame | |
| `SensorStream` | mock server, TCP, reader coroutine, queue, main-thread drain, shutdown | `NetworkManager` |
| `MessageFeed` | abstract: what was sent is delivered, each once, in order | refined by `SensorStream` |
| `HomeAssistant` | service, WebSocket client, link and server | `NetworkManager` |
| `NetworkManager` | both over one `io_context`, one main loop and one shutdown | |
| `ResourceManager` | start's import step by step, the mesh catalogue, what browser, hierarchy, scene file and later runs make of it | |
| `OpenGLContext` | the RHI's calls: pipeline state with its shadow copy, bindings, ImGui's backend | `Renderer` |
| `Renderer` | baking, materials, the nine passes of a frame and `EndFrame` | |
| `Viewport` | abstract: the picture is one frame of one moment | refined by `Renderer` |
| `InputSystem` | key events, the table of held keys, Ctrl+Z | `UserInput` |
| `MouseLook` | the right button: `cameraMovement` and `handleViewportInput`, with ImGui's event queue between them | `UserInput` |
| `TileDrag` | a tile dragged from the browser into the viewport | `UserInput` |
| `UserInput` | the three together, frame by frame | |
| `SubsystemManager` | the frame clock and the camera that moves by it | |
| `ProjectService` | the launcher: list, file, rows, calls cut at their awaits, restarts | |
| `SequenceFilter` | the elements of a sequence that are in a set, as a recursive function | `EventManager`, `ProjectService` |
| `SequenceFilterTheorems` | induction over lengths and sequences, and what the filter yields | the proof modules |
| `RegistryProofs`, `UndoBufferProofs`, `EditorSessionProofs`, `MessagingProofs` (`EventManager`, `NetworkManager`), `FrameProofs` (`UserInput`, `Renderer`), `ResourceManagerProofs`, `ProjectServiceProofs` | theorems | |
| `MC*` | instances for TLC | |

### How states and actions correspond to the code

**Registry.** `pools`, `active` and `nextID` are `m_Pools`, `m_ActiveEntities`
and `m_NextID`; a pool's `sparse` is a function on the indices of the vector,
with `NoIndex` for `INVALID_INDEX` and positions counted from 1. `disk` is `scene.json`: absent,
torn, or whole with one serialized pool per type. `meshes` is the mesh catalogue
of the run. Component types are grouped by what the serializer does with them:
`Plain` (Transform, Tag, Material), `MeshRenderer` (by name), `Bounds` (AABB)
and `WriteOnly` (Device, ParticleSystem). `Start` is `SDL_AppInit` with its load,
`Terminate` any end of the process, `Spawn` `addEntity`, `Attach` "Add
Component", `Visit` a pass that creates an empty pool by asking for it, `Select`
and `Pick` the two ways to the selection, which is what the details panel adds
components to. Nobody asks whether the selected id is an entity of the scene, and
a load leaves the selection as it was: `strays` are the ids that were given a
component while they were not active, a history variable that the properties
name and no action reads (`savedStrays`: those of the scene in the file).
`createEntity` may hand such an id out, and `addEntity` then adds a second row
for the same owner; the models go on from there, through removals, saves and
loads.
`Spawn` of an empty mesh and `Load` of a bad file end the process, as the
exceptions they throw do. A write that fails half-way, which `save` does not
notice, and a kill during it are one alternative of `Save`. The iteration order
of the unordered containers in `rebuildActiveEntities` is a choice.

**UndoBuffer.** Byte *k* of command *c* is the pair `<<c, k>>`, so that a
misplaced offset is visible as bytes that are no command. `PushCommand` includes
its eviction. The editor has commands of two sizes and so does the instance.

**EventManager.** A loop of `Dispatch` is a frame with its position and the end
iterator it was given; `busy` says that the callback runs. While it does, the
callback may add, remove and dispatch, listeners of the type under dispatch
included. `capacity` models the vector's, so that an addition that reallocates
marks the frames on that vector invalid; such a loop ends if it has nothing left
to read, and otherwise the model stops where the code's behaviour is undefined. `Flagged`
and `Erased` are the two ways in which a removal changes a vector; `Subs` and
`Calls` are the clients' view of it, as `PubSub` has it.

**EditorSession.** A frame passes through `events` (key handlers, then
`editorPicking`), `menu` (menu bar, hierarchy), `details` and `viewport`.
Picking reads the mouse of the frame before, because ImGui's new frame begins
after it: this order is what the gizmo finding rests on. The scene is reduced to
its Transforms and the history to `UndoStack`'s operator `Pushed`. A session
begins in a project without a `scene.json`, which Load does not survive. ImGui and
ImGuizmo are external: what a click hits and how long a drag lasts are choices.
Tab moves between the inspector's fields in two ways: on to a field drawn later
(`FieldTabbedOn`), or within a group and back (`FieldTabbedBack`), which differ in
whether the shared snapshot is pushed before it is overwritten.

**SensorStream.** A line is two bytes, its text and its newline, so that a read
can end inside a line. `ReaderReceives` and `ReaderPushesLine` are the two
outcomes of `async_read_until`; `Update` drains under the mutex and
`DispatchNext` dispatches one event, between which the network thread may push.
`io_context::stop` lets a running handler finish: the reader may act while `app`
is `stopping` and not after `Joined`.

**HomeAssistant.** Each coroutine is a set of actions cut at its `co_await`s.
Resolver, proxy, TLS and handshake of `doConnect` are one step that succeeds or
throws. `spawned` and `writing` are `doSend` coroutines before and inside
`async_write`. The server follows Home Assistant's protocol: a challenge, an
answer to the token, the states; the link may break whenever it is up.

**NetworkManager.** `start` spawns both connections before the thread runs;
`update` serves the service first, then drains the sensor's queue; an exception
of the service (no readable token) goes up through `update` and ends the program
with readings still queued; `destroy` stops the one `io_context` for both. The
two components are instances that this module interleaves; only what it says of
their common steps is its own.

**Renderer.** The frame is one call, and a pass is an action, so that the state
one pass leaves is what the next finds. `pipe` has GL's state, the context's copy
and the specs asked for last; `bind` the bindings. A draw is recorded with what
its shader reads where it looks: the contents of the uniform buffers and textures
bound there then. `editScene`, `onSceneObjectSelected`, `onEnableWireFrame` and
`moveCamera` are what the editor does between frames. An entity without a
material stops the program by the assertion of `get`; built without assertions
that read is undefined, and not modelled further.

**ResourceManager.** Steps of `start` are actions, `left` the files each has yet
to come to. A model is a file with its geometry; two may have one name, and a
name decides the mesh. `scene` and `file` are sets of kinds of entities, with
the model placed as a history component. `restart` begins a run over another
directory.

**UserInput.** Key events come between frames and name a key by place and by
letter. In `MouseLook`, `queue` holds the changes of the button that ImGui has
not come to: SDL's view is `down`, ImGui's is `seen`. `strayed` tells whether the
focus changed in this drag, `missed` whether the last press came in relative mode
with the cursor off the viewport. In relative mode SDL goes on moving the hidden
cursor, and the bindings pass its position to ImGui, so that the viewport may be
hovered or not in any frame. `TileDrag` keeps the order of a frame: the ray is
taken from the mouse of the frame before. `EditorFrame` is `Editor::update` with
both.

**SubsystemManager.** The clock has `2*Width` bits and the variable it is read
into `Width`.

**ProjectService.** A call of the service is a task that runs from await to
await; `pc` names where it resumes. `rows` are the children last built, whose
`State` objects Flutter reuses by position. A save is two steps, cutting the file
and writing it, and a restart may come between; a save may fail.

## 3. Runs

| Run | Instance | Shows |
|---|---|---|
| `registry` | 2 ids, one component type per treatment by the serializer, 2 payloads, 2 catalogues (two meshes, or one of them under another id), an empty mesh, at most one stray; 134 835 states | types, `PoolsConsistent`, `ActiveComplete`, `MeshesResolve`, and that `Registry` implements `EntityStore` |
| `undo_buffer` | 4 commands of 2 sizes, history of 3; 169 states | types, `WellFormed`, and that `UndoBuffer` implements `UndoStack` |
| `events` | 2 types, 4 listeners, nesting 3; 285 413 states | types, `Reclaimed`, `IteratorsValid`, and that `EventManager` implements `PubSub` |
| `editor` | 2 entities, 2 transforms, history of 2, 1 load, no interrupted edit; 672 615 states | types, `SelectionCoherent`, `UndoOwnState`, `EditsCovered` |
| `editor_gizmo_undo` | edits may be interrupted | **violation** of `UndoOwnState` |
| `editor_undo_deleted` | no load | **violation** of `GetAssertions` |
| `network` | 3 lines, every state of `secrets.json`, every loss of a connection; 123 738 states | types, `Conserved`, that `SensorStream` implements `MessageFeed`, `EventuallyDispatched`, `OneWriter`, `InOrder`, `CommandsAuthenticated`, `HandshakeGoesOn` |
| `renderer` | 2 entities, each in one of five states of completeness, 2 cameras; 42 362 states | `DrawnAsAsked`, `WindowForGui`, and that `Renderer` implements `Viewport` |
| `resources` | all directories of at most two of seven files: clashing names, empty, unreadable, without an icon, named like a primitive; 2 kinds of entities, 3 files seen over the runs; 124 880 states | `CatalogueCoherent`, `UploadedOnce`, `SameModel` |
| `input` | 5 keys of a German keyboard, 3 held at a time, 2 changes of the right button that ImGui has not seen, a docked browser; 446 368 states | types, `HeldExactly`, `UndoMeant`, `RotatesInDrag`, `AddedByDrag`, `GivenBack` |
| `launcher` | 2 projects, 2 calls in flight; 777 494 states up to symmetry | types, `UniquePaths`, `SettledFile`, `InterruptedSave` |
| `frame_delta_time` | a counter of 4 bits read into 2 | **violation** of `FrameIndependent` |

### Why the bounds are enough

* `MaxID = 1`: two entities are what swap-and-pop needs (the removed one and the
  last one), and the removal of the last row, of the only row and of a middle
  position of `active` all happen; ids run out and start again after a load.
  The constraint `Bounded` keeps to one stray at a time, whose scene has no rows
  of write-only types, and to one payload for the last id: one stray is given
  components, issued again, gets its second row, is destroyed, saved and loaded.
  Without the constraint the run has more than ten million states. The proofs
  have neither bound nor constraint, and lift the invariants and the refinement
  to any number of entities and strays.
* `MaxUndoSteps = 3` with commands of two sizes: eviction with one, two and
  three commands of mixed sizes; the proofs cover every history and size.
* Four listeners and three levels: the first, middle and last listener may
  remove itself or another one, before or after its turn, at each level; the
  second and third addition reallocate, the fourth finds room. The proofs have no
  such bound.
* Three lines: a read may end in the first, hold the second and begin the third,
  while one waits in the queue and one in the batch. Safety and refinement are
  proved for any number; the bound matters to liveness only.
* `HomeAssistant` has no bound: the dialogue is finite.
* `MaxLoads = 1`, a history of two: one scene replaced under a selection and a
  history; a second command evicts none, a third one does. Proved for any.
* Two entities and two cameras: one drawn and one not, one selected and one not,
  a camera that moves between frames. Frames are not bounded, and the proofs
  cover every set of entities.
* Two files in a directory are what a clash of names takes, and a third one seen
  in another run what a change of ids takes; the proof covers any directories.
* Two calls in flight: one between the steps of another; two projects: one that
  takes the row of the other. All four properties are proved for any number.
* Five keys: one that is elsewhere than its letter, the key in whose place it is,
  a Control, the first scancode outside the table, and a scancode past eight bits
  that is cut to the Z and shares its entry. The constraint `ShortChords` stops at
  three keys held: Ctrl and the two that share an entry. Two changes of the button
  in a frame are a click that SDL has seen the end of and ImGui not the start.

`CHECK_DEADLOCK FALSE` is set where the system stops: the program ends
(`network`), an assertion aborts it or an exception ends it (`editor` and its two
violations, `renderer`), or what it does next is undefined (`events`).

### Fairness

`NetworkManager` has weak fairness of three parts, each as a whole: the sensor's
coroutine, the service's coroutines, and the main loop. The network thread runs
an `io_context` kept alive by the work guard, whose handlers run in the order
they become ready, so that neither coroutine starves the other; SDL iterates the
main loop until the program is quit. The sensor, the servers and the user owe
nothing. Liveness is claimed under their good behaviour in the property itself:
unless the connection closes, the link is lost, there is no token or the program
ends. `UserInput` has weak fairness of a frame in which ImGui takes a waiting
event: frames follow one another, and ImGui's queue is taken from in each. The
user may hold or press the button for ever. The other modules state no fairness.

### What the violations show

1. `editor_gizmo_undo`: the click on a gizmo handle is picked one frame later and
   may select what lies behind; the drag then pushes the first entity's
   transform as the second one's old state.
2. `editor_undo_deleted`: drag, delete, Ctrl+Z writes through an index that is
   no longer valid.
3. `frame_delta_time`: the 64-bit counter is read into a `u32` and subtracted
   from 64 bits (`a_subsystem_manager.cpp:32-33`): in the first frame, and
   whenever the low word has wrapped, a held key moves the camera by centuries
   times its speed (`editor.cpp:226`).

### Observations that have no run

Met while modelling; the models follow the code in each of them.

*Editor.*
Tab from one box of a DragFloat3 to the next, and Shift+Tab, overwrite the shared
snapshot before the finished edit pushes it, so that the edit cannot be undone
(`component_ui.hpp:59-66`, against `:44-46`). `EditsCovered` stops following the
entity; without that TLC finds it at once.
With the Browser floating over the viewport, a click on a tile after an earlier
drop adds an entity at the last hit point (`a_BrowserPanel.cpp:69`, `:119`,
against `a_BrowserPanel.hpp:47`): `TileDrag` with `Floating = TRUE` violates
`AddedByDrag`.
Ctrl+Tab in the middle of a right-button drag leaves the mouse in relative mode,
or the camera turning, until the next drag; `GivenBack` and `RotatesInDrag` hold
where the focus stays. A quick release and press in the middle of a drag leaves
the mouse in relative mode too, if ImGui takes the press while the hidden cursor
is over the toolbar of the viewport (`a_ViewportPanel.cpp:275`, `:342`) or another
panel: `canRotate` is then false and `cameraMovement` returns at its first line.
`GivenBack` excepts it (`missed`), and is false without that.
After a load the inspector adds a component to the id that was selected before,
whether or not the scene has it (`a_DetailsPanel.cpp:68`), and `createEntity` may
later hand that id out, against `a_registry.hpp:164`. `Registry` has the case: the
entity gets the stray's components and a second row where it has the type
already, which removal leaves behind as a row that no index leads to. `Consistent`
of all ids, and `ActiveComplete` without `strays`, are false; with the strays
apart they hold, and `get` does not reach another entity's row. Picking asks
for the bounds of each row's owner, so that a row left behind stops the program
by the assertion of `get` (`editor.cpp:144-150`), one of the ends that `Terminate`
stands for.

*Input.* Scancode 285, the key that refreshes a browser page, cast to eight bits
is `Keycode::Z` (`input_manager.cpp:52`, against `:46-47`): Ctrl and that key
undo, and `UndoMeant` counts it among the keys that do. On a French layout the
comma and the m share `Keycode::M`, and releasing one clears the other's entry
(against `input_manager.hpp:65`), as the refresh key and the z do in the run;
`HeldExactly` claims for such keys only that no entry stays true with none of
them held.

*Events.* `a_event_manager.hpp:36` promises that a callback may add listeners;
one of the type under dispatch may move the vector the loop stands in (`:89`),
and the loop then reads freed memory. `IteratorsValid` says that nothing else
does this to a loop; without its second alternative (`f.end < n`) it is false. No
listener of the repository adds one of its own type.

*Scene.* `load` looks up five component types by name and `save` writes all, so
Device and ParticleSystem components do not survive (`sceneSerializer.cpp:98`,
against `sceneSerializer.hpp:17`).

*Resources.* `getFileName` drops the extension that `a_filesystem.hpp:84-89` says
it keeps, so that `BMV080.obj` and `BMV080.fbx` clash and the second is silently
skipped. One file that cannot be read stops every start
(`resource_manager.cpp:433-436`). "Create Empty" makes an entity that shows mesh
0 (`a_HierarchyPanel.cpp:187`). A device type without an icon (CABLE,
BREADBOARD) makes the browser throw in its first frame (`a_BrowserPanel.cpp:57`).

*Renderer.* `prefilter.frag:20` reads its roughness from buffer slot 1, where
nothing is bound while it runs. Built without assertions, an entity without a
material is undefined behaviour. Subsystems are destroyed in the order they were
registered, the window and its GL context before the parts that use them
(`a_subsystem_manager.cpp:41`). The resize timer (`renderer.cpp:530-558`) has no
caller.

*Home Assistant.* With no readable `secrets.json` the first challenge throws
through the main loop (`a_HomeAssistant.cpp:37`), where `a_HomeAssistant.hpp:49`
promises an empty string. `tests/test_boost_websocket_client.cpp:87` expects a
log line that `a_BoostWebsocketClient.cpp:74` has commented out.
`m_Authenticated` is never reset when the link is lost; nothing reconnects, so
nothing comes of it.

*Sensor.* Nothing listens to `OnSensorMessageReceived`: `Conserved` and
`EventuallyDispatched` follow a reading to its dispatch, and the chart plots a
sine of the frame clock (`a_Chart.cpp:17-23`).

*Launcher.* The dialog that asks whether to delete reads its project anew when
confirmed (`project_list.dart:345-347`, `:363`): if a create finishes under the
open dialog, the row under it stands for another project. `_save` cuts
`projects.json` before it writes it, and `load` takes an empty file for no
projects (`project_service.dart:56-69`): `InterruptedSave` states that a launcher
closed between the two comes up with an empty list, and next to it what is not
lost at any other time. When saves overlap or fail, the file may hold an older list
or a damaged one, which is then read as none, until a save goes undisturbed;
nothing is claimed of the file before that.

*Console.* The input line is parsed with the NULs behind it, so that `help` is
unknown unless a blank follows (`a_ConsolePanel.cpp:91`, against
`Console.cpp:36`); a flag is refused if it is allowed (`Console.cpp:62`, against
`Console.h:40`); the completion callback casts a `ConsolePanel*` to an
`AppConsole*`.

## 4. Proofs

A theorem holds for every value of the constants that satisfies the ASSUMEs of
the component modules: ids and history lengths are naturals, sizes of commands
are positive, the groups of component types are disjoint, a mesh catalogue is a
non-empty sequence of names (the primitives are always registered), the default
payload is one of the payloads, primitives hold a mesh each and have names of
their own, the browser's tile is no place of the viewport, "no entity", "no
listener", "no row" and "no key" are none. TLC evaluates each in a passing run.
Where a theorem assumes more, its statement says so, and the runs have the same:

| Assumption | Theorems | What it leaves out |
|---|---|---|
| `~Interrupts` | `SpecUndoOwnState`, `SpecEditsCovered` | Ctrl+Z in the middle of an edit, a click on a handle that picks what lies behind it: with it the first is false (`editor_gizmo_undo`) |
| `~Floating` | `SpecAddedByDrag` | the browser floating over the viewport |

An invariant that a run checks is seldom inductive as it stands. What follows
names the strengthening, which TLC checked on the run's instance before it was
proved.

**Registry** (`RegistryProofs`): `TypesAlways`, `PoolsAlwaysConsistent`,
`ActiveAlwaysComplete`, `MeshesAlwaysResolve` and the refinement `SceneIsStore`.
A removal keeps a pool consistent
only if the dense vectors have one length and each owner, strays apart, once; an
addition needs the new id to own nothing or to be a stray, which follows from
"every owner is active or a stray" and "every active id is less than the next"; a
load needs each entity, strays apart, once per pool in the file, which needs the
pools that were saved to be consistent; and mesh ids in range need the catalogue
to be the one of this run. A stray's second row takes the index away from its
first; a removal that moves the first one leads the index back there, and a load
to the last of them (`LastIndexProper`): each time to a row of its own, which is
why no other entity notices. `RegistryInv` is the
conjunction: `SceneOK` for the live scene and `DiskOK` for the file. There is one
lemma per operation of a pool (add, remove, assign, deserialize), one per action,
and `StepOK` joins them. The refinement reads each pool as a map from the owners
that are no strays to data, a mesh as its name (`SceneViewIs`); becoming a stray,
and what happens to one, leaves these maps as they are (`PoolViewAddStray`). What `get` returns after each operation
of a pool (`GetAfterAdd`, `GetAfterRemove`, ...) makes an edit or a removal one of
that map at one place, for every position that swap-and-pop moves. The load
is the long step: the rows it resolves are all those whose name the catalogue of
this run knows (`EveryRow`, a count of distinct rows), and what they become is
what was saved, less the meshes that are unknown (`RestoredView`, `ReplacedView`).

**Undo** (`UndoBufferProofs`): `UndoTypesAlways`, `UndoAlwaysWellFormed` and the
refinement `UndoImplementsStack`. `UndoInv` says that the offsets start at 0 and
that from each offset to the next, or to the end, lie the bytes of exactly one
command. `AppendOK`, `DeleteOK` and `PopOK` show what the three operations on
the stream do to it and to the stack it stands for, and that distinct commands
cannot be confused (`DispatchOK`) because the first byte names the command.

**Editor** (`EditorSessionProofs`): `SpecTypeOK`, `SpecSelectionCoherent`,
`SpecUndoOwnState`, `SpecEditsCovered`. The selection needs nothing but the
types. The other two need `Editing`: an edit in progress is of the entity that
is selected, the mouse is held while it is a drag and up while it is in a field,
and no click on the scene is waiting to be picked; a field that was not edited
yet leaves the transform as it was. So nothing but the end of the edit can change
what its snapshot is of (`PickingKeeps`, `PanelIdle`). `EditsCovered` holds when
no edit is in progress; `Covered` says what holds at all times: the oldest
command of an entity restores what it began with, and an entity with no command
began with what undoing the edit in progress would leave it (`Before`). A push
keeps it when it carries that state (`PushCovers`); an eviction makes the next
command the oldest, for all entities but the one that lost its own.

**Events** (`MessagingProofs`): `SpecTypeOK`, `SpecReclaimed`,
`SpecIteratorsValid` and the refinement `SpecImplementsPubSub`. `EInv` says that
each loop is within the vector as it was when the loop began, and valid or its
vector longer than then, that the level is the number of loops, and that nothing is flagged outside them. The refinement
maps a vector to the ids of its unflagged listeners and a loop to those it has
still to call: a flag takes one element out of each (`Kept` of a flagged vector),
a skipped listener is a step that changes nothing, and the cleanup at the end
removes nothing that a client sees.

**Sensor and Home Assistant** (`MessagingProofs`): `SpecManagerTypeOK`,
`SpecConserved`, the refinement `SpecImplementsFeed`, `SpecOneWriter`,
`SpecInOrder`, `SpecCommandsAuthenticated`, all of the composed
`NetworkManager`. `StreamInv` says what the bytes on their way are: texts and
newlines in turn (`Alternating`), beginning with a text, so that the first
newline of the buffer always ends the oldest line. `ServiceInv` has the
conservation of the service's messages (`Delivery`) and, in `Dialogue`, how far
server and service have come with each other: who has spoken and what for, which
is what keeps one frame under way at a time.

**Renderer** (`FrameProofs`): `SpecDrawnAsAsked`, `SpecWindowForGui` and the
refinement `FrameIsShown`. The first rests on `Coherent`: where the shadow copy and GL differ, the next call is
sent anyway (the first call of all, or a depth function that means nothing while
the test is off). `SpecsAreSet` shows that one call keeps it, `GuiLeavesNoTrace`
that ImGui's backend puts back what it changes, `PassCoherent` that each pass
does. The second needs to know which framebuffer is bound at each `pc` and what
each holds; `WInv` says both. The refinement adds `FrameInv`: which lighting map
has been made from the panorama (`BakedSoFar`), which slots and buffers a pass
finds set by an earlier one, and that depth is written when it is cleared
(`ReadyForPass`), and which draws each framebuffer holds (`DrawnSoFar`). There is
a lemma per call on the context for what it binds and leaves (`BufferSet`,
`CubeSet`, `TexturesSet`, ...) and one per step; only the outline pass changes the
texture, and what it draws from is this moment's frame (`SeenIsFrame`).

**Input** (`FrameProofs`): `SpecTypeOK`, `SpecHeldExactly` from "each true entry
has a key" (`Grounded`) and "each key has its entry, or shares it" (`Covered`);
`SpecUndoMeant` from the first of the two alone. Both are of every keyboard, with
shared entries and scancodes past eight bits.
`SpecRotatesInDrag` needs that an undisturbed drag goes on in a visible viewport
(`DragInView`), as a hidden one does not see the release. `SpecAddedByDrag` needs
`HitOfThisDrag`: a tile that is held has not left its place, or what the context
has of a hit is of this drag.

**Resources** (`ResourceManagerProofs`): `SpecTypeOK`, `SpecCatalogue`,
`SpecUploadedOnce`, `SpecSameModel`, which share one invariant: `Tables` (ids are
0, 1, ... in the order of the list, names and ids inverse to each other),
`Uploads` (nothing before `setupMeshes`, each mesh once from then on), `Filled`
(mesh 0 exists when scenes begin to name it), `FromFiles`, `Placed` and `Saved`
(an entity's mesh has the name of the model it was placed as, also through the
file and a run with other ids).

**Launcher** (`ProjectServiceProofs`): `SpecTypeOK`, `SpecUniquePaths`,
`SpecSettledFile`, `SpecInterruptedSave`. Between the encoding of a lone save and
its end the list does not change (`Encoded`), since each call that changes it
starts a save and is then no longer alone (`LoneSaver`); after the file is cut it
is empty until written (`Emptied`), which is all that a restart then finds. That no path is listed twice needs the
uniqueness of the file, of each encoding and of the rows, as each of them may
become the list again.

**Sequences** (`SequenceFilterTheorems`). The code filters vectors in place
(`std::erase_if`, `List.removeWhere`). `Kept` is that filter as a recursive
function on an initial segment of the naturals. What it yields is proved by
induction over the length: the library's induction theorems take an operator,
which no installed prover instantiates, so `NatSetInduction` and
`SeqSetInduction` state induction for a *set* of naturals or of sequences,
from the well-foundedness of `<`. `KeptElements`, `KeptDistinct`, `KeptSame`,
`KeptConcat` and the others follow.

**Only model-checked**:

* `EventuallyDispatched`, `HandshakeGoesOn`, `GivenBack`: liveness, which needs
  fairness and ENABLED, and TLAPS treats neither.
* The three violations, which are counterexamples.

## 5. Assumptions and limits of the models

* ImGui, ImGuizmo, SDL, Boost, Flutter and the filesystem are external and
  modelled by how they are used. ImGui deactivates a field before a click
  elsewhere takes effect; panels answer the mouse and are out of its reach while
  it is held on the gizmo.
* The passing run of `EditorSession` excludes interrupted edits
  (`Interrupts = FALSE`): an undo key during an edit, and a handle click that
  picks something else. With them `UndoOwnState` fails, which is the finding.
* `EditorSession` knows the Transforms of an entity that is not of the scene (an
  id selected before a load), as `get` reports them. Its other components, and the
  second row it gets when its id is issued again, are followed by `Registry`.
* Messages of the Home Assistant server are well formed, and a frame reaches the
  server no later than its `async_write` completes and is not answered before:
  a small frame is handed to the socket in one piece, and its completion is
  queued on the one network thread ahead of any answer. `OneWriter` depends on
  this and on the turns of the protocol, not on a queue in the client.
* One sensor client, one connection per run of the program, as in the code.
* Payloads are opaque values; what is compared is which value goes where. What a
  shader computes is its inputs.
* `SameModel` speaks of files whose names tell their models apart: of two files
  of one name the first in directory order wins.
* In the launcher the user acts on the rows as drawn, and what Flutter has not
  yet rebuilt is what they see.

### Not modelled

The chart's ring buffer has one writer and one reader in one function. Weather
service (one blocking request at start whose result is logged), proxy
settings, filesystem and JSON conversions, math and picking geometry (what a ray
hits is a choice): no state over time. Console: a line goes through a parser and
a table within one call, and the defects met in it are above. Shader programs,
vertex arrays and texture storage: every draw binds its own, and what becomes of
them is the driver's. ImGui's and implot's bindings, the icon headers (together
about half of the lines of the repository's code), generated headers, assets,
certificates: vendored or data; of `imgui_impl_opengl3.cpp` only what it does to
the renderer's state is modelled. Build, CI and the shader reflector run before
the program does. Rename, the tools, the search box and the inspectors of Tag,
Material and ParticleSystem are left out of `EditorSession`: each writes one
field that no other part of the model reads. The order in which subsystems are
destroyed is left out as its effect is in the driver.

## 6. Plan

Done: registry, scene and serializer with `EntityStore`; undo buffer with
`UndoStack`; events with `PubSub`; the editor session over them; the sensor
stream with `MessageFeed` and Home Assistant, composed by `NetworkManager`; the
renderer over its context with `Viewport`; resources over several runs; the
input path; the launcher; the frame clock.

Every safety property, action property and refinement that a passing run checks
is proved. What would add most next: interrupted field edits once the editor
decides what Ctrl+Z means during one; the steps of the liveness arguments that
need no fairness (what each turn of the handshake leaves enabled).
