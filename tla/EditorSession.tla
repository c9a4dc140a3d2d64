---------------------------- MODULE EditorSession ----------------------------
(***************************************************************************)
(* An editing session: the key handler, viewport picking, the File menu,   *)
(* the hierarchy, the inspector and the transform gizmo of editor/ and     *)
(* gui/, sharing one selection, one undo history and one scene.            *)
(*                                                                         *)
(* A frame is: the key events; editorPicking, which sees the mouse button  *)
(* of the frame before because ImGui's frame begins after it; then, in     *)
(* ImGui's frame, the menu, the hierarchy, the details and the viewport.   *)
(* phase says how far the frame has come.                                  *)
(*                                                                         *)
(* The scene is reduced to its Transform components and the history to the *)
(* bounded stack that UndoBuffer implements. ImGui and ImGuizmo are        *)
(* external: which widget a click reaches, what a ray hits and when a drag *)
(* ends are choices.                                                       *)
(***************************************************************************)
EXTENDS Integers, Sequences

CONSTANTS
  MaxID,         \* largest entity id
  Values,        \* transforms
  Default,       \* that of a new entity
  MaxUndoSteps,  \* UndoBuffer::maxUndoSteps
  MaxLoads,      \* bound on the scenes loaded in a behaviour
  Interrupts,    \* whether an edit in progress can be interrupted: by Ctrl+Z, or by
                 \* the click that began it when it picks what lies behind a handle
  None           \* INVALID_ENTITY_ID

Entity == 0 .. MaxID

ASSUME EditorAssumption ==
  /\ MaxID \in Nat
  /\ MaxLoads \in Nat
  /\ MaxUndoSteps \in Nat \ {0}
  /\ Default \in Values
  /\ None \notin Int
  /\ Interrupts \in BOOLEAN

VARIABLES
  transforms,  \* the Transform pool: entity -> transform
  active,      \* m_ActiveEntities
  nextID,      \* m_NextID
  saved,       \* scene.json: whether there is one, and the transforms in it
  loads,       \* scenes loaded so far
  selection,   \* SelectionContext::m_SelectedEntity
  viewport,    \* ViewportPanel::m_SelectedEntity
  highlight,   \* Renderer::m_SelectedForHighlighting
  history,     \* the commands of the undo buffer, oldest first
  gizmo,       \* m_IsDraggingGizmo, m_ActiveUndoState, and ImGuizmo's own flag
  field,       \* the inspector's active field and its snapshot
  mouse,       \* the left button, as far as it was pressed in the viewport
  phase,       \* what the frame has come to; or the program's end: "aborted" by a
               \* failed assertion, "ended" by an exception
  stale,       \* history variable: the selection is of a scene since replaced
  first        \* history variable: transform each entity began with

scene == <<transforms, active, nextID>>
selected == <<selection, viewport, highlight, stale>>
vars == <<scene, saved, loads, selected, history, gizmo, field, mouse, phase, first>>

\* A snapshot, with a history component: whose transform it is.
Snapshot(e) == [of |-> e, state |-> transforms[e]]
NoSnapshot == [of |-> None, state |-> Default]

CommandFor(e, snap) == [entity |-> e, old |-> snap.state, of |-> snap.of]

Buffer == INSTANCE UndoStack WITH
            Command <- {}, NoCommand <- None, dispatched <- None

Extended(f, e, v) == [x \in DOMAIN f \cup {e} |-> IF x = e THEN v ELSE f[x]]

Without(f, S) == [x \in DOMAIN f \ S |-> f[x]]

\* A defect for the mutation check: the history has no cap.
PushUncapped(c) ==
  /\ history' = Append(history, c)
  /\ UNCHANGED first

\* Whose oldest command the next push evicts: first follows it no further.
Evicted == IF Len(history) < MaxUndoSteps THEN {} ELSE {history[1].entity}

\* The listener of OnPushUndoTransform.
PushUndo(c) ==
  /\ history' = Buffer!Pushed(history, c)
  /\ first' = Without(first, Evicted)

\* setSelectedEntity and the dispatch of OnSceneObjectSelected: its listeners
\* are the viewport panel, the chart and the renderer.
Select(e) ==
  IF e = selection THEN UNCHANGED selected
  ELSE /\ selection' = e
       /\ viewport' = e
       /\ highlight' = e
       /\ stale' = FALSE

\* The panels answer the mouse, and are not reached while the left button is
\* held on the gizmo.
PanelFree == ~mouse.held

Idle == ~gizmo.dragging /\ field.kind = "none"

-----------------------------------------------------------------------------
Init ==
  /\ transforms = <<>>
  /\ active = {}
  /\ nextID = 0
  /\ saved = [exists |-> FALSE, scene |-> <<>>]
  /\ loads = 0
  /\ selection = None /\ viewport = None /\ highlight = None
  /\ history = <<>>
  /\ gizmo = [dragging |-> FALSE, snapshot |-> NoSnapshot, using |-> FALSE]
  /\ field = [kind |-> "none", snapshot |-> NoSnapshot]
  /\ mouse = [held |-> FALSE, click |-> "none"]
  /\ phase = "events"
  /\ stale = FALSE
  /\ first = <<>>

\* Ctrl+Z: UndoBuffer::undo writes the old state through get, which asserts
\* that the entity still has the component and ends the program if not.
KeyUndo ==
  /\ phase = "events"
  /\ Interrupts \/ Idle
  /\ history # <<>>
  /\ LET c == history[Len(history)]
     IN IF c.entity \in DOMAIN transforms
        THEN transforms' = [transforms EXCEPT ![c.entity] = c.old] /\ UNCHANGED phase
        ELSE phase' = "aborted" /\ UNCHANGED transforms
  /\ history' = SubSeq(history, 1, Len(history) - 1)
  /\ UNCHANGED <<active, nextID, saved, loads, selected, gizmo, field, mouse, first>>

\* What a click of the last frame hits: any entity with bounds, or nothing.
\* On a handle of the gizmo it hits the selected entity, or with Interrupts
\* whatever lies behind the handle, as editorPicking does not ask ImGuizmo.
Hits ==
  IF mouse.click = "handle" /\ ~Interrupts THEN {selection}
  ELSE (active \cap DOMAIN transforms) \cup {None}

EditorPicking ==
  /\ phase = "events"
  /\ phase' = "menu"
  /\ IF mouse.click = "none" THEN UNCHANGED selected
     ELSE \E hit \in Hits : Select(hit)
  /\ UNCHANGED <<scene, saved, loads, history, gizmo, field, mouse, first>>

Save ==
  /\ phase = "menu"
  /\ PanelFree
  /\ field.kind = "none"
  /\ phase' = "details"
  /\ saved' = [exists |-> TRUE, scene |-> transforms]
  /\ UNCHANGED <<scene, loads, selected, history, gizmo, field, mouse, first>>

\* SceneSerializer::load from the File menu: neither the selection nor the
\* undo history hears of it. The next id is one more than the largest in the
\* file; of a file with no entities it is 1, or 0 if it has no pools either.
Load ==
  /\ phase = "menu"
  /\ PanelFree
  /\ field.kind = "none"
  /\ saved.exists
  /\ loads < MaxLoads
  /\ phase' = "details"
  /\ loads' = loads + 1
  /\ transforms' = saved.scene
  /\ active' = DOMAIN saved.scene
  /\ nextID' \in {n \in 0 .. MaxID + 1 :
                    IF active' = {} THEN n \in {0, 1}
                    ELSE n - 1 \in active' /\ \A e \in active' : e < n}
  /\ stale' = (selection # None)
  /\ first' = <<>>
  /\ UNCHANGED <<saved, selection, viewport, highlight, history, gizmo, field, mouse>>

\* There is no scene.json: the menu throws, and nothing catches it.
LoadMissing ==
  /\ phase = "menu"
  /\ PanelFree
  /\ field.kind = "none"
  /\ ~saved.exists
  /\ phase' = "ended"
  /\ UNCHANGED <<scene, saved, loads, selected, history, gizmo, field, mouse, first>>

\* HierarchyPanel::selectEntity, by a click or by opening a context menu; ImGui
\* has deactivated the inspector's field before.
SelectInHierarchy(e) ==
  /\ phase = "menu"
  /\ PanelFree
  /\ e \in active
  /\ field.kind = "none"
  /\ phase' = "details"
  /\ Select(e)
  /\ UNCHANGED <<scene, saved, loads, history, gizmo, field, mouse, first>>

\* A defect: the selection is left on the deleted entity.
DeleteKeepingSelection(e) ==
  /\ phase = "menu"
  /\ PanelFree
  /\ e \in active
  /\ field.kind = "none"
  /\ phase' = "details"
  /\ transforms' = Without(transforms, {e})
  /\ active' = active \ {e}
  /\ first' = Without(first, {e})
  /\ Select(e)
  /\ UNCHANGED <<nextID, saved, loads, history, gizmo, field, mouse>>

\* "Delete" in an entity's context menu, which has selected it before.
DeleteInHierarchy(e) ==
  /\ phase = "menu"
  /\ PanelFree
  /\ e \in active
  /\ field.kind = "none"
  /\ phase' = "details"
  /\ transforms' = Without(transforms, {e})
  /\ active' = active \ {e}
  /\ first' = Without(first, {e})
  /\ selection' = None /\ viewport' = None /\ highlight' = None /\ stale' = FALSE
  /\ UNCHANGED <<nextID, saved, loads, history, gizmo, field, mouse>>

\* addEntity. After a load its id may have commands of the earlier scene, and
\* first does not follow it.
SpawnInHierarchy ==
  /\ phase = "menu"
  /\ PanelFree
  /\ field.kind = "none"
  /\ nextID <= MaxID
  /\ phase' = "details"
  /\ nextID' = nextID + 1
  /\ active' = active \cup {nextID}
  /\ transforms' = Extended(transforms, nextID, Default)
  /\ first' = IF \E i \in 1 .. Len(history) : history[i].entity = nextID
              THEN first ELSE Extended(first, nextID, Default)
  /\ UNCHANGED <<saved, loads, selected, history, gizmo, field, mouse>>

\* The panels drawn before the details have nothing to do.
SkipPanels ==
  /\ phase = "menu"
  /\ phase' = "details"
  /\ UNCHANGED <<scene, saved, loads, selected, history, gizmo, field, mouse, first>>

-----------------------------------------------------------------------------
\* drawComponentUI<Transform> for the selected entity; at most one of its
\* fields is active.
Inspected == selection # None /\ selection \in DOMAIN transforms

FieldActivated ==
  /\ phase = "details"
  /\ Inspected
  /\ PanelFree
  /\ field.kind = "none"
  /\ field' = [kind |-> "active", snapshot |-> Snapshot(selection)]
  /\ phase' = "viewport"
  /\ UNCHANGED <<scene, saved, loads, selected, history, gizmo, mouse, first>>

FieldEdited(v) ==
  /\ phase = "details"
  /\ Inspected
  /\ field.kind # "none"
  /\ transforms' = [transforms EXCEPT ![selection] = v]
  /\ field' = [field EXCEPT !.kind = "edited"]
  /\ phase' = "viewport"
  /\ UNCHANGED <<active, nextID, saved, loads, selected, history, gizmo, mouse, first>>

\* A defect: the event carries the state after the edit.
PushStateAfterEdit ==
  /\ phase = "details"
  /\ Inspected
  /\ field.kind # "none"
  /\ IF field.kind = "edited" THEN PushUndo(CommandFor(selection, Snapshot(selection)))
     ELSE UNCHANGED <<history, first>>
  /\ field' = [kind |-> "none", snapshot |-> NoSnapshot]
  /\ phase' = "viewport"
  /\ UNCHANGED <<scene, saved, loads, selected, gizmo, mouse>>

\* IsItemDeactivatedAfterEdit: the event names the entity selected now.
FieldDeactivated ==
  /\ phase = "details"
  /\ Inspected
  /\ field.kind # "none"
  /\ IF field.kind = "edited" THEN PushUndo(CommandFor(selection, field.snapshot))
     ELSE UNCHANGED <<history, first>>
  /\ field' = [kind |-> "none", snapshot |-> NoSnapshot]
  /\ phase' = "viewport"
  /\ UNCHANGED <<scene, saved, loads, selected, gizmo, mouse>>

\* Tab to a field drawn later: the old field's event is dispatched before the
\* new field takes the snapshot that they share.
FieldTabbedOn ==
  /\ phase = "details"
  /\ Inspected
  /\ field.kind # "none"
  /\ IF field.kind = "edited" THEN PushUndo(CommandFor(selection, field.snapshot))
     ELSE UNCHANGED <<history, first>>
  /\ field' = [kind |-> "active", snapshot |-> Snapshot(selection)]
  /\ phase' = "viewport"
  /\ UNCHANGED <<scene, saved, loads, selected, gizmo, mouse>>

\* Tab to another box of the same DragFloat3, a group that ImGui reports as
\* activated and deactivated at once, or Shift+Tab to a field drawn earlier:
\* the snapshot is taken anew before the event carries it off. That edit can no
\* longer be undone, and first does not follow the entity any further.
FieldTabbedBack ==
  /\ phase = "details"
  /\ Inspected
  /\ field.kind # "none"
  /\ field' = [kind |-> "active", snapshot |-> Snapshot(selection)]
  /\ IF field.kind = "edited"
     THEN /\ history' = Buffer!Pushed(history, CommandFor(selection, field'.snapshot))
          /\ first' = Without(first, {selection} \cup Evicted)
     ELSE UNCHANGED <<history, first>>
  /\ phase' = "viewport"
  /\ UNCHANGED <<scene, saved, loads, selected, gizmo, mouse>>

\* "Add Component" offers Transform when the selected entity has none, which
\* is so only when the entity is not of this scene.
AddTransform ==
  /\ phase = "details"
  /\ selection # None
  /\ selection \notin DOMAIN transforms
  /\ PanelFree
  /\ field.kind = "none"
  /\ transforms' = Extended(transforms, selection, Default)
  /\ phase' = "viewport"
  /\ UNCHANGED <<active, nextID, saved, loads, selected, history, gizmo, field, mouse, first>>

SkipDetails ==
  /\ phase = "details"
  /\ phase' = "viewport"
  /\ UNCHANGED <<scene, saved, loads, selected, history, gizmo, field, mouse, first>>

-----------------------------------------------------------------------------
\* ViewportPanel::onGuiRender: the left button does something (press), ImGuizmo
\* moves the object under its handles while it is held, and
\* handleGizmoInteraction takes over the result.
GizmoShown == viewport # None /\ viewport \in DOMAIN transforms

Presses ==
  {"none"} \cup
  (IF mouse.held \/ field.kind # "none" THEN {}
   ELSE IF GizmoShown THEN {"scene", "handle"} ELSE {"scene"})

Dragged(v) ==
  /\ gizmo' = [gizmo EXCEPT !.dragging = TRUE, !.using = TRUE,
                            !.snapshot = IF gizmo.dragging THEN @ ELSE Snapshot(viewport)]
  /\ transforms' = [transforms EXCEPT ![viewport] = v]
  /\ UNCHANGED <<history, first>>

\* A defect: the end of the drag is not noticed until the next one.
FinalizedKeepingDrag ==
  /\ gizmo' = [gizmo EXCEPT !.using = FALSE]
  /\ IF gizmo.dragging /\ transforms[viewport] # gizmo.snapshot.state
     THEN PushUndo(CommandFor(viewport, gizmo.snapshot))
     ELSE UNCHANGED <<history, first>>
  /\ UNCHANGED transforms

\* finalizeGizmoInteraction, if a drag was in progress.
Finalized ==
  /\ gizmo' = [dragging |-> FALSE, snapshot |-> NoSnapshot, using |-> FALSE]
  /\ IF gizmo.dragging /\ transforms[viewport] # gizmo.snapshot.state
     THEN PushUndo(CommandFor(viewport, gizmo.snapshot))
     ELSE UNCHANGED <<history, first>>
  /\ UNCHANGED transforms

ViewportRender(press, held, v) ==
  /\ phase = "viewport"
  /\ press \in Presses
  /\ press # "none" => held
  /\ held => mouse.held \/ press # "none"
  /\ phase' = "events"
  /\ mouse' = [held |-> held, click |-> press]
  /\ IF ~GizmoShown THEN UNCHANGED <<gizmo, transforms, history, first>>
     ELSE IF press = "handle" \/ (gizmo.using /\ held) THEN Dragged(v)
     ELSE Finalized
  /\ UNCHANGED <<active, nextID, saved, loads, selected, field>>

-----------------------------------------------------------------------------
Next ==
  \/ KeyUndo
  \/ EditorPicking
  \/ Save
  \/ Load
  \/ LoadMissing
  \/ \E e \in Entity : SelectInHierarchy(e)
  \/ \E e \in Entity : DeleteInHierarchy(e)
  \/ SpawnInHierarchy
  \/ SkipPanels
  \/ FieldActivated
  \/ \E v \in Values : FieldEdited(v)
  \/ FieldDeactivated
  \/ FieldTabbedOn
  \/ FieldTabbedBack
  \/ AddTransform
  \/ SkipDetails
  \/ \E press \in {"none", "scene", "handle"}, held \in BOOLEAN, v \in Values :
       ViewportRender(press, held, v)

Spec == Init /\ [][Next]_vars

-----------------------------------------------------------------------------
CommandType == [entity : Entity, old : Values, of : Entity]
SnapshotType == [of : Entity \cup {None}, state : Values]

TypeOK ==
  /\ DOMAIN transforms \subseteq Entity /\ transforms \in [DOMAIN transforms -> Values]
  /\ active \subseteq Entity
  /\ nextID \in 0 .. MaxID + 1
  /\ saved.exists \in BOOLEAN
  /\ DOMAIN saved.scene \subseteq Entity /\ saved.scene \in [DOMAIN saved.scene -> Values]
  /\ loads \in 0 .. MaxLoads
  /\ {selection, viewport, highlight} \subseteq Entity \cup {None}
  /\ history \in Seq(CommandType) /\ Len(history) <= MaxUndoSteps
  /\ gizmo \in [dragging : BOOLEAN, snapshot : SnapshotType, using : BOOLEAN]
  /\ field \in [kind : {"none", "active", "edited"}, snapshot : SnapshotType]
  /\ mouse \in [held : BOOLEAN, click : {"none", "scene", "handle"}]
  /\ phase \in {"events", "menu", "details", "viewport", "aborted", "ended"}
  /\ stale \in BOOLEAN
  /\ DOMAIN first \subseteq Entity /\ first \in [DOMAIN first -> Values]

\* The selection, the viewport's copy of it and the renderer's are one after
\* every handler, and until a scene is loaded under it the selection is an
\* entity of the scene: no panel draws, moves or outlines a deleted entity.
SelectionCoherent ==
  /\ viewport = selection /\ highlight = selection
  /\ stale \/ selection \in active \cup {None}

\* A command restores to its entity a state of that entity, not of the one that
\* was selected when the edit began.
UndoOwnState == \A i \in 1 .. Len(history) : history[i].entity = history[i].of

\* What undoing every command of e leaves it with.
Undone(e) ==
  LET mine == {i \in 1 .. Len(history) : history[i].entity = e}
  IN IF mine = {} THEN transforms[e]
     ELSE history[CHOOSE i \in mine : \A j \in mine : i <= j].old

\* No committed edit is missing from the history: with no edit in progress and
\* nothing evicted, undoing everything takes every entity back to the transform
\* it was created with, unless Tab went back in its fields after an edit.
EditsCovered ==
  Idle => \A e \in DOMAIN first : e \in DOMAIN transforms /\ Undone(e) = first[e]

\* The assertions of ComponentPool::get (a_registry.hpp:129-131) hold whenever
\* a command is undone.
GetAssertions == phase # "aborted"
=============================================================================
