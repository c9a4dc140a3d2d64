------------------------- MODULE EditorSessionProofs -------------------------
(***************************************************************************)
(* An editing session, for any number of entities, transforms, undo steps  *)
(* and scenes loaded.  The selection is one, and of the scene; and, unless *)
(* an edit is interrupted, a command is of the entity that it restores and *)
(* no committed edit is missing from the history.                          *)
(***************************************************************************)
EXTENDS EditorSession, SequenceFilterTheorems, TLAPS

\* An edit in progress has a snapshot of some entity.
Snapshots ==
  /\ gizmo.dragging => gizmo.snapshot.of \in Entity
  /\ field.kind # "none" => field.snapshot.of \in Entity

\* The edit in progress is of the entity that is selected, and none but the panels or
\* a release of the button can end it.
Editing ==
  /\ gizmo.dragging <=> gizmo.using
  /\ gizmo.dragging => /\ mouse.held /\ mouse.click # "scene" /\ field.kind = "none"
                       /\ GizmoShown /\ gizmo.snapshot.of = viewport
  /\ field.kind # "none" => /\ ~mouse.held /\ (phase = "events" => mouse.click = "none")
                            /\ Inspected /\ field.snapshot.of = selection
  /\ field.kind = "active" => transforms[selection] = field.snapshot.state

\* What undoing the edit in progress would leave e with.
Before(e) ==
  IF gizmo.dragging /\ e = viewport THEN gizmo.snapshot.state
  ELSE IF field.kind # "none" /\ e = selection THEN field.snapshot.state
  ELSE transforms[e]

Mentions(h, e) == \E i \in 1 .. Len(h) : h[i].entity = e

\* The oldest of e's commands restores v.
OldestRestores(h, e, v) ==
  \A i \in 1 .. Len(h) :
    h[i].entity = e /\ (\A j \in 1 .. i - 1 : h[j].entity # e) => h[i].old = v

Covered ==
  \A e \in DOMAIN first :
    /\ e \in DOMAIN transforms
    /\ OldestRestores(history, e, first[e])
    /\ ~Mentions(history, e) => Before(e) = first[e]

TypeInv == TypeOK /\ Snapshots

-----------------------------------------------------------------------------
\* Functions and sequences.
LEMMA ExtendedIs ==
  ASSUME NEW f, DOMAIN f \subseteq Entity, f \in [DOMAIN f -> Values], NEW e \in Entity, NEW v \in Values
  PROVE  /\ DOMAIN Extended(f, e, v) = DOMAIN f \cup {e} /\ DOMAIN Extended(f, e, v) \subseteq Entity
         /\ Extended(f, e, v) \in [DOMAIN Extended(f, e, v) -> Values]
         /\ Extended(f, e, v)[e] = v
         /\ \A x \in DOMAIN f : x # e => Extended(f, e, v)[x] = f[x]
BY DEF Extended

LEMMA WithoutIs ==
  ASSUME NEW f, DOMAIN f \subseteq Entity, f \in [DOMAIN f -> Values], NEW S
  PROVE  /\ DOMAIN Without(f, S) = DOMAIN f \ S /\ DOMAIN Without(f, S) \subseteq Entity
         /\ Without(f, S) \in [DOMAIN Without(f, S) -> Values]
         /\ \A x \in DOMAIN f \ S : Without(f, S)[x] = f[x]
BY DEF Without

LEMMA ExceptIs ==
  ASSUME NEW f, f \in [DOMAIN f -> Values], NEW e \in DOMAIN f, NEW v \in Values
  PROVE  /\ DOMAIN [f EXCEPT ![e] = v] = DOMAIN f /\ [f EXCEPT ![e] = v] \in [DOMAIN f -> Values]
         /\ [f EXCEPT ![e] = v][e] = v
         /\ \A x \in DOMAIN f : x # e => [f EXCEPT ![e] = v][x] = f[x]
OBVIOUS

\* pushCommand: the oldest goes when the history is full.
LEMMA PushedIs ==
  ASSUME NEW X, NEW h \in Seq(X), NEW c \in X, Len(h) <= MaxUndoSteps
  PROVE  LET d == IF Len(h) >= MaxUndoSteps THEN 1 ELSE 0
             g == Buffer!Pushed(h, c)
         IN /\ g \in Seq(X) /\ Len(g) = Len(h) - d + 1 /\ Len(g) <= MaxUndoSteps
            /\ g[Len(h) - d + 1] = c /\ \A i \in 1 .. Len(h) - d : g[i] = h[i + d]
            /\ Len(h) >= d /\ Len(h) \in Nat
<1>0. MaxUndoSteps \in Nat \ {0} /\ Len(h) \in Nat
  BY EditorAssumption
<1>1. CASE Len(h) >= MaxUndoSteps
  <2> DEFINE t == Tail(h)
             m == Len(h)
             u == Append(t, c)
  <2>1. h # <<>> /\ m \in Nat \ {0}
    <3>1. m \in Nat /\ m >= 1
      BY <1>0, <1>1
    <3> QED BY <3>1
  <2>2. t \in Seq(X) /\ Len(t) = m - 1 /\ \A i \in 1 .. m - 1 : t[i] = h[i + 1]
    BY <2>1, HeadTailProperties
  <2> HIDE DEF t
  <2>3. /\ u \in Seq(X) /\ Len(u) = Len(t) + 1 /\ u[Len(t) + 1] = c
        /\ \A i \in 1 .. Len(t) : u[i] = t[i]
    <3>1. t \in Seq(X)
      BY <2>2
    <3> QED BY <3>1
  <2>4. Buffer!Pushed(h, c) = u
    BY <1>1 DEF Buffer!Pushed, t
  <2> HIDE DEF u, m
  <2>5. m = MaxUndoSteps
    BY <1>0, <1>1 DEF m
  <2>6. /\ u \in Seq(X) /\ Len(u) = m - 1 + 1 /\ u[m - 1 + 1] = c
        /\ \A i \in 1 .. m - 1 : u[i] = h[i + 1]
    BY <2>2, <2>3
  <2> QED BY <1>0, <1>1, <2>1, <2>4, <2>5, <2>6 DEF m
<1>2. CASE ~(Len(h) >= MaxUndoSteps)
  <2> DEFINE u == Append(h, c)
             m == Len(h)
  <2>1. /\ u \in Seq(X) /\ Len(u) = m + 1 /\ u[m + 1] = c
        /\ \A i \in 1 .. m : u[i] = h[i]
    OBVIOUS
  <2>2. Buffer!Pushed(h, c) = u
    BY <1>2 DEF Buffer!Pushed
  <2> HIDE DEF u, m
  <2>3. m \in Nat /\ m + 1 <= MaxUndoSteps /\ ~(m >= MaxUndoSteps) /\ m - 0 = m
    BY <1>0, <1>2 DEF m
  <2>4. \A i \in 1 .. m - 0 : i + 0 = i /\ u[i] = h[i + 0]
    BY <2>1, <2>3
  <2> QED BY <2>1, <2>2, <2>3, <2>4 DEF m
<1> QED BY <1>1, <1>2

LEMMA PushedHistory ==
  ASSUME TypeOK, NEW c \in CommandType
  PROVE  LET d == IF Len(history) >= MaxUndoSteps THEN 1 ELSE 0
             g == Buffer!Pushed(history, c)
         IN /\ Len(g) = Len(history) - d + 1 /\ g[Len(history) - d + 1] = c
            /\ \A i \in 1 .. Len(history) - d : g[i] = history[i + d]
            /\ Len(history) >= d /\ Len(history) \in Nat
<1>1. history \in Seq(CommandType) /\ Len(history) <= MaxUndoSteps
  BY DEF TypeOK
<1> QED BY <1>1, PushedIs

\* UndoBuffer::undo: the newest goes.
LEMMA PoppedIs ==
  ASSUME NEW X, NEW h \in Seq(X), h # <<>>
  PROVE  /\ SubSeq(h, 1, Len(h) - 1) \in Seq(X) /\ Len(SubSeq(h, 1, Len(h) - 1)) = Len(h) - 1
         /\ \A i \in 1 .. Len(h) - 1 : SubSeq(h, 1, Len(h) - 1)[i] = h[i]
         /\ Len(h) \in Nat \ {0} /\ h[Len(h)] \in X
<1> DEFINE n == Len(h) - 1
<1>1. Len(h) \in Nat \ {0} /\ n \in Nat /\ n = Len(h) - 1
  OBVIOUS
<1>2. h[Len(h)] \in X
  BY <1>1
<1> HIDE DEF n
<1> DEFINE t == SubSeq(h, 1, n)
<1>3. t \in Seq(X) /\ Len(t) = n /\ \A i \in 1 .. n : t[i] = h[i]
  BY <1>1
<1> QED BY <1>1, <1>2, <1>3

-----------------------------------------------------------------------------
LEMMA InitTypes == Init => TypeInv
<1> SUFFICES ASSUME Init PROVE TypeInv
  OBVIOUS
<1>1. <<>> \in [DOMAIN <<>> -> Values] /\ DOMAIN <<>> \subseteq Entity
  OBVIOUS
<1>2. <<>> \in Seq(CommandType) /\ Len(<<>>) = 0 /\ 0 <= MaxUndoSteps
  BY EditorAssumption
<1>3. NoSnapshot \in SnapshotType
  BY EditorAssumption DEF NoSnapshot, SnapshotType
<1>4. gizmo \in [dragging : BOOLEAN, snapshot : SnapshotType, using : BOOLEAN] /\ ~gizmo.dragging
  <2>1. gizmo = [dragging |-> FALSE, snapshot |-> NoSnapshot, using |-> FALSE]
    BY DEF Init
  <2> QED BY <1>3, <2>1
<1>5. field \in [kind : {"none", "active", "edited"}, snapshot : SnapshotType] /\ field.kind = "none"
  BY <1>3 DEF Init
<1>6. mouse \in [held : BOOLEAN, click : {"none", "scene", "handle"}]
  BY DEF Init
<1>7. DOMAIN transforms \subseteq Entity /\ transforms \in [DOMAIN transforms -> Values]
  BY <1>1 DEF Init
<1>8. saved.exists \in BOOLEAN /\ DOMAIN saved.scene \subseteq Entity
      /\ saved.scene \in [DOMAIN saved.scene -> Values]
  BY <1>1 DEF Init
<1>9. DOMAIN first \subseteq Entity /\ first \in [DOMAIN first -> Values]
  BY <1>1 DEF Init
<1>10. /\ active \subseteq Entity /\ nextID \in 0 .. MaxID + 1 /\ loads \in 0 .. MaxLoads
       /\ {selection, viewport, highlight} \subseteq Entity \cup {None}
       /\ phase \in {"events", "menu", "details", "viewport", "aborted", "ended"}
  BY EditorAssumption DEF Init
<1>11. stale \in BOOLEAN
  BY DEF Init
<1>12. history \in Seq(CommandType) /\ Len(history) <= MaxUndoSteps
  BY <1>2 DEF Init
<1>13. TypeOK
  BY <1>4, <1>5, <1>6, <1>7, <1>8, <1>9, <1>10, <1>11, <1>12 DEF TypeOK
<1> QED BY <1>4, <1>5, <1>13 DEF TypeInv, Snapshots

LEMMA PushTypes ==
  ASSUME TypeOK, NEW e \in Entity, NEW snap \in SnapshotType, snap.of \in Entity,
         PushUndo(CommandFor(e, snap))
  PROVE  /\ history' \in Seq(CommandType) /\ Len(history') <= MaxUndoSteps
         /\ DOMAIN first' \subseteq Entity /\ first' \in [DOMAIN first' -> Values]
<1>1. CommandFor(e, snap) \in CommandType
  BY DEF CommandFor, CommandType, SnapshotType
<1>2. /\ history \in Seq(CommandType) /\ Len(history) <= MaxUndoSteps
      /\ DOMAIN first \subseteq Entity /\ first \in [DOMAIN first -> Values]
  BY DEF TypeOK
<1>3. history' = Buffer!Pushed(history, CommandFor(e, snap)) /\ first' = Without(first, Evicted)
  BY DEF PushUndo
<1> QED BY <1>1, <1>2, <1>3, PushedIs, WithoutIs

LEMMA SnapshotIs ==
  ASSUME TypeOK, NEW e \in DOMAIN transforms
  PROVE  Snapshot(e) \in SnapshotType /\ Snapshot(e).of = e /\ Snapshot(e).state = transforms[e] /\ e \in Entity
<1>1. e \in Entity /\ transforms[e] \in Values
  BY DEF TypeOK
<1> QED BY <1>1 DEF Snapshot, SnapshotType

LEMMA SelectIs ==
  ASSUME NEW e, Select(e)
  PROVE  \/ UNCHANGED selected /\ selection = e
         \/ selection' = e /\ viewport' = e /\ highlight' = e /\ stale' = FALSE
BY DEF Select

\* Which actions change what: each keeps the types of the variables that it changes.
LEMMA KeyUndoTypes == ASSUME TypeInv, KeyUndo PROVE TypeInv'
<1> DEFINE c == history[Len(history)]
<1>1. /\ history # <<>> /\ history' = SubSeq(history, 1, Len(history) - 1)
      /\ \/ c.entity \in DOMAIN transforms /\ transforms' = [transforms EXCEPT ![c.entity] = c.old] /\ phase' = phase
         \/ phase' = "aborted" /\ transforms' = transforms
      /\ UNCHANGED <<active, nextID, saved, loads, selection, viewport, highlight, stale, gizmo, field, mouse, first>>
  BY DEF KeyUndo, selected
<1>2. history \in Seq(CommandType) /\ Len(history) <= MaxUndoSteps
  BY DEF TypeInv, TypeOK
<1>p. /\ history' \in Seq(CommandType) /\ Len(history') = Len(history) - 1
      /\ Len(history) \in Nat \ {0} /\ c \in CommandType
  BY <1>1, <1>2, PoppedIs
<1>3. history' \in Seq(CommandType) /\ Len(history') <= MaxUndoSteps
  BY <1>2, <1>p, EditorAssumption
<1>4. DOMAIN transforms' \subseteq Entity /\ transforms' \in [DOMAIN transforms' -> Values]
  <2>1. c.old \in Values
    BY <1>p DEF CommandType
  <2> QED BY <1>1, <2>1, ExceptIs DEF TypeInv, TypeOK
<1> QED BY <1>1, <1>3, <1>4 DEF TypeInv, TypeOK, Snapshots

LEMMA SelectTypes ==
  ASSUME TypeInv, NEW e \in Entity \cup {None}, Select(e),
         phase' \in {"events", "menu", "details", "viewport", "aborted", "ended"},
         DOMAIN transforms' \subseteq Entity, transforms' \in [DOMAIN transforms' -> Values],
         UNCHANGED <<active, nextID, saved, loads, history, gizmo, field, mouse, first>>
  PROVE  TypeInv'
<1>0. \/ UNCHANGED selected
      \/ selection' = e /\ viewport' = e /\ highlight' = e /\ stale' = FALSE
  BY SelectIs
<1>1. {selection', viewport', highlight'} \subseteq Entity \cup {None}
  <2>1. {selection, viewport, highlight} \subseteq Entity \cup {None}
    BY DEF TypeInv, TypeOK
  <2>2. CASE UNCHANGED selected
    BY <2>1, <2>2 DEF selected
  <2>3. CASE selection' = e /\ viewport' = e /\ highlight' = e
    BY <2>3
  <2> QED BY <1>0, <2>2, <2>3
<1>2. stale' \in BOOLEAN
  BY <1>0 DEF TypeInv, TypeOK, selected
<1> QED BY <1>1, <1>2 DEF TypeInv, TypeOK, Snapshots

LEMMA PickingTypes == ASSUME TypeInv, EditorPicking PROVE TypeInv'
<1>1. /\ UNCHANGED <<transforms, active, nextID, saved, loads, history, gizmo, field, mouse, first>>
      /\ phase' = "menu"
  BY DEF EditorPicking, scene
<1>2. CASE UNCHANGED selected
  BY <1>1, <1>2 DEF TypeInv, TypeOK, Snapshots, selected
<1>3. ASSUME NEW e \in Hits, Select(e) PROVE TypeInv'
  <2>1. e \in Entity \cup {None}
    BY DEF Hits, TypeInv, TypeOK
  <2> QED BY <1>1, <1>3, <2>1, SelectTypes DEF TypeInv, TypeOK
<1> QED BY <1>2, <1>3 DEF EditorPicking

LEMMA MenuTypes ==
  ASSUME TypeInv, Save \/ Load \/ SkipPanels \/ LoadMissing \/ SpawnInHierarchy
         \/ SkipDetails \/ AddTransform
  PROVE  TypeInv'
<1>1. CASE Save
  BY <1>1 DEF Save, scene, selected, TypeInv, TypeOK, Snapshots
<1>2. CASE SkipPanels \/ LoadMissing \/ SkipDetails
  BY <1>2 DEF SkipPanels, LoadMissing, SkipDetails, scene, selected, TypeInv, TypeOK, Snapshots
<1>3. CASE Load
  <2>1. loads' \in 0 .. MaxLoads
    BY <1>3, EditorAssumption DEF Load, TypeInv, TypeOK
  <2>2. nextID' \in 0 .. MaxID + 1 /\ active' \subseteq Entity
    BY <1>3 DEF Load, TypeInv, TypeOK
  <2>3. stale' \in BOOLEAN
    BY <1>3 DEF Load
  <2>4. DOMAIN first' \subseteq Entity /\ first' \in [DOMAIN first' -> Values]
    <3>1. <<>> \in [DOMAIN <<>> -> Values] /\ DOMAIN <<>> \subseteq Entity
      OBVIOUS
    <3> QED BY <1>3, <3>1 DEF Load
  <2> QED BY <1>3, <2>1, <2>2, <2>3, <2>4 DEF Load, TypeInv, TypeOK, Snapshots
<1>4. CASE SpawnInHierarchy
  <2>1. nextID \in Entity /\ nextID' \in 0 .. MaxID + 1 /\ active' \subseteq Entity /\ Default \in Values
    BY <1>4, EditorAssumption DEF SpawnInHierarchy, TypeInv, TypeOK, Entity
  <2>2. DOMAIN transforms' \subseteq Entity /\ transforms' \in [DOMAIN transforms' -> Values]
    BY <1>4, <2>1, ExtendedIs DEF SpawnInHierarchy, TypeInv, TypeOK
  <2>3. DOMAIN first' \subseteq Entity /\ first' \in [DOMAIN first' -> Values]
    BY <1>4, <2>1, ExtendedIs DEF SpawnInHierarchy, TypeInv, TypeOK
  <2> QED BY <1>4, <2>1, <2>2, <2>3 DEF SpawnInHierarchy, selected, TypeInv, TypeOK, Snapshots
<1>5. CASE AddTransform
  <2>1. selection \in Entity /\ Default \in Values
    BY <1>5, EditorAssumption DEF AddTransform, TypeInv, TypeOK
  <2>2. DOMAIN transforms' \subseteq Entity /\ transforms' \in [DOMAIN transforms' -> Values]
    BY <1>5, <2>1, ExtendedIs DEF AddTransform, TypeInv, TypeOK
  <2> QED BY <1>5, <2>2 DEF AddTransform, selected, TypeInv, TypeOK, Snapshots
<1> QED BY <1>1, <1>2, <1>3, <1>4, <1>5

LEMMA HierarchyTypes ==
  ASSUME TypeInv, NEW e \in Entity, SelectInHierarchy(e) \/ DeleteInHierarchy(e)
  PROVE  TypeInv'
<1>1. CASE SelectInHierarchy(e)
  BY <1>1, SelectTypes DEF SelectInHierarchy, scene, TypeInv, TypeOK
<1>2. CASE DeleteInHierarchy(e)
  <2>1. /\ DOMAIN transforms' \subseteq Entity /\ transforms' \in [DOMAIN transforms' -> Values]
        /\ DOMAIN first' \subseteq Entity /\ first' \in [DOMAIN first' -> Values]
    BY <1>2, WithoutIs DEF DeleteInHierarchy, TypeInv, TypeOK
  <2>2. stale' \in BOOLEAN
    BY <1>2 DEF DeleteInHierarchy
  <2> QED BY <1>2, <2>1, <2>2 DEF DeleteInHierarchy, TypeInv, TypeOK, Snapshots
<1> QED BY <1>1, <1>2

LEMMA FieldTypes ==
  ASSUME TypeInv,
         \/ FieldActivated \/ FieldDeactivated \/ FieldTabbedOn \/ FieldTabbedBack
         \/ \E v \in Values : FieldEdited(v)
  PROVE  TypeInv'
<1>1. /\ selection \in DOMAIN transforms /\ phase' = "viewport"
      /\ UNCHANGED <<active, nextID, saved, loads, selection, viewport, highlight, stale, gizmo, mouse>>
  BY DEF FieldActivated, FieldDeactivated, FieldTabbedOn, FieldTabbedBack, FieldEdited, Inspected, scene, selected
<1>2. /\ Snapshot(selection) \in SnapshotType /\ Snapshot(selection).of = selection /\ selection \in Entity
  BY <1>1, SnapshotIs DEF TypeInv
<1>3. field.kind # "none" => field.snapshot \in SnapshotType /\ field.snapshot.of \in Entity
  BY DEF TypeInv, TypeOK, Snapshots
<1>4. NoSnapshot \in SnapshotType
  BY EditorAssumption DEF NoSnapshot, SnapshotType
<1> DEFINE FieldOK(f) == /\ f \in [kind : {"none", "active", "edited"}, snapshot : SnapshotType]
                         /\ f.kind # "none" => f.snapshot.of \in Entity
<1>5. FieldOK(field')
  <2>1. CASE FieldActivated \/ FieldTabbedOn \/ FieldTabbedBack
    <3>1. field' = [kind |-> "active", snapshot |-> Snapshot(selection)]
      BY <2>1 DEF FieldActivated, FieldTabbedOn, FieldTabbedBack
    <3> QED BY <1>2, <3>1
  <2>2. CASE FieldDeactivated
    <3>1. field' = [kind |-> "none", snapshot |-> NoSnapshot]
      BY <2>2 DEF FieldDeactivated
    <3> QED BY <1>4, <3>1
  <2>3. CASE \E v \in Values : FieldEdited(v)
    <3>1. field' = [field EXCEPT !.kind = "edited"] /\ field.kind # "none"
      BY <2>3 DEF FieldEdited
    <3> QED BY <1>3, <3>1 DEF TypeInv, TypeOK
  <2> QED BY <2>1, <2>2, <2>3
<1>6. /\ history' \in Seq(CommandType) /\ Len(history') <= MaxUndoSteps
      /\ DOMAIN first' \subseteq Entity /\ first' \in [DOMAIN first' -> Values]
  <2>1. CASE UNCHANGED <<history, first>>
    BY <2>1 DEF TypeInv, TypeOK
  <2>2. CASE field.kind # "none" /\ PushUndo(CommandFor(selection, field.snapshot))
    BY <1>2, <1>3, <2>2, PushTypes DEF TypeInv
  <2>3. CASE FieldTabbedBack /\ ~UNCHANGED <<history, first>>
    <3>1. /\ history' = Buffer!Pushed(history, CommandFor(selection, Snapshot(selection)))
          /\ first' = Without(first, {selection} \cup Evicted)
      BY <2>3 DEF FieldTabbedBack
    <3>2. CommandFor(selection, Snapshot(selection)) \in CommandType
      BY <1>2 DEF CommandFor, CommandType, SnapshotType
    <3>3. /\ history \in Seq(CommandType) /\ Len(history) <= MaxUndoSteps
          /\ DOMAIN first \subseteq Entity /\ first \in [DOMAIN first -> Values]
      BY DEF TypeInv, TypeOK
    <3> QED BY <3>1, <3>2, <3>3, PushedIs, WithoutIs
  <2> QED BY <2>1, <2>2, <2>3 DEF FieldActivated, FieldDeactivated, FieldTabbedOn, FieldTabbedBack, FieldEdited
<1>7. DOMAIN transforms' \subseteq Entity /\ transforms' \in [DOMAIN transforms' -> Values]
  <2>1. transforms' = transforms \/ \E v \in Values : transforms' = [transforms EXCEPT ![selection] = v]
    BY DEF FieldActivated, FieldDeactivated, FieldTabbedOn, FieldTabbedBack, FieldEdited, scene
  <2> QED BY <1>1, <2>1, ExceptIs DEF TypeInv, TypeOK
<1>8. TypeOK'
  BY <1>1, <1>5, <1>6, <1>7 DEF TypeInv, TypeOK
<1> QED BY <1>1, <1>5, <1>8 DEF TypeInv, Snapshots

LEMMA ViewportTypes ==
  ASSUME TypeInv, NEW press \in {"none", "scene", "handle"}, NEW held \in BOOLEAN, NEW v \in Values,
         ViewportRender(press, held, v)
  PROVE  TypeInv'
<1>1. /\ mouse' = [held |-> held, click |-> press] /\ phase' = "events"
      /\ UNCHANGED <<active, nextID, saved, loads, selection, viewport, highlight, stale, field>>
  BY DEF ViewportRender, selected
<1>2. mouse' \in [held : BOOLEAN, click : {"none", "scene", "handle"}]
  BY <1>1
<1>3. CASE UNCHANGED <<gizmo, transforms, history, first>>
  BY <1>1, <1>2, <1>3 DEF TypeInv, TypeOK, Snapshots
<1>4. CASE GizmoShown /\ (Dragged(v) \/ Finalized)
  <2>1. viewport \in DOMAIN transforms
    BY <1>4 DEF GizmoShown
  <2>2. Snapshot(viewport) \in SnapshotType /\ Snapshot(viewport).of = viewport /\ viewport \in Entity
    BY <2>1, SnapshotIs DEF TypeInv
  <2>3. gizmo \in [dragging : BOOLEAN, snapshot : SnapshotType, using : BOOLEAN]
        /\ (gizmo.dragging => gizmo.snapshot.of \in Entity)
    BY DEF TypeInv, TypeOK, Snapshots
  <2>4. NoSnapshot \in SnapshotType
    BY EditorAssumption DEF NoSnapshot, SnapshotType
  <2>5. /\ gizmo' \in [dragging : BOOLEAN, snapshot : SnapshotType, using : BOOLEAN]
        /\ gizmo'.dragging => gizmo'.snapshot.of \in Entity
    <3>1. CASE Dragged(v)
      <4> DEFINE s == IF gizmo.dragging THEN gizmo.snapshot ELSE Snapshot(viewport)
      <4>1. s \in SnapshotType /\ s.of \in Entity
        BY <2>2, <2>3
      <4>2. gizmo' = [gizmo EXCEPT !.dragging = TRUE, !.using = TRUE, !.snapshot = s]
        BY <3>1 DEF Dragged
      <4> HIDE DEF s
      <4> QED BY <2>3, <4>1, <4>2
    <3>2. CASE Finalized
      <4>1. gizmo' = [dragging |-> FALSE, snapshot |-> NoSnapshot, using |-> FALSE]
        BY <3>2 DEF Finalized
      <4> QED BY <2>4, <4>1
    <3> QED BY <1>4, <3>1, <3>2
  <2>6. /\ history' \in Seq(CommandType) /\ Len(history') <= MaxUndoSteps
        /\ DOMAIN first' \subseteq Entity /\ first' \in [DOMAIN first' -> Values]
    <3>1. CASE UNCHANGED <<history, first>>
      BY <3>1 DEF TypeInv, TypeOK
    <3>2. CASE gizmo.dragging /\ PushUndo(CommandFor(viewport, gizmo.snapshot))
      BY <2>2, <2>3, <3>2, PushTypes DEF TypeInv
    <3> QED BY <1>4, <3>1, <3>2 DEF Dragged, Finalized
  <2>7. DOMAIN transforms' \subseteq Entity /\ transforms' \in [DOMAIN transforms' -> Values]
    <3>1. transforms' = transforms \/ transforms' = [transforms EXCEPT ![viewport] = v]
      BY <1>4 DEF Dragged, Finalized
    <3> QED BY <2>1, <3>1, ExceptIs DEF TypeInv, TypeOK
  <2>8. TypeOK'
    BY <1>1, <1>2, <2>5, <2>6, <2>7 DEF TypeInv, TypeOK
  <2> QED BY <1>1, <2>5, <2>8 DEF TypeInv, Snapshots
<1> QED BY <1>3, <1>4 DEF ViewportRender

LEMMA NextTypes == TypeInv /\ [Next]_vars => TypeInv'
<1> SUFFICES ASSUME TypeInv, [Next]_vars PROVE TypeInv'
  OBVIOUS
<1>1. CASE UNCHANGED vars
  BY <1>1 DEF vars, scene, selected, TypeInv, TypeOK, Snapshots
<1>2. ASSUME NEW press \in {"none", "scene", "handle"}, NEW held \in BOOLEAN, NEW v \in Values,
             ViewportRender(press, held, v)
      PROVE  TypeInv'
  BY <1>2, ViewportTypes
<1>3. ASSUME NEW e \in Entity, SelectInHierarchy(e) \/ DeleteInHierarchy(e) PROVE TypeInv'
  BY <1>3, HierarchyTypes
<1>4. CASE KeyUndo \/ EditorPicking \/ Save \/ Load \/ SpawnInHierarchy \/ SkipPanels \/ LoadMissing \/ AddTransform \/ SkipDetails
  BY <1>4, KeyUndoTypes, PickingTypes, MenuTypes
<1>5. CASE \/ FieldActivated \/ FieldDeactivated \/ FieldTabbedOn \/ FieldTabbedBack
           \/ \E v \in Values : FieldEdited(v)
  BY <1>5, FieldTypes
<1> QED BY <1>1, <1>2, <1>3, <1>4, <1>5 DEF Next

\* Every variable of the session has its type in every reachable state.
THEOREM SpecTypeOK == Spec => []TypeOK
<1>1. TypeInv => TypeOK
  BY DEF TypeInv
<1> QED BY <1>1, InitTypes, NextTypes, PTL DEF Spec

LEMMA SpecTypeInv == Spec => []TypeInv
BY InitTypes, NextTypes, PTL DEF Spec

-----------------------------------------------------------------------------
LEMMA InitCoherent == Init => SelectionCoherent
BY DEF Init, SelectionCoherent

LEMMA NextCoherent == TypeInv /\ SelectionCoherent /\ [Next]_vars => SelectionCoherent'
<1> SUFFICES ASSUME TypeInv, SelectionCoherent, [Next]_vars PROVE SelectionCoherent'
  OBVIOUS
<1>0. ASSUME NEW e \in active \cup {None}, Select(e), UNCHANGED active PROVE SelectionCoherent'
  <2>1. \/ UNCHANGED selected
        \/ selection' = e /\ viewport' = e /\ highlight' = e
    BY <1>0, SelectIs
  <2> QED BY <1>0, <2>1 DEF SelectionCoherent, selected
<1>1. ASSUME UNCHANGED <<selected, active>> PROVE SelectionCoherent'
  BY <1>1 DEF SelectionCoherent, selected
<1>2. CASE UNCHANGED vars
  BY <1>1, <1>2 DEF vars, scene
<1>3. CASE KeyUndo \/ Save \/ SkipPanels \/ LoadMissing \/ AddTransform \/ SkipDetails
  BY <1>1, <1>3 DEF KeyUndo, Save, SkipPanels, LoadMissing, AddTransform, SkipDetails, scene
<1>4. CASE EditorPicking
  <2>1. UNCHANGED active
    BY <1>4 DEF EditorPicking, scene
  <2>2. CASE UNCHANGED selected
    BY <1>1, <2>1, <2>2
  <2>3. ASSUME NEW e \in Hits, Select(e) PROVE SelectionCoherent'
    <3>1. CASE e = selection
      <4>1. UNCHANGED selected
        BY <2>3, <3>1 DEF Select
      <4> QED BY <1>1, <2>1, <4>1
    <3>2. CASE e \in active \cup {None}
      BY <1>0, <2>1, <2>3, <3>2
    <3> QED BY <2>3, <3>1, <3>2 DEF Hits
  <2> QED BY <1>4, <2>2, <2>3 DEF EditorPicking
<1>5. CASE Load
  BY <1>5 DEF Load, SelectionCoherent
<1>6. ASSUME NEW e \in Entity, SelectInHierarchy(e) PROVE SelectionCoherent'
  BY <1>0, <1>6 DEF SelectInHierarchy, scene
<1>7. ASSUME NEW e \in Entity, DeleteInHierarchy(e) PROVE SelectionCoherent'
  BY <1>7 DEF DeleteInHierarchy, SelectionCoherent
<1>8. CASE SpawnInHierarchy
  BY <1>8 DEF SpawnInHierarchy, SelectionCoherent, selected
<1>9. CASE FieldActivated \/ FieldDeactivated \/ FieldTabbedOn \/ FieldTabbedBack
  BY <1>1, <1>9 DEF FieldActivated, FieldDeactivated, FieldTabbedOn, FieldTabbedBack, scene
<1>10. ASSUME NEW v \in Values, FieldEdited(v) PROVE SelectionCoherent'
  BY <1>1, <1>10 DEF FieldEdited
<1>11. ASSUME NEW press \in {"none", "scene", "handle"}, NEW held \in BOOLEAN, NEW v \in Values,
              ViewportRender(press, held, v)
       PROVE  SelectionCoherent'
  BY <1>1, <1>11 DEF ViewportRender
<1> QED BY <1>2, <1>3, <1>4, <1>5, <1>6, <1>7, <1>8, <1>9, <1>10, <1>11 DEF Next

\* The selection, the viewport panel's copy of it and the renderer's are one, and of the
\* scene until another scene is loaded under it, whatever interrupts an edit.
THEOREM SpecSelectionCoherent == Spec => []SelectionCoherent
BY SpecTypeInv, InitCoherent, NextCoherent, PTL DEF Spec

-----------------------------------------------------------------------------
\* From here on nothing interrupts an edit.
SessionInv == TypeInv /\ SelectionCoherent /\ Editing

LEMMA InitEditing == Init => Editing
BY DEF Init, Editing

\* An action that waits for no edit to be in progress begins none.
LEMMA IdleEditing ==
  ASSUME Editing, Idle, UNCHANGED <<gizmo, field, mouse>> PROVE Editing'
BY DEF Editing, Idle

LEMMA PanelIdle ==
  ASSUME Editing, PanelFree, field.kind = "none" PROVE Idle
BY DEF Editing, PanelFree, Idle

\* A click does not take the selection away from an edit in progress.
LEMMA PickingKeeps ==
  ASSUME SessionInv, ~Interrupts, EditorPicking, ~Idle PROVE UNCHANGED selected
<1>1. phase = "events" /\ mouse.click \in {"none", "scene", "handle"}
  BY DEF EditorPicking, SessionInv, TypeInv, TypeOK
<1>2. mouse.click # "scene"
  BY <1>1 DEF SessionInv, Editing, Idle
<1>3. CASE mouse.click = "none"
  BY <1>3 DEF EditorPicking
<1>4. ASSUME mouse.click = "handle" PROVE UNCHANGED selected
  <2>1. PICK hit \in {selection} : Select(hit)
    BY <1>4 DEF EditorPicking, Hits
  <2> QED BY <2>1 DEF Select
<1> QED BY <1>1, <1>2, <1>3, <1>4

LEMMA FieldEditing ==
  ASSUME SessionInv,
         \/ FieldActivated \/ FieldDeactivated \/ FieldTabbedOn \/ FieldTabbedBack
         \/ \E v \in Values : FieldEdited(v)
  PROVE  Editing'
<1>1. /\ phase' = "viewport" /\ selection # None /\ selection \in DOMAIN transforms
      /\ UNCHANGED <<selection, viewport, gizmo, mouse>>
  BY DEF FieldActivated, FieldDeactivated, FieldTabbedOn, FieldTabbedBack, FieldEdited, Inspected, selected
<1>2. ~gizmo.dragging /\ ~gizmo.using /\ ~mouse.held
  <2>1. PanelFree \/ field.kind # "none"
    BY DEF FieldActivated, FieldDeactivated, FieldTabbedOn, FieldTabbedBack, FieldEdited
  <2> QED BY <2>1 DEF SessionInv, Editing, PanelFree
<1>3. CASE FieldActivated \/ FieldTabbedOn \/ FieldTabbedBack
  <2>1. field' = [kind |-> "active", snapshot |-> Snapshot(selection)] /\ transforms' = transforms
    BY <1>3 DEF FieldActivated, FieldTabbedOn, FieldTabbedBack, scene
  <2>2. field'.kind = "active" /\ field'.snapshot.of = selection /\ field'.snapshot.state = transforms[selection]
    BY <2>1 DEF Snapshot
  <2> QED BY <1>1, <1>2, <2>1, <2>2 DEF Editing, Inspected
<1>4. CASE FieldDeactivated
  <2>1. field' = [kind |-> "none", snapshot |-> NoSnapshot]
    BY <1>4 DEF FieldDeactivated
  <2>2. field'.kind = "none"
    BY <2>1
  <2> QED BY <1>1, <1>2, <2>2 DEF Editing
<1>5. CASE \E v \in Values : FieldEdited(v)
  <2>1. PICK v \in Values : FieldEdited(v)
    BY <1>5
  <2>2. field.kind # "none" /\ field' = [field EXCEPT !.kind = "edited"] /\ DOMAIN transforms' = DOMAIN transforms
    BY <2>1 DEF FieldEdited
  <2>3. field'.kind = "edited" /\ field'.snapshot = field.snapshot
    BY <2>2 DEF SessionInv, TypeInv, TypeOK
  <2>4. field.snapshot.of = selection
    BY <2>2 DEF SessionInv, Editing
  <2> QED BY <1>1, <1>2, <2>2, <2>3, <2>4 DEF Editing, Inspected
<1> QED BY <1>3, <1>4, <1>5

LEMMA ViewportEditing ==
  ASSUME SessionInv, NEW press \in {"none", "scene", "handle"}, NEW held \in BOOLEAN, NEW v \in Values,
         ViewportRender(press, held, v)
  PROVE  Editing'
<1>1. /\ mouse' = [held |-> held, click |-> press]
      /\ press \in Presses /\ (press # "none" => held) /\ (held => mouse.held \/ press # "none")
      /\ UNCHANGED <<selection, viewport, field>>
  BY DEF ViewportRender, selected
<1>2. /\ mouse'.held = held /\ mouse'.click = press
      /\ press # "none" => ~mouse.held /\ field.kind = "none"
  BY <1>1 DEF Presses
<1>3. field.kind # "none" => ~held /\ press = "none"
  <2>1. field.kind # "none" => ~mouse.held
    BY DEF SessionInv, Editing
  <2> QED BY <1>1, <1>2, <2>1
<1>4. CASE UNCHANGED <<gizmo, transforms>> /\ ~gizmo.dragging
  BY <1>1, <1>2, <1>3, <1>4 DEF SessionInv, Editing, Inspected
<1>5. CASE ~GizmoShown
  <2>1. UNCHANGED <<gizmo, transforms>> /\ ~gizmo.dragging
    BY <1>5 DEF ViewportRender, SessionInv, Editing
  <2> QED BY <1>4, <2>1
<1>6. CASE GizmoShown /\ (press = "handle" \/ (gizmo.using /\ held))
  <2>1. Dragged(v)
    BY <1>6 DEF ViewportRender
  <2> DEFINE s == IF gizmo.dragging THEN gizmo.snapshot ELSE Snapshot(viewport)
  <2>2. s.of = viewport
    BY DEF SessionInv, Editing, Snapshot
  <2>3. gizmo' = [gizmo EXCEPT !.dragging = TRUE, !.using = TRUE, !.snapshot = s]
    BY <2>1 DEF Dragged
  <2> HIDE DEF s
  <2>4. gizmo'.dragging /\ gizmo'.using /\ gizmo'.snapshot = s
    BY <2>3 DEF SessionInv, TypeInv, TypeOK
  <2>5. held /\ field.kind = "none" /\ press # "scene"
    BY <1>1, <1>2, <1>6 DEF SessionInv, Editing
  <2>6. DOMAIN transforms' = DOMAIN transforms
    BY <2>1 DEF Dragged
  <2>7. GizmoShown'
    BY <1>1, <1>6, <2>6 DEF GizmoShown
  <2> QED BY <1>1, <1>2, <2>2, <2>4, <2>5, <2>7 DEF Editing
<1>7. CASE GizmoShown /\ ~(press = "handle" \/ (gizmo.using /\ held))
  <2>1. Finalized
    BY <1>7 DEF ViewportRender
  <2>2. gizmo' = [dragging |-> FALSE, snapshot |-> NoSnapshot, using |-> FALSE] /\ transforms' = transforms
    BY <2>1 DEF Finalized
  <2>3. ~gizmo'.dragging /\ ~gizmo'.using
    BY <2>2
  <2> QED BY <1>1, <1>2, <1>3, <2>2, <2>3 DEF SessionInv, Editing, Inspected
<1> QED BY <1>5, <1>6, <1>7

LEMMA NextEditing == SessionInv /\ ~Interrupts /\ [Next]_vars => Editing'
<1> SUFFICES ASSUME SessionInv, ~Interrupts, [Next]_vars PROVE Editing'
  OBVIOUS
<1>0. Editing
  BY DEF SessionInv
<1>1. CASE UNCHANGED vars
  BY <1>0, <1>1 DEF vars, scene, selected, Editing, Inspected, GizmoShown
<1>2. CASE KeyUndo
  BY <1>0, <1>2, IdleEditing DEF KeyUndo
<1>3. CASE EditorPicking
  <2>1. UNCHANGED <<gizmo, field, mouse, transforms>> /\ phase' = "menu"
    BY <1>3 DEF EditorPicking, scene
  <2>2. CASE Idle
    BY <1>0, <2>1, <2>2, IdleEditing
  <2>3. CASE ~Idle
    <3>1. UNCHANGED <<selection, viewport>>
      BY <1>3, <2>3, PickingKeeps DEF selected
    <3> QED BY <1>0, <2>1, <3>1 DEF Editing, Inspected, GizmoShown
  <2> QED BY <2>2, <2>3
<1>4. CASE SkipPanels \/ LoadMissing \/ SkipDetails
  BY <1>0, <1>4 DEF SkipPanels, LoadMissing, SkipDetails, scene, selected, Editing, Inspected, GizmoShown
<1>5. CASE \/ Save \/ Load \/ SpawnInHierarchy \/ AddTransform
           \/ \E e \in Entity : SelectInHierarchy(e) \/ DeleteInHierarchy(e)
  <2>1. PanelFree /\ field.kind = "none" /\ UNCHANGED <<gizmo, field, mouse>>
    BY <1>5 DEF Save, Load, SpawnInHierarchy, AddTransform, SelectInHierarchy, DeleteInHierarchy
  <2> QED BY <1>0, <2>1, PanelIdle, IdleEditing
<1>6. CASE \/ FieldActivated \/ FieldDeactivated \/ FieldTabbedOn \/ FieldTabbedBack
           \/ \E v \in Values : FieldEdited(v)
  BY <1>6, FieldEditing
<1>7. ASSUME NEW press \in {"none", "scene", "handle"}, NEW held \in BOOLEAN, NEW v \in Values,
             ViewportRender(press, held, v)
      PROVE  Editing'
  BY <1>7, ViewportEditing
<1> QED BY <1>1, <1>2, <1>3, <1>4, <1>5, <1>6, <1>7 DEF Next

LEMMA SpecSessionInv == ASSUME ~Interrupts PROVE Spec => []SessionInv
<1>1. Init => SessionInv
  BY InitTypes, InitCoherent, InitEditing DEF SessionInv
<1>2. SessionInv /\ [Next]_vars => SessionInv'
  BY NextTypes, NextCoherent, NextEditing DEF SessionInv
<1> QED BY <1>1, <1>2, PTL DEF Spec

-----------------------------------------------------------------------------
LEMMA PushOwn ==
  ASSUME TypeOK, UndoOwnState, NEW e \in Entity, NEW snap \in SnapshotType, snap.of = e,
         history' = Buffer!Pushed(history, CommandFor(e, snap))
  PROVE  UndoOwnState'
<1> DEFINE c == CommandFor(e, snap)
           d == IF Len(history) >= MaxUndoSteps THEN 1 ELSE 0
           g == Buffer!Pushed(history, c)
           h == history'
           n == Len(history)
<1>1. c \in CommandType /\ c.entity = c.of
  BY DEF CommandFor, CommandType, SnapshotType
<1>2. h = g
  OBVIOUS
<1> HIDE DEF c
<1>3. /\ Len(g) = n - d + 1 /\ g[n - d + 1] = c
      /\ \A i \in 1 .. n - d : g[i] = history[i + d]
      /\ n >= d /\ n \in Nat
  BY <1>1, PushedHistory
<1> HIDE DEF g
<1>4. /\ Len(h) = n - d + 1 /\ h[n - d + 1] = c
      /\ \A i \in 1 .. n - d : h[i] = history[i + d]
      /\ n >= d /\ n \in Nat
  BY <1>2, <1>3
<1>d. d \in {0, 1}
  OBVIOUS
<1> HIDE DEF d, h, n
<1>5. ASSUME NEW i \in 1 .. Len(h) PROVE h[i].entity = h[i].of
  <2>1. i = n - d + 1 \/ (i \in 1 .. n - d /\ i + d \in 1 .. n)
    BY <1>4, <1>d
  <2>2. ASSUME i \in 1 .. n - d, i + d \in 1 .. n PROVE h[i].entity = h[i].of
    BY <1>4, <2>2 DEF UndoOwnState, n
  <2> QED BY <1>1, <1>4, <2>1, <2>2
<1> QED BY <1>5 DEF UndoOwnState, h

LEMMA NextOwn == SessionInv /\ UndoOwnState /\ [Next]_vars => UndoOwnState'
<1> SUFFICES ASSUME SessionInv, UndoOwnState, [Next]_vars PROVE UndoOwnState'
  OBVIOUS
<1>0. TypeOK /\ Snapshots /\ Editing
  BY DEF SessionInv, TypeInv
<1>1. CASE UNCHANGED history
  BY <1>1 DEF UndoOwnState
<1>2. CASE KeyUndo
  <2>1. history # <<>> /\ history' = SubSeq(history, 1, Len(history) - 1) /\ history \in Seq(CommandType)
    BY <1>0, <1>2 DEF KeyUndo, TypeOK
  <2>2. /\ Len(history') = Len(history) - 1 /\ Len(history) \in Nat \ {0}
        /\ \A i \in 1 .. Len(history) - 1 : history'[i] = history[i]
    BY <2>1, PoppedIs
  <2> QED BY <2>2 DEF UndoOwnState
<1>3. CASE FieldDeactivated \/ FieldTabbedOn \/ FieldTabbedBack
  <2>1. selection \in DOMAIN transforms /\ field.kind # "none"
    BY <1>3 DEF FieldDeactivated, FieldTabbedOn, FieldTabbedBack, Inspected
  <2>2. /\ Snapshot(selection) \in SnapshotType /\ Snapshot(selection).of = selection /\ selection \in Entity
    BY <1>0, <2>1, SnapshotIs
  <2>3. field.snapshot \in SnapshotType /\ field.snapshot.of = selection
    BY <1>0, <2>1 DEF TypeOK, Editing
  <2>4. \/ UNCHANGED history
        \/ \E snap \in {field.snapshot, Snapshot(selection)} :
             history' = Buffer!Pushed(history, CommandFor(selection, snap))
    BY <1>3 DEF FieldDeactivated, FieldTabbedOn, FieldTabbedBack, PushUndo
  <2> QED BY <1>0, <1>1, <2>2, <2>3, <2>4, PushOwn
<1>4. ASSUME NEW press \in {"none", "scene", "handle"}, NEW held \in BOOLEAN, NEW v \in Values,
             ViewportRender(press, held, v)
      PROVE  UndoOwnState'
  <2>1. \/ UNCHANGED history
        \/ GizmoShown /\ gizmo.dragging /\ PushUndo(CommandFor(viewport, gizmo.snapshot))
    BY <1>4 DEF ViewportRender, Dragged, Finalized
  <2>2. ASSUME GizmoShown, gizmo.dragging, PushUndo(CommandFor(viewport, gizmo.snapshot))
        PROVE  UndoOwnState'
    <3>1. /\ gizmo.snapshot \in SnapshotType /\ gizmo.snapshot.of = viewport /\ viewport \in Entity
          /\ history' = Buffer!Pushed(history, CommandFor(viewport, gizmo.snapshot))
      BY <1>0, <2>2 DEF GizmoShown, TypeOK, Editing, PushUndo
    <3> QED BY <1>0, <3>1, PushOwn
  <2> QED BY <1>1, <2>1, <2>2
<1>5. CASE \/ EditorPicking \/ Save \/ Load \/ SpawnInHierarchy \/ SkipPanels \/ LoadMissing \/ FieldActivated
           \/ AddTransform \/ SkipDetails \/ UNCHANGED vars
           \/ \E e \in Entity : SelectInHierarchy(e) \/ DeleteInHierarchy(e)
           \/ \E v \in Values : FieldEdited(v)
  <2>1. UNCHANGED history
    BY <1>5 DEF EditorPicking, Save, Load, SpawnInHierarchy, SkipPanels, LoadMissing, FieldActivated, AddTransform,
         SkipDetails, vars, SelectInHierarchy, DeleteInHierarchy, FieldEdited
  <2> QED BY <1>1, <2>1
<1> QED BY <1>2, <1>3, <1>4, <1>5 DEF Next

\* When nothing interrupts an edit, every command restores to its entity a state of that
\* entity: the events of finalizeGizmoInteraction and of the inspector name the entity
\* whose transform they saved, whatever was picked, deleted or loaded meanwhile.
THEOREM SpecUndoOwnState == ASSUME ~Interrupts PROVE Spec => []UndoOwnState
<1>1. Init => UndoOwnState
  BY DEF Init, UndoOwnState
<1>2. UndoOwnState /\ SessionInv /\ [Next]_vars => UndoOwnState'
  BY NextOwn
<1> QED BY <1>1, <1>2, SpecSessionInv, PTL DEF Spec

-----------------------------------------------------------------------------
LEMMA IdleBefore == ASSUME Idle, NEW e PROVE Before(e) = transforms[e]
BY DEF Idle, Before

\* The oldest command of e, when there is one.
LEMMA OldestExists ==
  ASSUME NEW M, M \subseteq Nat, M # {} PROVE \E i \in M : \A j \in M : i <= j
<1> SUFFICES ASSUME \A i \in M : \E j \in M : ~(i <= j) PROVE FALSE
  OBVIOUS
<1> DEFINE N == {n \in Nat : \A m \in 0 .. n : m \notin M}
<1>1. 0 \in N
  BY DEF N
<1>2. ASSUME NEW n \in N PROVE n + 1 \in N
  <2>1. n \in Nat /\ \A m \in 0 .. n : m \notin M
    OBVIOUS
  <2>2. n + 1 \notin M
    <3>1. ASSUME n + 1 \in M PROVE FALSE
      <4>1. PICK j \in M : ~(n + 1 <= j)
        BY <3>1
      <4>2. j \in 0 .. n
        BY <2>1, <4>1
      <4> QED BY <2>1, <4>2
    <3> QED BY <3>1
  <2>3. \A m \in 0 .. n + 1 : m \in 0 .. n \/ m = n + 1
    BY <2>1
  <2> QED BY <2>1, <2>2, <2>3
<1> HIDE DEF N
<1>3. N \subseteq Nat
  BY DEF N
<1>4. N = Nat
  BY <1>1, <1>2, <1>3, NatSetInduction
<1>5. PICK m \in M : TRUE
  OBVIOUS
<1>6. m \in Nat /\ m \in 0 .. m /\ m \in N
  BY <1>4
<1> QED BY <1>5, <1>6 DEF N

LEMMA CoveredEdits == TypeInv /\ Covered => EditsCovered
<1> SUFFICES ASSUME TypeInv, Covered, Idle, NEW e \in DOMAIN first
             PROVE  e \in DOMAIN transforms /\ Undone(e) = first[e]
  BY DEF EditsCovered
<1> DEFINE mine == {i \in 1 .. Len(history) : history[i].entity = e}
<1>0. Len(history) \in Nat
  BY DEF TypeInv, TypeOK
<1>1. /\ e \in DOMAIN transforms /\ OldestRestores(history, e, first[e])
      /\ ~Mentions(history, e) => transforms[e] = first[e]
  BY IdleBefore DEF Covered
<1>2. CASE mine = {}
  <2>1. ~Mentions(history, e)
    BY <1>2 DEF Mentions
  <2>2. Undone(e) = transforms[e]
    BY <1>2 DEF Undone
  <2> QED BY <1>1, <2>1, <2>2
<1>3. CASE mine # {}
  <2> DEFINE k == CHOOSE i \in mine : \A j \in mine : i <= j
  <2>1. mine \subseteq Nat
    BY <1>0
  <2>2. \E i \in mine : \A j \in mine : i <= j
    BY <1>3, <2>1, OldestExists
  <2>3. k \in mine /\ \A j \in mine : k <= j
    BY <2>2
  <2>4. Undone(e) = history[k].old
    BY <1>3 DEF Undone
  <2> HIDE DEF k
  <2>5. k \in 1 .. Len(history) /\ history[k].entity = e
    BY <2>3
  <2>6. \A j \in 1 .. k - 1 : history[j].entity # e
    <3> SUFFICES ASSUME NEW j \in 1 .. k - 1, history[j].entity = e PROVE FALSE
      OBVIOUS
    <3>1. j \in 1 .. Len(history) /\ ~(k <= j)
      BY <1>0, <2>5
    <3>2. j \in mine
      BY <3>1
    <3> QED BY <2>3, <3>1, <3>2
  <2> QED BY <1>1, <2>4, <2>5, <2>6 DEF OldestRestores
<1> QED BY <1>2, <1>3

\* A push of e's state before the edit keeps the history complete; one of another state
\* does so for the entities other than e.
LEMMA PushCovers ==
  ASSUME TypeOK, Covered, NEW c \in CommandType, NEW D,
         c.entity \in D \/ c.old = Before(c.entity),
         history' = Buffer!Pushed(history, c), first' = Without(first, D \cup Evicted),
         DOMAIN transforms' = DOMAIN transforms,
         \A e \in DOMAIN first : e # c.entity => Before(e)' = Before(e)
  PROVE  Covered'
<1> DEFINE d == IF Len(history) >= MaxUndoSteps THEN 1 ELSE 0
           g == Buffer!Pushed(history, c)
           n == Len(history)
<1>1. history \in Seq(CommandType) /\ n <= MaxUndoSteps /\ MaxUndoSteps \in Nat \ {0}
  BY EditorAssumption DEF TypeOK
<1>g. /\ Len(g) = n - d + 1 /\ g[n - d + 1] = c
      /\ \A i \in 1 .. n - d : g[i] = history[i + d]
      /\ n >= d /\ n \in Nat
  BY PushedHistory
<1>2. Evicted = IF d = 1 THEN {history[1].entity} ELSE {}
  BY <1>1, <1>g DEF Evicted
<1>3. ASSUME NEW e \in DOMAIN first' 
      PROVE  /\ e \in DOMAIN first /\ first'[e] = first[e] /\ e \notin D
             /\ d = 1 => history[1].entity # e
  <2>1. e \in DOMAIN first \ (D \cup Evicted) /\ first'[e] = first[e]
    BY <1>3 DEF Without
  <2> QED BY <1>2, <2>1
<1>d. d \in {0, 1}
  OBVIOUS
<1>h. history' = g
  OBVIOUS
<1> HIDE DEF d, g, n
<1>4. ASSUME NEW e \in DOMAIN first'
      PROVE  /\ e \in DOMAIN transforms'
             /\ OldestRestores(g, e, first'[e])
             /\ ~Mentions(g, e) => Before(e)' = first'[e]
  <2>1. /\ e \in DOMAIN first /\ first'[e] = first[e] /\ e \notin D
        /\ d = 1 => history[1].entity # e
    BY <1>3, <1>4
  <2>2. /\ e \in DOMAIN transforms /\ OldestRestores(history, e, first[e])
        /\ ~Mentions(history, e) => Before(e) = first[e]
    BY <2>1 DEF Covered
  <2>3. \A i \in 1 .. n : history[i].entity = e => i - d \in 1 .. n - d /\ g[i - d].entity = e
    <3> SUFFICES ASSUME NEW i \in 1 .. n, history[i].entity = e
                 PROVE  i - d \in 1 .. n - d /\ g[i - d].entity = e
      OBVIOUS
    <3>1. ~(i = 1 /\ d = 1)
      BY <2>1
    <3>2. i - d \in 1 .. n - d /\ (i - d) + d = i
      BY <1>d, <1>g, <3>1
    <3> QED BY <1>g, <3>2
  <2>4. ASSUME ~Mentions(g, e) PROVE Before(e)' = first'[e]
    <3>1. c.entity # e
      <4>1. n - d + 1 \in 1 .. Len(g)
        BY <1>d, <1>g
      <4> QED BY <1>g, <2>4, <4>1 DEF Mentions
    <3>2. ~Mentions(history, e)
      <4> SUFFICES ASSUME NEW i \in 1 .. n, history[i].entity = e PROVE FALSE
        BY DEF Mentions, n
      <4>1. i - d \in 1 .. n - d /\ g[i - d].entity = e
        BY <2>3
      <4>2. i - d \in 1 .. Len(g)
        BY <1>d, <1>g, <4>1
      <4> QED BY <2>4, <4>1, <4>2 DEF Mentions
    <3> QED BY <2>1, <2>2, <3>1, <3>2
  <2>5. ASSUME NEW i \in 1 .. Len(g), g[i].entity = e, \A j \in 1 .. i - 1 : g[j].entity # e
        PROVE  g[i].old = first'[e]
    <3>0. i \in 1 .. n - d \/ i = n - d + 1
      BY <1>d, <1>g
    <3>1. CASE i \in 1 .. n - d
      <4>1. i + d \in 1 .. n /\ history[i + d] = g[i]
        BY <1>d, <1>g, <3>1
      <4>2. ASSUME NEW j \in 1 .. (i + d) - 1, history[j].entity = e PROVE FALSE
        <5>1. j \in 1 .. n
          BY <1>d, <1>g, <3>1
        <5>2. j - d \in 1 .. n - d /\ g[j - d].entity = e
          BY <2>3, <4>2, <5>1
        <5>3. j - d \in 1 .. i - 1
          BY <1>d, <1>g, <3>1, <5>2
        <5> QED BY <2>5, <5>2, <5>3
      <4>3. history[i + d].old = first[e]
        BY <2>2, <2>5, <4>1, <4>2 DEF OldestRestores, n
      <4> QED BY <2>1, <4>1, <4>3
    <3>2. CASE i = n - d + 1
      <4>1. g[i] = c /\ c.entity = e
        BY <1>g, <2>5, <3>2
      <4>2. ~Mentions(history, e)
        <5> SUFFICES ASSUME NEW j \in 1 .. n, history[j].entity = e PROVE FALSE
          BY DEF Mentions, n
        <5>1. j - d \in 1 .. n - d /\ g[j - d].entity = e
          BY <2>3
        <5>2. j - d \in 1 .. i - 1
          BY <1>d, <1>g, <3>2, <5>1
        <5> QED BY <2>5, <5>1, <5>2
      <4>3. c.old = Before(e)
        BY <2>1, <4>1
      <4> QED BY <2>1, <2>2, <4>1, <4>2, <4>3
    <3> QED BY <3>0, <3>1, <3>2
  <2>6. OldestRestores(g, e, first'[e])
    BY <2>5 DEF OldestRestores
  <2> QED BY <2>2, <2>4, <2>6
<1> QED BY <1>4, <1>h DEF Covered

\* A step that pushes nothing and leaves what each entity would be undone to.
LEMMA KeepCovers ==
  ASSUME Covered, UNCHANGED <<history, first>>, DOMAIN first \subseteq DOMAIN transforms',
         \A e \in DOMAIN first : ~Mentions(history, e) => Before(e)' = Before(e)
  PROVE  Covered'
BY DEF Covered

\* A step with no edit in progress before or after it.
LEMMA IdleCovers ==
  ASSUME Covered, Idle, UNCHANGED <<history, first, gizmo, field, transforms>> PROVE Covered'
<1>1. Idle'
  BY DEF Idle
<1>2. \A e \in DOMAIN first : Before(e)' = Before(e) /\ e \in DOMAIN transforms
  BY <1>1 DEF Idle, Before, Covered
<1> QED BY <1>2, KeepCovers

LEMMA UndoCovers == ASSUME TypeInv, Covered, KeyUndo, ~Interrupts PROVE Covered'
<1> DEFINE n == Len(history)
           c == history[n]
           h == history'
<1>1. /\ Idle /\ history # <<>> /\ h = SubSeq(history, 1, n - 1)
      /\ \/ c.entity \in DOMAIN transforms /\ transforms' = [transforms EXCEPT ![c.entity] = c.old]
         \/ c.entity \notin DOMAIN transforms /\ transforms' = transforms
      /\ UNCHANGED <<gizmo, field, first>>
  BY DEF KeyUndo
<1>2. history \in Seq(CommandType)
  BY DEF TypeInv, TypeOK
<1>3. Len(h) = n - 1 /\ n \in Nat \ {0} /\ \A i \in 1 .. n - 1 : h[i] = history[i]
  BY <1>1, <1>2, PoppedIs
<1>4. Idle'
  BY <1>1 DEF Idle
<1> HIDE DEF n, h
<1>5. ASSUME NEW e \in DOMAIN first
      PROVE  /\ e \in DOMAIN transforms'
             /\ OldestRestores(h, e, first[e])
             /\ ~Mentions(h, e) => Before(e)' = first[e]
  <2>1. /\ e \in DOMAIN transforms /\ OldestRestores(history, e, first[e])
        /\ ~Mentions(history, e) => transforms[e] = first[e]
    BY <1>1, IdleBefore DEF Covered
  <2>2. e \in DOMAIN transforms'
    BY <1>1, <2>1
  <2>3. OldestRestores(h, e, first[e])
    <3> SUFFICES ASSUME NEW i \in 1 .. Len(h), h[i].entity = e, \A j \in 1 .. i - 1 : h[j].entity # e
                 PROVE  h[i].old = first[e]
      BY DEF OldestRestores
    <3>1. i \in 1 .. n /\ h[i] = history[i]
      BY <1>3
    <3>2. \A j \in 1 .. i - 1 : history[j] = h[j]
      BY <1>3
    <3> QED BY <2>1, <3>1, <3>2 DEF OldestRestores, n
  <2>4. ASSUME ~Mentions(h, e) PROVE transforms'[e] = first[e]
    <3>1. \A i \in 1 .. n - 1 : history[i].entity # e
      BY <1>3, <2>4 DEF Mentions
    <3>2. CASE c.entity = e
      <4>1. c.old = first[e]
        <5>1. n \in 1 .. n
          BY <1>3
        <5> QED BY <2>1, <3>1, <3>2, <5>1 DEF OldestRestores, n
      <4> QED BY <1>1, <2>1, <3>2, <4>1
    <3>3. CASE c.entity # e
      <4>1. \A i \in 1 .. n : i \in 1 .. n - 1 \/ i = n
        BY <1>3
      <4>2. ~Mentions(history, e)
        BY <3>1, <3>3, <4>1 DEF Mentions, n
      <4> QED BY <1>1, <2>1, <3>3, <4>2
    <3> QED BY <3>2, <3>3
  <2>5. Before(e)' = transforms'[e]
    BY <1>4 DEF Idle, Before
  <2> QED BY <2>2, <2>3, <2>4, <2>5
<1> QED BY <1>1, <1>5 DEF Covered, h

LEMMA PanelCovers ==
  ASSUME SessionInv, Covered,
         \/ Save \/ Load \/ SpawnInHierarchy \/ AddTransform
         \/ \E e \in Entity : SelectInHierarchy(e) \/ DeleteInHierarchy(e)
  PROVE  Covered'
<1>0. Idle /\ TypeOK /\ UNCHANGED <<gizmo, field, history>>
  BY PanelIdle DEF SessionInv, TypeInv, Save, Load, SpawnInHierarchy, AddTransform, SelectInHierarchy, DeleteInHierarchy
<1>1. Idle'
  BY <1>0 DEF Idle
<1>2. \A e : Before(e) = transforms[e] /\ Before(e)' = transforms'[e]
  BY <1>0, <1>1 DEF Idle, Before
<1>3. CASE Save \/ \E e \in Entity : SelectInHierarchy(e)
  BY <1>0, <1>3, IdleCovers DEF Save, SelectInHierarchy, scene
<1>4. CASE Load
  BY <1>4 DEF Load, Covered
<1>5. CASE SpawnInHierarchy
  <2>1. /\ transforms' = Extended(transforms, nextID, Default)
        /\ nextID \in Entity
        /\ IF Mentions(history, nextID) THEN first' = first ELSE first' = Extended(first, nextID, Default)
    BY <1>0, <1>5 DEF SpawnInHierarchy, TypeOK, Entity, Mentions
  <2>2. /\ DOMAIN transforms' = DOMAIN transforms \cup {nextID} /\ transforms'[nextID] = Default
        /\ \A x \in DOMAIN transforms : x # nextID => transforms'[x] = transforms[x]
    BY <2>1 DEF Extended
  <2>3. CASE Mentions(history, nextID)
    <3>1. DOMAIN first \subseteq DOMAIN transforms
      BY DEF Covered
    <3>2. ASSUME NEW e \in DOMAIN first, ~Mentions(history, e) PROVE Before(e)' = Before(e)
      <4>1. e # nextID
        BY <2>3, <3>2
      <4> QED BY <1>2, <2>2, <3>1, <4>1
    <3> QED BY <1>0, <2>1, <2>2, <2>3, <3>1, <3>2, KeepCovers
  <2>4. CASE ~Mentions(history, nextID)
    <3>1. /\ DOMAIN first' = DOMAIN first \cup {nextID} /\ first'[nextID] = Default
          /\ \A x \in DOMAIN first : x # nextID => first'[x] = first[x]
      BY <2>1, <2>4 DEF Extended
    <3>2. ASSUME NEW e \in DOMAIN first', e # nextID
          PROVE  /\ e \in DOMAIN transforms' /\ OldestRestores(history, e, first'[e])
                 /\ ~Mentions(history, e) => Before(e)' = first'[e]
      <4>1. e \in DOMAIN first /\ first'[e] = first[e]
        BY <3>1, <3>2
      <4>2. /\ e \in DOMAIN transforms /\ OldestRestores(history, e, first[e])
            /\ ~Mentions(history, e) => Before(e) = first[e]
        BY <4>1 DEF Covered
      <4> QED BY <1>2, <2>2, <3>2, <4>1, <4>2
    <3>4. ASSUME NEW e \in DOMAIN first'
          PROVE  /\ e \in DOMAIN transforms' /\ OldestRestores(history, e, first'[e])
                 /\ ~Mentions(history, e) => Before(e)' = first'[e]
      <4>1. CASE e = nextID
        <5>1. Before(e)' = transforms'[e]
          BY <1>1 DEF Idle, Before
        <5>2. OldestRestores(history, e, first'[e])
          BY <2>4, <4>1 DEF Mentions, OldestRestores
        <5> QED BY <2>2, <3>1, <4>1, <5>1, <5>2
      <4> QED BY <3>2, <4>1
    <3> QED BY <1>0, <3>4 DEF Covered
  <2> QED BY <2>3, <2>4
<1>6. CASE AddTransform
  <2>1. /\ transforms' = Extended(transforms, selection, Default) /\ selection \notin DOMAIN transforms
        /\ selection \in Entity /\ UNCHANGED <<history, first>>
    BY <1>0, <1>6 DEF AddTransform, TypeOK
  <2>2. /\ DOMAIN transforms' = DOMAIN transforms \cup {selection}
        /\ \A x \in DOMAIN transforms : x # selection => transforms'[x] = transforms[x]
    BY <2>1 DEF Extended
  <2>3. ASSUME NEW e \in DOMAIN first PROVE e \in DOMAIN transforms' /\ Before(e)' = Before(e)
    <3>1. e \in DOMAIN transforms /\ e # selection
      BY <2>1 DEF Covered
    <3> QED BY <1>2, <2>2, <3>1
  <2> QED BY <2>1, <2>3, KeepCovers
<1>7. ASSUME NEW e \in Entity, DeleteInHierarchy(e) PROVE Covered'
  <2>1. /\ transforms' = Without(transforms, {e}) /\ first' = Without(first, {e})
    BY <1>7 DEF DeleteInHierarchy
  <2>2. /\ DOMAIN transforms' = DOMAIN transforms \ {e} /\ DOMAIN first' = DOMAIN first \ {e}
        /\ \A x \in DOMAIN transforms' : transforms'[x] = transforms[x]
        /\ \A x \in DOMAIN first' : first'[x] = first[x]
    BY <2>1 DEF Without
  <2>3. ASSUME NEW x \in DOMAIN first'
        PROVE  /\ x \in DOMAIN transforms' /\ OldestRestores(history, x, first'[x])
               /\ ~Mentions(history, x) => Before(x)' = first'[x]
    <3>1. x \in DOMAIN first /\ x # e /\ first'[x] = first[x]
      BY <2>2
    <3>2. /\ x \in DOMAIN transforms /\ OldestRestores(history, x, first[x])
          /\ ~Mentions(history, x) => Before(x) = first[x]
      BY <3>1 DEF Covered
    <3>3. Before(x) = transforms[x] /\ Before(x)' = transforms'[x]
      BY <1>0, <1>1 DEF Idle, Before
    <3> QED BY <2>2, <3>1, <3>2, <3>3
  <2> QED BY <1>0, <2>3 DEF Covered
<1> QED BY <1>3, <1>4, <1>5, <1>6, <1>7

LEMMA PickingCovers == ASSUME SessionInv, Covered, ~Interrupts, EditorPicking PROVE Covered'
<1>1. UNCHANGED <<transforms, history, gizmo, field, first>>
  BY DEF EditorPicking, scene
<1>2. CASE Idle
  BY <1>1, <1>2, IdleCovers
<1>3. CASE ~Idle
  <2>1. UNCHANGED <<selection, viewport>>
    BY <1>3, PickingKeeps DEF selected
  <2>2. \A e \in DOMAIN first : Before(e)' = Before(e) /\ e \in DOMAIN transforms'
    BY <1>1, <2>1 DEF Before, Covered
  <2> QED BY <1>1, <2>2, KeepCovers
<1> QED BY <1>2, <1>3

LEMMA FieldCovers ==
  ASSUME SessionInv, Covered,
         \/ FieldActivated \/ FieldDeactivated \/ FieldTabbedOn \/ FieldTabbedBack
         \/ \E v \in Values : FieldEdited(v)
  PROVE  Covered'
<1>0. TypeOK /\ Snapshots /\ Editing
  BY DEF SessionInv, TypeInv
<1>1. selection \in DOMAIN transforms /\ UNCHANGED <<selection, viewport, gizmo>>
  BY DEF FieldActivated, FieldDeactivated, FieldTabbedOn, FieldTabbedBack, FieldEdited, Inspected, selected
<1>2. ~gizmo.dragging /\ ~gizmo'.dragging
  <2>1. PanelFree \/ field.kind # "none"
    BY DEF FieldActivated, FieldDeactivated, FieldTabbedOn, FieldTabbedBack, FieldEdited
  <2> QED BY <1>0, <1>1, <2>1 DEF Editing, PanelFree
<1>3. DOMAIN transforms' = DOMAIN transforms /\ \A e \in DOMAIN transforms : e # selection => transforms'[e] = transforms[e]
  <2>1. transforms' = transforms \/ \E v \in Values : transforms' = [transforms EXCEPT ![selection] = v]
    BY DEF FieldActivated, FieldDeactivated, FieldTabbedOn, FieldTabbedBack, FieldEdited, scene
  <2> QED BY <1>0, <2>1 DEF TypeOK
<1>4. \A e \in DOMAIN first : e # selection => Before(e)' = Before(e)
  BY <1>1, <1>2, <1>3 DEF Before, Covered
<1>5. \A e \in DOMAIN first : e \in DOMAIN transforms'
  BY <1>3 DEF Covered
<1>6. /\ Snapshot(selection) \in SnapshotType /\ Snapshot(selection).state = transforms[selection]
      /\ selection \in Entity
  BY <1>0, <1>1, SnapshotIs
<1>7. field.kind # "none" => field.snapshot.state = Before(selection)
  BY <1>2 DEF Before
<1>8. CASE UNCHANGED <<history, first>> /\ field.kind # "edited"
  <2>1. CASE field.kind = "none"
    <3>1. FieldActivated
      BY <1>8, <2>1 DEF FieldDeactivated, FieldTabbedOn, FieldTabbedBack, FieldEdited
    <3>2. field' = [kind |-> "active", snapshot |-> Snapshot(selection)] /\ UNCHANGED transforms
      BY <3>1 DEF FieldActivated, scene
    <3>3. field'.kind = "active" /\ field'.snapshot.state = transforms[selection]
      BY <1>6, <3>2
    <3>4. \A e : Before(e)' = Before(e)
      BY <1>1, <1>2, <2>1, <3>2, <3>3 DEF Before
    <3> QED BY <1>5, <1>8, <3>4, KeepCovers
  <2>2. CASE field.kind # "none"
    <3>1. field.kind = "active" /\ field.snapshot.state = transforms[selection]
      BY <1>0, <1>8, <2>2 DEF TypeOK, Editing
    <3>2. CASE \E v \in Values : FieldEdited(v)
      <4>1. field' = [field EXCEPT !.kind = "edited"]
        BY <3>2 DEF FieldEdited
      <4>2. field'.kind = "edited" /\ field'.snapshot = field.snapshot
        BY <1>0, <4>1 DEF TypeOK
      <4>3. \A e \in DOMAIN first : Before(e)' = Before(e)
        BY <1>1, <1>2, <1>3, <2>2, <4>2 DEF Before, Covered
      <4> QED BY <1>5, <1>8, <4>3, KeepCovers
    <3>3. CASE FieldDeactivated \/ FieldTabbedOn \/ FieldTabbedBack
      <4>1. UNCHANGED transforms /\ field' \in {[kind |-> "none", snapshot |-> NoSnapshot],
                                                [kind |-> "active", snapshot |-> Snapshot(selection)]}
        BY <3>3 DEF FieldDeactivated, FieldTabbedOn, FieldTabbedBack, scene
      <4>2. field'.kind = "none" \/ (field'.kind = "active" /\ field'.snapshot.state = transforms[selection])
        BY <1>6, <4>1
      <4>3. \A e : Before(e)' = Before(e)
        BY <1>1, <1>2, <2>2, <3>1, <4>1, <4>2 DEF Before
      <4> QED BY <1>5, <1>8, <4>3, KeepCovers
    <3> QED BY <2>2, <3>2, <3>3 DEF FieldActivated
  <2> QED BY <2>1, <2>2
<1>9. CASE field.kind = "edited" /\ \E v \in Values : FieldEdited(v)
  <2>1. field' = [field EXCEPT !.kind = "edited"] /\ UNCHANGED <<history, first>>
    BY <1>9 DEF FieldEdited
  <2>2. field'.kind = "edited" /\ field'.snapshot = field.snapshot
    BY <1>0, <2>1 DEF TypeOK
  <2>3. \A e \in DOMAIN first : Before(e)' = Before(e)
    BY <1>1, <1>2, <1>3, <1>9, <2>2 DEF Before, Covered
  <2> QED BY <1>5, <2>1, <2>3, KeepCovers
<1>10. CASE field.kind = "edited" /\ (FieldDeactivated \/ FieldTabbedOn)
  <2> DEFINE c == CommandFor(selection, field.snapshot)
  <2>1. history' = Buffer!Pushed(history, c) /\ first' = Without(first, {} \cup Evicted)
    BY <1>10 DEF FieldDeactivated, FieldTabbedOn, PushUndo
  <2>2. field.snapshot \in SnapshotType /\ field.snapshot.of \in Entity
    BY <1>0, <1>10 DEF TypeOK, Snapshots
  <2>3. c \in CommandType /\ c.entity = selection /\ c.old = Before(selection)
    BY <1>6, <1>7, <1>10, <2>2 DEF CommandFor, CommandType, SnapshotType
  <2> HIDE DEF c
  <2>4. c.old = Before(c.entity)
    BY <2>3
  <2>5. \A e \in DOMAIN first : e # c.entity => Before(e)' = Before(e)
    BY <1>4, <2>3
  <2> QED BY <1>0, <1>3, <2>1, <2>3, <2>4, <2>5, PushCovers
<1>11. CASE field.kind = "edited" /\ FieldTabbedBack
  <2> DEFINE c == CommandFor(selection, Snapshot(selection))
  <2>1. history' = Buffer!Pushed(history, c) /\ first' = Without(first, {selection} \cup Evicted)
    <3>1. field' = [kind |-> "active", snapshot |-> Snapshot(selection)]
      BY <1>11 DEF FieldTabbedBack
    <3>2. field'.snapshot = Snapshot(selection)
      BY <3>1
    <3> QED BY <1>11, <3>2 DEF FieldTabbedBack
  <2>2. c \in CommandType /\ c.entity = selection
    BY <1>0, <1>1, <1>6, SnapshotIs DEF CommandFor, CommandType, SnapshotType
  <2> HIDE DEF c
  <2>3. c.entity \in {selection}
    BY <2>2
  <2>4. \A e \in DOMAIN first : e # c.entity => Before(e)' = Before(e)
    BY <1>4, <2>2
  <2> QED BY <1>0, <1>3, <2>1, <2>2, <2>3, <2>4, PushCovers
<1>12. field.kind # "edited" => UNCHANGED <<history, first>>
  BY DEF FieldActivated, FieldDeactivated, FieldTabbedOn, FieldTabbedBack, FieldEdited
<1>13. ~(field.kind = "edited" /\ FieldActivated)
  BY DEF FieldActivated
<1> QED BY <1>8, <1>9, <1>10, <1>11, <1>12, <1>13

LEMMA ViewportCovers ==
  ASSUME SessionInv, Covered, NEW press \in {"none", "scene", "handle"}, NEW held \in BOOLEAN, NEW v \in Values,
         ViewportRender(press, held, v)
  PROVE  Covered'
<1>0. TypeOK /\ Snapshots /\ Editing
  BY DEF SessionInv, TypeInv
<1>1. /\ press \in Presses /\ (press # "none" => held) /\ (held => mouse.held \/ press # "none")
      /\ UNCHANGED <<selection, viewport, field>>
  BY DEF ViewportRender, selected
<1>2. CASE UNCHANGED <<gizmo, transforms, history, first>>
  <2>1. \A e \in DOMAIN first : Before(e)' = Before(e) /\ e \in DOMAIN transforms'
    BY <1>1, <1>2 DEF Before, Covered
  <2> QED BY <1>2, <2>1, KeepCovers
<1>3. CASE GizmoShown /\ Dragged(v) /\ (press = "handle" \/ (gizmo.using /\ held))
  <2>1. field.kind = "none"
    BY <1>0, <1>1, <1>3 DEF Presses, Editing
  <2> DEFINE s == IF gizmo.dragging THEN gizmo.snapshot ELSE Snapshot(viewport)
  <2>2. /\ gizmo' = [gizmo EXCEPT !.dragging = TRUE, !.using = TRUE, !.snapshot = s]
        /\ transforms' = [transforms EXCEPT ![viewport] = v] /\ UNCHANGED <<history, first>>
    BY <1>3 DEF Dragged
  <2>3. s.state = Before(viewport)
    BY <2>1 DEF Before, Snapshot
  <2> HIDE DEF s
  <2>4. gizmo'.dragging /\ gizmo'.snapshot = s
    BY <1>0, <2>2 DEF TypeOK
  <2>5. DOMAIN transforms' = DOMAIN transforms /\ \A e \in DOMAIN transforms : e # viewport => transforms'[e] = transforms[e]
    BY <1>0, <2>2 DEF TypeOK
  <2>6. \A e \in DOMAIN first : Before(e)' = Before(e)
    <3>1. ASSUME NEW e, e = viewport PROVE Before(e)' = Before(e)
      BY <1>1, <2>3, <2>4, <3>1 DEF Before
    <3>2. ASSUME NEW e \in DOMAIN first, e # viewport PROVE Before(e)' = Before(e)
      BY <1>1, <2>1, <2>5, <3>2 DEF Before, Covered
    <3> QED BY <3>1, <3>2
  <2>7. DOMAIN first \subseteq DOMAIN transforms'
    BY <2>5 DEF Covered
  <2> QED BY <2>2, <2>6, <2>7, KeepCovers
<1>4. CASE GizmoShown /\ Finalized
  <2>1. /\ gizmo' = [dragging |-> FALSE, snapshot |-> NoSnapshot, using |-> FALSE] /\ transforms' = transforms
        /\ IF gizmo.dragging /\ transforms[viewport] # gizmo.snapshot.state
           THEN PushUndo(CommandFor(viewport, gizmo.snapshot))
           ELSE UNCHANGED <<history, first>>
    BY <1>4 DEF Finalized
  <2>2. ~gizmo'.dragging
    BY <2>1
  <2>3. \A e : e # viewport => Before(e)' = Before(e)
    BY <1>1, <2>1, <2>2 DEF Before
  <2>4. \A e \in DOMAIN first : e \in DOMAIN transforms'
    BY <2>1 DEF Covered
  <2>5. CASE gizmo.dragging /\ transforms[viewport] # gizmo.snapshot.state
    <3> DEFINE c == CommandFor(viewport, gizmo.snapshot)
    <3>1. history' = Buffer!Pushed(history, c) /\ first' = Without(first, {} \cup Evicted)
      BY <2>1, <2>5 DEF PushUndo
    <3>2. gizmo.snapshot \in SnapshotType /\ gizmo.snapshot.of \in Entity /\ viewport \in Entity
      BY <1>0, <1>4, <2>5 DEF TypeOK, Snapshots, GizmoShown
    <3>3. c \in CommandType /\ c.entity = viewport /\ c.old = Before(viewport)
      BY <2>5, <3>2 DEF CommandFor, CommandType, SnapshotType, Before
    <3> HIDE DEF c
    <3>4. c.old = Before(c.entity)
      BY <3>3
    <3>5. \A e \in DOMAIN first : e # c.entity => Before(e)' = Before(e)
      BY <2>3, <3>3
    <3>6. DOMAIN transforms' = DOMAIN transforms
      BY <2>1
    <3> QED BY <1>0, <3>1, <3>3, <3>4, <3>5, <3>6, PushCovers
  <2>6. CASE ~(gizmo.dragging /\ transforms[viewport] # gizmo.snapshot.state)
    <3>1. \A e : Before(e)' = Before(e)
      <4>1. ASSUME NEW e, e = viewport PROVE Before(e)' = Before(e)
        <5>1. CASE gizmo.dragging
          <6>1. field.kind = "none" /\ field'.kind = "none" /\ transforms[viewport] = gizmo.snapshot.state
            BY <1>0, <1>1, <2>6, <5>1 DEF Editing
          <6> QED BY <1>1, <2>1, <2>2, <4>1, <5>1, <6>1 DEF Before
        <5>2. CASE ~gizmo.dragging
          BY <1>1, <2>1, <2>2, <5>2 DEF Before
        <5> QED BY <5>1, <5>2
      <4> QED BY <2>3, <4>1
    <3> QED BY <2>1, <2>4, <2>6, <3>1, KeepCovers
  <2> QED BY <2>5, <2>6
<1> QED BY <1>2, <1>3, <1>4 DEF ViewportRender

LEMMA NextCovered == SessionInv /\ Covered /\ ~Interrupts /\ [Next]_vars => Covered'
<1> SUFFICES ASSUME SessionInv, Covered, ~Interrupts, [Next]_vars PROVE Covered'
  OBVIOUS
<1>1. CASE UNCHANGED vars \/ SkipPanels \/ LoadMissing \/ SkipDetails
  <2>1. UNCHANGED <<transforms, history, first, gizmo, field, selection, viewport>>
    BY <1>1 DEF vars, SkipPanels, LoadMissing, SkipDetails, scene, selected
  <2>2. \A e \in DOMAIN first : Before(e)' = Before(e) /\ e \in DOMAIN transforms'
    BY <2>1 DEF Before, Covered
  <2> QED BY <2>1, <2>2, KeepCovers
<1>2. CASE KeyUndo
  BY <1>2, UndoCovers DEF SessionInv
<1>3. CASE EditorPicking
  BY <1>3, PickingCovers
<1>4. CASE \/ Save \/ Load \/ SpawnInHierarchy \/ AddTransform
           \/ \E e \in Entity : SelectInHierarchy(e) \/ DeleteInHierarchy(e)
  BY <1>4, PanelCovers
<1>5. CASE \/ FieldActivated \/ FieldDeactivated \/ FieldTabbedOn \/ FieldTabbedBack
           \/ \E v \in Values : FieldEdited(v)
  BY <1>5, FieldCovers
<1>6. ASSUME NEW press \in {"none", "scene", "handle"}, NEW held \in BOOLEAN, NEW v \in Values,
             ViewportRender(press, held, v)
      PROVE  Covered'
  BY <1>6, ViewportCovers
<1> QED BY <1>1, <1>2, <1>3, <1>4, <1>5, <1>6 DEF Next

\* When nothing interrupts an edit, no committed edit is missing from the history: undoing
\* everything takes each entity back to the transform that it was created with, for as long
\* as nothing of it was evicted and Tab did not go back in its fields after an edit.
THEOREM SpecEditsCovered == ASSUME ~Interrupts PROVE Spec => []EditsCovered
<1>1. Init => Covered
  BY DEF Init, Covered
<1>2. Covered /\ SessionInv /\ [Next]_vars => Covered'
  BY NextCovered
<1>3. SessionInv /\ Covered => EditsCovered
  BY CoveredEdits DEF SessionInv
<1> QED BY <1>1, <1>2, <1>3, SpecSessionInv, PTL DEF Spec
====
