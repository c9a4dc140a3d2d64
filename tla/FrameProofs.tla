---------------------------- MODULE FrameProofs ----------------------------
(***************************************************************************)
(* A frame, at its two ends.  What it takes from the user's hands: the     *)
(* table of held keys, undo, the camera drag and the tile drag, for any    *)
(* keyboard and any places.  What it draws: the cache of the               *)
(* fixed-function state never lies, the window is the GUI's alone, and the *)
(* texture in the viewport shows one whole frame (Renderer implements      *)
(* Viewport), for any entities and cameras.                                *)
(***************************************************************************)
EXTENDS UserInput, Renderer, TLAPS

\* Each entry that is true has a key that is held; with shared entries the
\* converse fails.
Grounded ==
  /\ pressed \subseteq Keys
  /\ keyStates \subseteq {sdlKeyToAndromeda(k) : k \in pressed}

\* Each key that is held has its entry true, unless it has none or shares it.
Shared(k) == \E l \in Keys \ {k} : sdlKeyToAndromeda(l) = sdlKeyToAndromeda(k)
Covered == \A k \in pressed : sdlKeyToAndromeda(k) \in keyStates \cup {Unknown} \/ Shared(k)

\* A drag that did not lose the focus goes on in a visible viewport, so that
\* the release is seen by the panel.
DragInView == canRotate => strayed \/ (seen /\ visible)

\* A tile that is held is still at its place, or has been dragged and what the
\* context has of a hit is of this drag.
HitOfThisDrag ==
  active => IF dragging THEN hasLastHitpoint => lastHitPoint \in trail ELSE mouse = Tile

-----------------------------------------------------------------------------
\* A step of the whole is a step of each part, or leaves the part as it is.
LEMMA PartSteps ==
  [InputNext]_inputVars => [KeyNext]_keyVars /\ [Look!Next]_(Look!vars) /\ [Tiles!Next]_(Tiles!vars)
<1> SUFFICES ASSUME [InputNext]_inputVars
             PROVE  [KeyNext]_keyVars /\ [Look!Next]_(Look!vars) /\ [Tiles!Next]_(Tiles!vars)
  OBVIOUS
<1> USE DEF lookVars, tileVars, Look!vars, Look!windows, Tiles!vars
<1>1. CASE Keyboard
  BY <1>1 DEF Keyboard
<1>2. CASE RightButton
  BY <1>2 DEF RightButton, Look!Next
<1>3. CASE Windows
  BY <1>3 DEF Windows, Look!Next
<1>4. ASSUME NEW takes \in BOOLEAN, NEW hovered \in BOOLEAN, EditorFrame(takes, hovered)
      PROVE  [KeyNext]_keyVars /\ [Look!Next]_(Look!vars) /\ [Tiles!Next]_(Tiles!vars)
  BY <1>4 DEF EditorFrame, Look!Next
<1>5. CASE UNCHANGED inputVars
  BY <1>5 DEF inputVars
<1>6. QED
  BY <1>1, <1>2, <1>3, <1>4, <1>5 DEF InputNext

-----------------------------------------------------------------------------
\* What the casts make of a key: a code of the table, a Z for a key that types
\* one or is taken for one only, a Control for a key that is taken for one only.
LEMMA Codes ==
  ASSUME NEW k \in Keys
  PROVE  /\ sdlKeyToAndromeda(k) \in Keycode
         /\ sdlKeyToAndromeda(k) = Z => Letter[k] = 26 \/ TakenFor(k, {Z})
         /\ sdlKeyToAndromeda(k) \in Controls => TakenFor(k, Controls)
<1>1. Scancode[k] \in 0 .. 511 /\ Letter[k] \in 0 .. 26
  BY KeyboardAssumption
<1>2. ScancodeCast(k) \in 0 .. 255 /\ ScancodeCast(k) = Scancode[k] % 256
  BY <1>1 DEF ScancodeCast
<1>3. QED
  BY <1>1, <1>2 DEF sdlKeyToAndromeda, TakenFor, Keycode, Controls, Count, Unknown, A, Z

LEMMA GroundedInit == KeyInit => Grounded
BY DEF KeyInit, Grounded

LEMMA GroundedStep == Grounded /\ [KeyNext]_keyVars => Grounded'
<1> SUFFICES ASSUME Grounded, [KeyNext]_keyVars PROVE Grounded'
  OBVIOUS
<1> USE DEF Grounded
<1>1. ASSUME NEW k \in Keys, KeyDown(k) PROVE Grounded'
  BY <1>1 DEF KeyDown
<1>2. ASSUME NEW k \in Keys, KeyRepeat(k) PROVE Grounded'
  BY <1>2 DEF KeyRepeat
<1>3. ASSUME NEW k \in Keys, KeyUp(k) PROVE Grounded'
  BY <1>3 DEF KeyUp
<1>4. CASE UNCHANGED keyVars
  BY <1>4 DEF keyVars
<1>5. QED
  BY <1>1, <1>2, <1>3, <1>4 DEF KeyNext

LEMMA CoveredStep ==
  Grounded /\ Covered /\ [KeyNext]_keyVars => Covered'
<1> SUFFICES ASSUME Grounded, Covered, [KeyNext]_keyVars PROVE Covered'
  OBVIOUS
<1> USE DEF Covered
<1>1. ASSUME NEW k \in Keys, KeyDown(k) PROVE Covered'
  BY <1>1 DEF KeyDown
<1>2. ASSUME NEW k \in Keys, KeyRepeat(k) PROVE Covered'
  BY <1>2 DEF KeyRepeat
<1>3. ASSUME NEW k \in Keys, KeyUp(k) PROVE Covered'
  BY <1>3 DEF KeyUp, Grounded, Shared
<1>4. CASE UNCHANGED keyVars
  BY <1>4 DEF keyVars
<1>5. QED
  BY <1>1, <1>2, <1>3, <1>4 DEF KeyNext

LEMMA TypeStep == TypeOK /\ Grounded /\ [KeyNext]_keyVars => TypeOK'
<1> SUFFICES ASSUME TypeOK, Grounded, [KeyNext]_keyVars PROVE TypeOK'
  OBVIOUS
<1>1. keyStates' \subseteq Keycode /\ pressed' \subseteq Keys
  BY GroundedStep, Codes DEF Grounded
<1>2. undone' \in Keys \cup {NoKey}
  <2>1. ASSUME NEW k \in Keys, KeyDown(k) PROVE undone' \in Keys \cup {NoKey}
    BY <2>1 DEF KeyDown, OnKeyDown
  <2>2. ASSUME NEW k \in Keys, KeyRepeat(k) \/ KeyUp(k) PROVE undone' \in Keys \cup {NoKey}
    BY <2>2 DEF KeyRepeat, KeyUp
  <2>3. CASE UNCHANGED keyVars
    BY <2>3 DEF keyVars, TypeOK
  <2>4. QED
    BY <2>1, <2>2, <2>3 DEF KeyNext
<1>3. QED
  BY <1>1, <1>2 DEF TypeOK

\* The table has entries of the engine's keys only, whatever code SDL sends
\* (input_manager.cpp, sdlKeyToAndromeda): no write beyond its end.
THEOREM SpecTypeOK == InputSpec => []TypeOK
<1>1. InputInit => TypeOK /\ Grounded
  BY GroundedInit DEF InputInit, KeyInit, TypeOK
<1>2. TypeOK /\ Grounded /\ [InputNext]_inputVars => (TypeOK /\ Grounded)'
  BY PartSteps, TypeStep, GroundedStep
<1>3. QED
  BY <1>1, <1>2, PTL DEF InputSpec

\* A table entry is true only while a key of it is held, and exactly while the
\* key is held that has it for itself (input_manager.hpp, isKeyHeld), on every
\* keyboard and layout, whichever of its keys share an entry.
THEOREM SpecHeldExactly == InputSpec => []HeldExactly
<1>1. InputInit => Grounded /\ Covered
  BY GroundedInit DEF InputInit, KeyInit, Covered
<1>2. (Grounded /\ Covered) /\ [InputNext]_inputVars => (Grounded /\ Covered)'
  BY PartSteps, GroundedStep, CoveredStep
<1>3. Grounded /\ Covered => HeldExactly
  BY DEF Grounded, Covered, Shared, HeldExactly
<1>4. QED
  BY <1>1, <1>2, <1>3, PTL DEF InputSpec

-----------------------------------------------------------------------------
LEMMA UndoStep ==
  Grounded /\ UndoMeant /\ [KeyNext]_keyVars => UndoMeant'
<1> SUFFICES ASSUME Grounded, UndoMeant, [KeyNext]_keyVars PROVE UndoMeant'
  OBVIOUS
<1>1. ASSUME NEW k \in Keys, KeyDown(k) PROVE UndoMeant'
  <2>1. CASE undone' = NoKey
    BY <2>1 DEF UndoMeant
  <2>2. CASE undone' # NoKey
    <3>1. undone' = k /\ sdlKeyToAndromeda(k) = Z /\ \E c \in Controls : c \in keyStates'
      BY <1>1, <2>2 DEF KeyDown, OnKeyDown, isKeyHeld
    <3>2. Grounded'
      BY GroundedStep
    <3>3. PICK l \in pressed' : sdlKeyToAndromeda(l) \in Controls
      BY <3>1, <3>2 DEF Grounded
    <3>4. l \in Keys /\ TakenFor(l, Controls)
      BY <3>2, <3>3, Codes DEF Grounded
    <3>5. QED
      BY <3>1, <3>3, <3>4, Codes DEF UndoMeant
  <2>3. QED
    BY <2>1, <2>2
<1>2. ASSUME NEW k \in Keys, KeyRepeat(k) PROVE UndoMeant'
  BY <1>2 DEF KeyRepeat, UndoMeant
<1>3. ASSUME NEW k \in Keys, KeyUp(k) PROVE UndoMeant'
  BY <1>3 DEF KeyUp, UndoMeant
<1>4. CASE UNCHANGED keyVars
  BY <1>4 DEF keyVars, UndoMeant
<1>5. QED
  BY <1>1, <1>2, <1>3, <1>4 DEF KeyNext

\* Nothing is undone unless a key that types a z or is taken for the Z comes down
\* while one that is taken for a Control is really held (editor.cpp, the listener
\* of KeyDown), on every layout, also with scancodes that the cast cuts short and
\* with keys that share entries.
THEOREM SpecUndoMeant == InputSpec => []UndoMeant
<1>1. InputInit => Grounded /\ UndoMeant
  BY GroundedInit DEF InputInit, KeyInit, UndoMeant
<1>2. Grounded /\ UndoMeant /\ [InputNext]_inputVars => (Grounded /\ UndoMeant)'
  BY PartSteps, GroundedStep, UndoStep
<1>3. QED
  BY <1>1, <1>2, PTL DEF InputSpec

-----------------------------------------------------------------------------
LEMMA DragInViewStep == DragInView /\ [Look!Next]_(Look!vars) => DragInView'
<1> SUFFICES ASSUME DragInView, [Look!Next]_(Look!vars) PROVE DragInView'
  OBVIOUS
<1> USE DEF DragInView
<1>1. CASE Look!Button
  BY <1>1 DEF Look!Button, Look!windows
<1>2. ASSUME NEW f \in BOOLEAN, NEW v \in BOOLEAN, Look!UseWindows(f, v)
      PROVE  DragInView'
  BY <1>2 DEF Look!UseWindows
<1>3. ASSUME NEW takes \in BOOLEAN, NEW hovered \in BOOLEAN, Look!Frame(takes, hovered)
      PROVE  DragInView'
  <2>1. CASE takes /\ Head(queue)
    BY <1>3, <2>1 DEF Look!Frame, Look!handleViewportInput, Look!MayHover
  <2>2. CASE takes /\ ~Head(queue)
    BY <1>3, <2>2 DEF Look!Frame, Look!handleViewportInput
  <2>3. CASE ~takes
    BY <1>3, <2>3 DEF Look!Frame, Look!handleViewportInput
  <2>4. QED
    BY <2>1, <2>2, <2>3
<1>4. CASE UNCHANGED Look!vars
  BY <1>4 DEF Look!vars, Look!windows
<1>5. QED
  BY <1>1, <1>2, <1>3, <1>4 DEF Look!Next

\* The camera turns only while ImGui has the right button down, as long as the
\* focus stays in the viewport during the drag (a_ViewportPanel.cpp,
\* handleViewportInput), however many changes of the button wait for ImGui and
\* whatever the keys and the left button do.
THEOREM SpecRotatesInDrag == InputSpec => []RotatesInDrag
<1>1. InputInit => DragInView
  BY DEF InputInit, Look!Init, DragInView
<1>2. DragInView /\ [InputNext]_inputVars => DragInView'
  BY PartSteps, DragInViewStep
<1>3. DragInView => RotatesInDrag
  BY DEF DragInView, RotatesInDrag, Look!RotatesInDrag
<1>4. QED
  BY <1>1, <1>2, <1>3, PTL DEF InputSpec

-----------------------------------------------------------------------------
LEMMA HitStep ==
  ~Floating /\ HitOfThisDrag /\ Tiles!AddedByDrag /\ [Tiles!Next]_(Tiles!vars)
    => (HitOfThisDrag /\ Tiles!AddedByDrag)'
<1> SUFFICES ASSUME ~Floating, HitOfThisDrag, Tiles!AddedByDrag, [Tiles!Next]_(Tiles!vars)
             PROVE  (HitOfThisDrag /\ Tiles!AddedByDrag)'
  OBVIOUS
<1> USE DEF HitOfThisDrag, Tiles!AddedByDrag
<1>1. CASE Tiles!Press
  BY <1>1 DEF Tiles!Press
<1>2. ASSUME NEW place \in Tiles!Places, Tiles!Hold(place)
      PROVE  (HitOfThisDrag /\ Tiles!AddedByDrag)'
  BY <1>2 DEF Tiles!Hold, Tiles!dragTile
<1>3. ASSUME NEW place \in Tiles!Places, Tiles!Release(place)
      PROVE  (HitOfThisDrag /\ Tiles!AddedByDrag)'
  <2>1. Tiles!hasValidPickRay => mouse # Tile
    BY PlacesAssumption DEF Tiles!hasValidPickRay
  <2>2. added' # Nowhere => added' \in trail
    BY <1>3, <2>1 DEF Tiles!Release, Tiles!dropTile
  <2>3. QED
    BY <1>3, <2>2 DEF Tiles!Release
<1>4. ASSUME NEW place \in Tiles!Places, Tiles!Move(place)
      PROVE  (HitOfThisDrag /\ Tiles!AddedByDrag)'
  BY <1>4 DEF Tiles!Move
<1>5. CASE UNCHANGED Tiles!vars
  BY <1>5 DEF Tiles!vars
<1>6. QED
  BY <1>1, <1>2, <1>3, <1>4, <1>5 DEF Tiles!Next

\* With the browser docked an entity is added only by a drag, and where that
\* drag has been (a_BrowserPanel.hpp, handleDragAndDrop), for any places of
\* the viewport and of the other panels. Floating over the viewport a click
\* adds one as well.
THEOREM SpecAddedByDrag ==
  ASSUME ~Floating
  PROVE  InputSpec => []AddedByDrag
<1>1. InputInit => HitOfThisDrag /\ Tiles!AddedByDrag
  BY DEF InputInit, Tiles!Init, HitOfThisDrag, Tiles!AddedByDrag
<1>2. HitOfThisDrag /\ Tiles!AddedByDrag /\ [InputNext]_inputVars
        => (HitOfThisDrag /\ Tiles!AddedByDrag)'
  BY PartSteps, HitStep
<1>3. Tiles!AddedByDrag => AddedByDrag
  BY DEF AddedByDrag
<1>4. QED
  BY <1>1, <1>2, <1>3, PTL DEF InputSpec

-----------------------------------------------------------------------------
\* The fields that setRenderPassSpecs compares one by one.
LEMMA FieldNames ==
  Field = {"rasterizerMode", "cullMode", "depthTest", "depthFunction",
           "blendMode", "depthWrite"}
BY DEF Field, DefaultSpecs

\* The state between passes is one a pass may ask for.
LEMMA DefaultsAreSpecs == DefaultSpecs \in RenderPassSpecs
BY DEF DefaultSpecs, RenderPassSpecs

\* Specs and functions over the fields are the same thing.
LEMMA SpecsByField ==
  ASSUME NEW s \in RenderPassSpecs, NEW t \in RenderPassSpecs,
         \A f \in Field : s[f] = t[f]
  PROVE  s = t
BY FieldNames DEF RenderPassSpecs

\* Fields taken from two specs make specs.
LEMMA Mixed ==
  ASSUME NEW s \in RenderPassSpecs, NEW t \in RenderPassSpecs, NEW P \in [Field -> BOOLEAN]
  PROVE  [f \in Field |-> IF P[f] THEN s[f] ELSE t[f]] \in RenderPassSpecs
BY FieldNames DEF RenderPassSpecs

\* After setRenderPassSpecs, GL has what was asked, whatever was skipped, and
\* the cache knows what GL has.
LEMMA SpecsAreSet ==
  ASSUME NEW p \in Pipe, Coherent(p), NEW s \in RenderPassSpecs,
         NEW q, q = setRenderPassSpecs(p, s)
  PROVE  q \in Pipe /\ Coherent(q) /\ q.asked = s /\ Agree(q.state, s)
<1> DEFINE P == [f \in Field |-> Sent(p, s, f)]
<1>1. P \in [Field -> BOOLEAN]
  BY FieldNames DEF Sent, Pipe, RenderPassSpecs
<1>2. /\ q.state = [f \in Field |-> IF P[f] THEN s[f] ELSE p.state[f]]
      /\ q.current = [f \in Field |-> IF P[f] THEN s[f] ELSE p.current[f]]
      /\ q = [state |-> q.state, current |-> q.current, first |-> FALSE, asked |-> s]
  BY DEF setRenderPassSpecs
<1>3. p.state \in RenderPassSpecs /\ p.current \in RenderPassSpecs
  BY DEF Pipe
<1>4. q.state \in RenderPassSpecs /\ q.current \in RenderPassSpecs
  <2> HIDE DEF P
  <2> QED BY <1>1, <1>2, <1>3, Mixed
<1>5. q \in Pipe
  <2>1. [state |-> q.state, current |-> q.current, first |-> FALSE, asked |-> s] \in Pipe
    BY <1>4 DEF Pipe
  <2> QED BY <1>2, <2>1
<1>6. ASSUME NEW f \in Field PROVE q.state[f] = q.current[f]
  <2>1. CASE p.first
    BY <1>2, <2>1 DEF Sent, Coherent
  <2>2. CASE ~p.first
    BY <1>2, <2>2 DEF Coherent
  <2> QED BY <2>1, <2>2 DEF Pipe
<1>7. q.state = q.current
  BY <1>4, <1>6, SpecsByField
<1>8. Agree(q.state, s)
  BY <1>2, <1>6 DEF Sent, Agree
<1> QED BY <1>2, <1>5, <1>7, <1>8 DEF Coherent

\* ImGui puts back everything of the state that it changes.
LEMMA GuiLeavesNoTrace ==
  ASSUME NEW p \in Pipe PROVE RenderDrawData(p) = p
<1>1. p.state \in RenderPassSpecs
  BY DEF Pipe
<1>2. Restored(SetupRenderState(p.state), p.state) = p.state
  BY <1>1 DEF Restored, SetupRenderState, RenderPassSpecs
<1> QED BY <1>2 DEF RenderDrawData, Pipe

-----------------------------------------------------------------------------
IInv == pipe \in Pipe /\ Coherent(pipe) /\ asAsked = TRUE

\* A context that has just been created knows nothing of GL, and says so.
LEMMA InitCoherent == Init => IInv
<1> DEFINE created == [DefaultSpecs EXCEPT !.cullMode = "None", !.depthTest = FALSE]
<1>1. /\ created \in RenderPassSpecs
      /\ created.depthFunction = DefaultSpecs.depthFunction
  BY DEF DefaultSpecs, RenderPassSpecs
<1>2. ContextCreated \in Pipe /\ Coherent(ContextCreated)
  <2> HIDE DEF created
  <2>1. ContextCreated = [state |-> created, current |-> DefaultSpecs,
                          first |-> TRUE, asked |-> DefaultSpecs]
    BY DEF ContextCreated, created
  <2> QED BY <1>1, <2>1, DefaultsAreSpecs DEF Coherent, Pipe
<1> QED BY <1>2 DEF Init, IInv

\* A pass: it asks for specs, draws, and asks for the default ones.
LEMMA PassCoherent ==
  ASSUME IInv, NEW specs \in RenderPassSpecs,
         LET drawing == setRenderPassSpecs(pipe, specs)
         IN /\ \/ pipe' = setRenderPassSpecs(drawing, DefaultSpecs)
               \/ pipe' = drawing
            /\ \/ asAsked' = (asAsked /\ Agree(drawing.state, drawing.asked))
               \/ asAsked' = asAsked
  PROVE  IInv'
<1> DEFINE drawing == setRenderPassSpecs(pipe, specs)
<1>1. drawing \in Pipe /\ Coherent(drawing) /\ drawing.asked = specs
      /\ Agree(drawing.state, specs)
  BY SpecsAreSet DEF IInv
<1>2. asAsked' = TRUE
  BY <1>1 DEF IInv
<1>3. pipe' \in Pipe /\ Coherent(pipe')
  BY <1>1, SpecsAreSet, DefaultsAreSpecs
<1> QED BY <1>2, <1>3 DEF IInv

\* Each pass, the baking steps and ImGui keep the cache true.
LEMMA NextCoherent == IInv /\ [Next]_vars => IInv'
<1> SUFFICES ASSUME IInv, [Next]_vars PROVE IInv'
  OBVIOUS
<1> USE PassCoherent DEF Drawing
<1>1. CASE ConvertEquirectangularToCubemap
  <2>1. [DefaultSpecs EXCEPT !.depthFunction = "LEqual", !.cullMode = "None"] \in RenderPassSpecs
    BY DEF DefaultSpecs, RenderPassSpecs
  <2> QED BY <1>1, <2>1 DEF ConvertEquirectangularToCubemap
<1>2. BakingSpecs \in RenderPassSpecs
  BY DEF BakingSpecs, DefaultSpecs, RenderPassSpecs
<1>3. CASE irradianceCubemapBaking
  BY <1>2, <1>3 DEF irradianceCubemapBaking
<1>4. CASE prefilterCubemapBaking
  BY <1>2, <1>4 DEF prefilterCubemapBaking
<1>5. CASE brdfLUTBaking
  BY <1>2, <1>5 DEF brdfLUTBaking
<1>6. CASE createMaterials
  BY <1>6, DefaultsAreSpecs DEF createMaterials
<1>7. CASE geometryPass
  <2>1. GeometrySpecs \in RenderPassSpecs
    BY DEF GeometrySpecs, DefaultSpecs, RenderPassSpecs
  <2>2. Agree(setRenderPassSpecs(pipe, GeometrySpecs).state, GeometrySpecs)
    BY <2>1, SpecsAreSet DEF IInv
  <2>3. asAsked' = asAsked
    BY <1>7, <2>2 DEF geometryPass, IInv
  <2>4. pipe' = setRenderPassSpecs(setRenderPassSpecs(pipe, GeometrySpecs), DefaultSpecs)
    BY <1>7 DEF geometryPass
  <2> QED BY <2>1, <2>3, <2>4
<1>8. CASE proceduralPass
  <2>1. [DefaultSpecs EXCEPT !.cullMode = "None", !.blendMode = "AlphaBlend",
                             !.depthFunction = "LEqual"] \in RenderPassSpecs
    BY DEF DefaultSpecs, RenderPassSpecs
  <2> QED BY <1>8, <2>1 DEF proceduralPass
<1>9. CASE vfxPass
  <2>1. [DefaultSpecs EXCEPT !.blendMode = "AlphaBlend", !.depthWrite = FALSE]
          \in RenderPassSpecs
    BY DEF DefaultSpecs, RenderPassSpecs
  <2> QED BY <1>9, <2>1 DEF vfxPass
<1>10. CASE selectionPass
  <2>1. [DefaultSpecs EXCEPT !.cullMode = "None", !.depthFunction = "LEqual"]
          \in RenderPassSpecs
    BY DEF DefaultSpecs, RenderPassSpecs
  <2>2. CASE pipe' = pipe /\ asAsked' = asAsked
    BY <2>2 DEF IInv
  <2> QED BY <1>10, <2>1, <2>2 DEF selectionPass
<1>11. CASE postprocessingPass
  <2>1. [BakingSpecs EXCEPT !.blendMode = "AlphaBlend"] \in RenderPassSpecs
    BY DEF BakingSpecs, DefaultSpecs, RenderPassSpecs
  <2> QED BY <1>11, <2>1 DEF postprocessingPass
<1>12. CASE EndFrame
  BY <1>12, GuiLeavesNoTrace DEF EndFrame, IInv
<1>13. CASE \/ windowClearPass \/ scenePassBegin \/ geometryPassAborts
            \/ scenePassEndResolve \/ Edit \/ UNCHANGED vars
  BY <1>13 DEF windowClearPass, scenePassBegin, geometryPassAborts, scenePassEndResolve,
     Edit, editScene, onSceneObjectSelected, onEnableWireFrame, moveCamera, gl, vars, IInv
<1> QED BY <1>1, <1>3, <1>4, <1>5, <1>6, <1>7, <1>8, <1>9, <1>10, <1>11, <1>12, <1>13
        DEF Next, start, update

\* Every draw of start and of every frame runs in exactly the fixed-function
\* state its pass asked for, however the passes and ImGui follow each other.
THEOREM SpecDrawnAsAsked == Spec => []DrawnAsAsked
<1>1. IInv => DrawnAsAsked
  BY DEF IInv, DrawnAsAsked
<1> QED BY InitCoherent, NextCoherent, <1>1, PTL DEF Spec

-----------------------------------------------------------------------------
(* The window.                                                             *)

\* Only the fields of the bindings and the images count here, and fbo.
IsBind(b) ==
  b \in [fbo : Target \cup {"baking"}, viewport : {b.viewport}, unit : {b.unit},
         flat : {b.flat}, cube : {b.cube}, ubo : {b.ubo}]

IsImage(f) == f \in [drawn : {f.drawn}, depth : {f.depth}]

Gui == [by |-> "gui"]

\* The framebuffer that each step of a frame finds bound.
Bound ==
  bind.fbo = IF pc \in {"geometry", "procedural", "vfx", "resolve", "aborted"}
             THEN "msaa" ELSE "window"

Images == image = [t \in Target |-> image[t]] /\ \A t \in Target : IsImage(image[t])

WInv == IsBind(bind) /\ Bound /\ Images /\ WindowForGui

\* What each call on the context does to the framebuffer that is bound.
LEMMA BindCalls ==
  ASSUME NEW b, IsBind(b), NEW x, NEW y
  PROVE  /\ IsBind(setViewport(b, x)) /\ setViewport(b, x).fbo = b.fbo
         /\ IsBind(unbindFramebuffer(b)) /\ unbindFramebuffer(b).fbo = "window"
         /\ IsBind(bindUBO(b, x, y)) /\ bindUBO(b, x, y).fbo = b.fbo
         /\ IsBind(bindTextureCube(b, x, y)) /\ bindTextureCube(b, x, y).fbo = b.fbo
         /\ IsBind(bindShaderTexture(b, x, y)) /\ bindShaderTexture(b, x, y).fbo = b.fbo
         /\ IsBind(bindTextures(b, x, y)) /\ bindTextures(b, x, y).fbo = b.fbo
         /\ IsBind(allocateTexture(b)) /\ allocateTexture(b).fbo = b.fbo
         /\ IsBind(AllocateCubemapTexture(b)) /\ AllocateCubemapTexture(b).fbo = b.fbo
         /\ IsBind(resize(b)) /\ resize(b).fbo = "window"
<1>1. IsBind(setViewport(b, x)) /\ setViewport(b, x).fbo = b.fbo
  BY DEF IsBind, setViewport
<1>2. IsBind(unbindFramebuffer(b)) /\ unbindFramebuffer(b).fbo = "window"
  BY DEF IsBind, unbindFramebuffer, Target
<1>3. IsBind(bindUBO(b, x, y)) /\ bindUBO(b, x, y).fbo = b.fbo
  BY DEF IsBind, bindUBO
<1>4. IsBind(bindTextureCube(b, x, y)) /\ bindTextureCube(b, x, y).fbo = b.fbo
  BY DEF IsBind, bindTextureCube
<1>5. IsBind(bindShaderTexture(b, x, y)) /\ bindShaderTexture(b, x, y).fbo = b.fbo
  BY DEF IsBind, bindShaderTexture
<1>6. IsBind(bindTextures(b, x, y)) /\ bindTextures(b, x, y).fbo = b.fbo
  BY DEF IsBind, bindTextures
<1>7. IsBind(allocateTexture(b)) /\ allocateTexture(b).fbo = b.fbo
  BY DEF IsBind, allocateTexture
<1>8. IsBind(AllocateCubemapTexture(b)) /\ AllocateCubemapTexture(b).fbo = b.fbo
  BY DEF IsBind, AllocateCubemapTexture
<1>9. IsBind(resize(b)) /\ resize(b).fbo = "window"
  BY DEF IsBind, resize, Target
<1> QED BY <1>1, <1>2, <1>3, <1>4, <1>5, <1>6, <1>7, <1>8, <1>9

\* Binding a framebuffer of the renderer, or the one for baking.
LEMMA BindsFramebuffer ==
  ASSUME NEW b, IsBind(b), NEW t \in Target \cup {"baking"}, NEW size
  PROVE  IsBind(bindFramebuffer(b, t, size)) /\ bindFramebuffer(b, t, size).fbo = t
BY DEF IsBind, bindFramebuffer

\* Start and the clearing of the window leave nothing on it.
LEMMA InitWindow == Init => WInv
<1> SUFFICES ASSUME Init PROVE WInv
  OBVIOUS
<1>1. IsBind(bind) /\ Bound
  BY DEF Init, NothingBound, IsBind, Bound, Target
<1>2. image = [t \in Target |-> [drawn |-> {}, depth |-> TRUE]]
  BY DEF Init
<1>3. Images
  BY <1>2 DEF Images, IsImage
<1>4. WindowForGui
  BY <1>2 DEF WindowForGui, Target
<1> QED BY <1>1, <1>3, <1>4 DEF WInv

\* One target gets a new image, the others keep theirs.
LEMMA ImageSet ==
  ASSUME Images, NEW t \in Target, NEW f, IsImage(f), image' = [image EXCEPT ![t] = f]
  PROVE  Images' /\ image'[t] = f /\ \A u \in Target \ {t} : image'[u] = image[u]
<1>1. image' = [u \in Target |-> IF u = t THEN f ELSE image[u]]
  BY DEF Images
<1> QED BY <1>1 DEF Images

\* Drawing on a target adds to what is there.
LEMMA DrawnOnto ==
  ASSUME Images, NEW t \in Target, NEW draws, image' = Onto(t, draws)
  PROVE  /\ Images' /\ image'[t].drawn = image[t].drawn \cup draws
         /\ image'[t].depth = image[t].depth
         /\ \A u \in Target \ {t} : image'[u] = image[u]
<1> DEFINE f == [image[t] EXCEPT !.drawn = @ \cup draws]
<1>1. IsImage(f) /\ f.drawn = image[t].drawn \cup draws /\ f.depth = image[t].depth
  BY DEF Images, IsImage
<1>2. image' = [image EXCEPT ![t] = f]
  BY DEF Onto, Images
<1> HIDE DEF f
<1> QED BY <1>1, <1>2, ImageSet

\* Clearing a target takes all draws from it.
LEMMA ClearedTarget ==
  ASSUME Images, NEW t \in Target, NEW p, image' = Cleared(t, p)
  PROVE  /\ Images' /\ image'[t].drawn = {} /\ image'[t].depth = p.state.depthWrite
         /\ \A u \in Target \ {t} : image'[u] = image[u]
<1> DEFINE f == [drawn |-> {}, depth |-> p.state.depthWrite]
<1>1. /\ IsImage(f) /\ f.drawn = {} /\ f.depth = p.state.depthWrite
      /\ image' = [image EXCEPT ![t] = f]
  BY DEF IsImage, Cleared
<1> HIDE DEF f
<1> QED BY <1>1, ImageSet

\* A pass that stays off the window and draws nothing of the GUI's keeps the
\* window for the GUI.
LEMMA OffWindow ==
  ASSUME WInv, NEW t \in Target \ {"window"},
         \A u \in Target \ {t} : image'[u].drawn = image[u].drawn \/ image'[u] = image[u],
         Gui \notin image'[t].drawn, pc' # "scenePassBegin"
  PROVE  WindowForGui'
BY DEF WInv, WindowForGui, Gui, Target

\* The draws of the passes are none of the GUI's.
LEMMA NotTheGui ==
  ASSUME NEW p, NEW b, NEW u, NEW d
  PROVE  /\ PbrDraw(p, b, u) # Gui /\ SkyDraw(b, u) # Gui
         /\ MaskDraw(b, u, d) # Gui /\ OutlineDraw(b, u) # Gui
<1>1. /\ PbrDraw(p, b, u).by = "pbr" /\ SkyDraw(b, u).by = "skybox"
      /\ MaskDraw(b, u, d).by = "mask" /\ OutlineDraw(b, u).by = "outline"
  BY DEF PbrDraw, SkyDraw, MaskDraw, OutlineDraw
<1>2. Gui.by = "gui"
  BY DEF Gui
<1> QED BY <1>1, <1>2

\* Start, each pass and the GUI keep the window for the GUI.
LEMMA NextWindow == WInv /\ [Next]_vars => WInv'
<1> SUFFICES ASSUME WInv, [Next]_vars PROVE WInv'
  OBVIOUS
<1> USE DEF Goes
<1>w. IsBind(bind) /\ Bound /\ Images /\ WindowForGui
  BY DEF WInv
<1>s. ASSUME UNCHANGED image, pc' # "scenePassBegin"
      PROVE  Images' /\ WindowForGui'
  BY <1>s, <1>w DEF Images, WindowForGui
<1>t. {"window", "msaa", "scene", "selection", "postprocess"} = Target
  BY DEF Target
<1>1. CASE ConvertEquirectangularToCubemap
  <2> DEFINE r == resize(bind)
             a == AllocateCubemapTexture(r)
             s == bindShaderTexture(a, 0, "panorama")
             v == setViewport(s, 512)
             f == bindFramebuffer(v, "baking", 512)
             u == unbindFramebuffer(f)
  <2>a. IsBind(r)
    BY <1>w, BindCalls
  <2> HIDE DEF r
  <2>b. IsBind(a)
    BY <2>a, BindCalls
  <2> HIDE DEF a
  <2>c. IsBind(s)
    BY <2>b, BindCalls
  <2> HIDE DEF s
  <2>d. IsBind(v)
    BY <2>c, BindCalls
  <2> HIDE DEF v
  <2>e. IsBind(f)
    BY <2>d, BindsFramebuffer
  <2> HIDE DEF f
  <2>f. IsBind(u) /\ u.fbo = "window"
    BY <2>e, BindCalls
  <2> HIDE DEF u
  <2>y. bind' = bindTextureCube(u, 0, "environment")
    BY <1>1 DEF ConvertEquirectangularToCubemap, r, a, s, v, f, u
  <2>1. IsBind(bind') /\ bind'.fbo = "window"
    BY <2>f, <2>y, BindCalls
  <2> QED BY <1>1, <1>s, <2>1 DEF ConvertEquirectangularToCubemap, WInv, Bound
<1>2. CASE irradianceCubemapBaking
  <2> DEFINE r == resize(bind)
             a == AllocateCubemapTexture(r)
             c == AllocateCubemapTexture(a)
             s == bindTextureCube(c, 0, "environment")
             v == setViewport(s, 32)
             f == bindFramebuffer(v, "baking", 32)
             u == unbindFramebuffer(f)
             w == setViewport(u, 512)
  <2>a. IsBind(r)
    BY <1>w, BindCalls
  <2> HIDE DEF r
  <2>b. IsBind(a)
    BY <2>a, BindCalls
  <2> HIDE DEF a
  <2>c. IsBind(c)
    BY <2>b, BindCalls
  <2> HIDE DEF c
  <2>d. IsBind(s)
    BY <2>c, BindCalls
  <2> HIDE DEF s
  <2>e. IsBind(v)
    BY <2>d, BindCalls
  <2> HIDE DEF v
  <2>f. IsBind(f)
    BY <2>e, BindsFramebuffer
  <2> HIDE DEF f
  <2>g. IsBind(u)
    BY <2>f, BindCalls
  <2> HIDE DEF u
  <2>h. IsBind(w)
    BY <2>g, BindCalls
  <2> HIDE DEF w
  <2>y. bind' = resize(w)
    BY <1>2 DEF irradianceCubemapBaking, r, a, c, s, v, f, u, w
  <2>1. IsBind(bind') /\ bind'.fbo = "window"
    BY <2>h, <2>y, BindCalls
  <2> QED BY <1>2, <1>s, <2>1 DEF irradianceCubemapBaking, WInv, Bound
<1>3. CASE prefilterCubemapBaking
  <2> DEFINE s == bindTextureCube(bind, 0, "environment")
             f == bindFramebuffer(s, "baking", 512)
             v == setViewport(f, 128 \div 2^4)
  <2>a. IsBind(s)
    BY <1>w, BindCalls
  <2> HIDE DEF s
  <2>b. IsBind(f)
    BY <2>a, BindsFramebuffer
  <2> HIDE DEF f
  <2>c. IsBind(v)
    BY <2>b, BindCalls
  <2> HIDE DEF v
  <2>y. bind' = unbindFramebuffer(v)
    BY <1>3 DEF prefilterCubemapBaking, s, f, v
  <2>1. IsBind(bind') /\ bind'.fbo = "window"
    BY <2>c, <2>y, BindCalls
  <2> QED BY <1>3, <1>s, <2>1 DEF prefilterCubemapBaking, WInv, Bound
<1>4. CASE brdfLUTBaking
  <2> DEFINE a == allocateTexture(bind)
             v == setViewport(a, 512)
             b1 == bindFramebuffer(v, "baking", 512)
             b2 == [b1 EXCEPT !.flat[b1.unit] = "none"]
  <2>a. IsBind(a)
    BY <1>w, BindCalls
  <2> HIDE DEF a
  <2>b. IsBind(v)
    BY <2>a, BindCalls
  <2> HIDE DEF v
  <2>1. IsBind(b1)
    BY <2>b, BindsFramebuffer
  <2> HIDE DEF b1
  <2>2. IsBind(b2)
    BY <2>1 DEF IsBind
  <2>3. bind' = unbindFramebuffer(b2)
    BY <1>4 DEF brdfLUTBaking, a, v, b1
  <2> HIDE DEF b2
  <2>4. IsBind(bind') /\ bind'.fbo = "window"
    BY <2>2, <2>3, BindCalls
  <2> QED BY <1>4, <1>s, <2>4 DEF brdfLUTBaking, WInv, Bound
<1>5. CASE createMaterials
  <2>1. IsBind(bind') /\ bind'.fbo = bind.fbo
    BY <1>5, <1>w, BindCalls DEF createMaterials
  <2> QED BY <1>5, <1>s, <1>w, <2>1 DEF createMaterials, WInv, Bound
<1>6. CASE windowClearPass
  <2>1. IsBind(bind') /\ bind'.fbo = bind.fbo /\ bind.fbo = "window"
    BY <1>6, <1>w, BindCalls DEF windowClearPass, Bound
  <2>2. /\ Images' /\ image'["window"].drawn = {}
        /\ \A u \in Target \ {"window"} : image'[u] = image[u]
    BY <1>6, <1>t, <1>w, <2>1, ClearedTarget DEF windowClearPass
  <2>3. WindowForGui'
    BY <1>w, <2>2 DEF WindowForGui
  <2> QED BY <1>6, <2>1, <2>2, <2>3 DEF windowClearPass, WInv, Bound
<1>7. CASE scenePassBegin
  <2> DEFINE f == bindFramebuffer(bind, "msaa", "window")
             c == bindUBO(f, 0, "camera")
  <2>a. IsBind(f) /\ f.fbo = "msaa"
    BY <1>t, <1>w, BindsFramebuffer
  <2> HIDE DEF f
  <2>b. IsBind(c) /\ c.fbo = "msaa"
    BY <2>a, BindCalls
  <2> HIDE DEF c
  <2>c. bind' = bindUBO(c, 3, "lights")
    BY <1>7 DEF scenePassBegin, f, c
  <2>1. IsBind(bind') /\ bind'.fbo = "msaa"
    BY <2>b, <2>c, BindCalls
  <2>2. /\ Images' /\ image'["msaa"].drawn = {}
        /\ \A u \in Target \ {"msaa"} : image'[u] = image[u]
    BY <1>7, <1>t, <1>w, ClearedTarget DEF scenePassBegin
  <2>3. WindowForGui'
    BY <1>7, <1>t, <2>2, OffWindow DEF scenePassBegin
  <2> QED BY <1>7, <2>1, <2>2, <2>3 DEF scenePassBegin, WInv, Bound
<1>8. CASE geometryPass
  <2> DEFINE draws ==
        {PbrDraw(setRenderPassSpecs(pipe, GeometrySpecs), PbrBound(bindUBO(bind, 1, "object")),
                 [uniforms EXCEPT !["object"] = e]) : e \in {x \in Entity : scene[x] = "whole"}}
  <2>1. bind.fbo = "msaa" /\ Gui \notin image["msaa"].drawn
    BY <1>8, <1>t, <1>w DEF geometryPass, Bound, WindowForGui, Gui
  <2>2. image' = Onto("msaa", draws)
    BY <1>8, <2>1 DEF geometryPass
  <2>3. Gui \notin draws
    BY NotTheGui
  <2> HIDE DEF draws
  <2>4. /\ Images' /\ Gui \notin image'["msaa"].drawn
        /\ \A u \in Target \ {"msaa"} : image'[u] = image[u]
    BY <1>t, <1>w, <2>1, <2>2, <2>3, DrawnOnto
  <2>5. WindowForGui'
    BY <1>8, <1>t, <2>4, OffWindow DEF geometryPass
  <2> DEFINE o == bindUBO(bind, 1, "object")
             m == bindUBO(o, 2, "material")
             p == bindTextures(m, [u \in {2} |-> "brdf"],
                               [u \in {0, 1} |-> IF u = 0 THEN "irradiance" ELSE "prefilter"])
  <2>a. IsBind(o) /\ o.fbo = "msaa"
    BY <1>w, <2>1, BindCalls
  <2>b. IsBind(m) /\ m.fbo = "msaa"
    <3> HIDE DEF o
    <3> QED BY <2>a, BindCalls
  <2>c. IsBind(p) /\ p.fbo = "msaa"
    <3> HIDE DEF m
    <3> QED BY <2>b, BindCalls
  <2>d. bind' = bind \/ bind' = p
    BY <1>8 DEF geometryPass, PbrBound
  <2>6. IsBind(bind') /\ bind'.fbo = "msaa"
    BY <1>w, <2>1, <2>c, <2>d
  <2> QED BY <1>8, <2>4, <2>5, <2>6 DEF geometryPass, WInv, Bound
<1>9. CASE proceduralPass
  <2>1. bind.fbo = "msaa" /\ Gui \notin image["msaa"].drawn
    BY <1>9, <1>t, <1>w DEF proceduralPass, Bound, WindowForGui, Gui
  <2>2. image' = Onto("msaa", {SkyDraw(bind', uniforms)})
    BY <1>9, <2>1 DEF proceduralPass
  <2>3. /\ Images' /\ Gui \notin image'["msaa"].drawn
        /\ \A u \in Target \ {"msaa"} : image'[u] = image[u]
    BY <1>t, <1>w, <2>1, <2>2, DrawnOnto, NotTheGui
  <2>4. WindowForGui'
    BY <1>9, <1>t, <2>3, OffWindow DEF proceduralPass
  <2>5. IsBind(bind') /\ bind'.fbo = "msaa"
    BY <1>9, <1>w, <2>1, BindCalls DEF proceduralPass
  <2> QED BY <1>9, <2>3, <2>4, <2>5 DEF proceduralPass, WInv, Bound
<1>10. CASE vfxPass
  BY <1>10, <1>s, <1>w DEF vfxPass, WInv, Bound
<1>11. CASE scenePassEndResolve
  <2> DEFINE f == [image["scene"] EXCEPT !.drawn = image["msaa"].drawn]
             b == [bind EXCEPT !.fbo = "scene"]
  <2>1. IsImage(f) /\ f.drawn = image["msaa"].drawn
    BY <1>t, <1>w DEF Images, IsImage
  <2>2. image' = [image EXCEPT !["scene"] = f]
    BY <1>11, <1>t, <1>w DEF scenePassEndResolve, Images
  <2> HIDE DEF f
  <2>3. /\ Images' /\ image'["scene"] = f
        /\ \A u \in Target \ {"scene"} : image'[u] = image[u]
    BY <1>t, <1>w, <2>1, <2>2, ImageSet
  <2>4. Gui \notin image'["scene"].drawn
    BY <1>t, <1>w, <2>1, <2>3 DEF WindowForGui, Gui
  <2>5. WindowForGui'
    BY <1>11, <1>t, <2>3, <2>4, OffWindow DEF scenePassEndResolve
  <2>6. IsBind(b)
    BY <1>w DEF IsBind, Target
  <2>7. bind' = unbindFramebuffer(b)
    BY <1>11 DEF scenePassEndResolve
  <2> HIDE DEF b
  <2>8. IsBind(bind') /\ bind'.fbo = "window"
    BY <2>6, <2>7, BindCalls
  <2> QED BY <1>11, <2>3, <2>5, <2>8 DEF scenePassEndResolve, WInv, Bound
<1>12. CASE selectionPass
  <2> DEFINE target == bindFramebuffer(bind, "selection", "window")
             bound == bindUBO(target, 1, "object")
             cleared == Cleared("selection", pipe)
             empty == [drawn |-> {}, depth |-> pipe.state.depthWrite]
             mask == [drawn |-> {MaskDraw(bound, uniforms', cleared["selection"].depth)},
                      depth |-> pipe.state.depthWrite]
  <2>1. IsBind(target) /\ IsBind(bound)
    BY <1>t, <1>w, BindCalls, BindsFramebuffer
  <2>2. bind' = unbindFramebuffer(bound) \/ bind' = unbindFramebuffer(target)
    BY <1>12 DEF selectionPass
  <2>3. IsBind(bind') /\ bind'.fbo = "window"
    <3> HIDE DEF target, bound
    <3> QED BY <2>1, <2>2, BindCalls
  <2>4. IsImage(empty) /\ Gui \notin empty.drawn
    BY DEF IsImage
  <2>5. IsImage(mask) /\ Gui \notin mask.drawn
    <3> HIDE DEF bound, cleared
    <3> QED BY NotTheGui DEF IsImage
  <2>6. cleared = [image EXCEPT !["selection"] = empty]
    BY DEF Cleared
  <2>7. \/ image' = cleared
        \/ image' = [cleared EXCEPT !["selection"].drawn =
                       {MaskDraw(bound, uniforms', cleared["selection"].depth)}]
    BY <1>12 DEF selectionPass
  <2>8. image' = [image EXCEPT !["selection"] = empty]
        \/ image' = [image EXCEPT !["selection"] = mask]
    <3> DEFINE d == {MaskDraw(bound, uniforms', cleared["selection"].depth)}
    <3>1. mask = [drawn |-> d, depth |-> pipe.state.depthWrite]
      OBVIOUS
    <3> HIDE DEF d, mask, cleared
    <3>2. cleared = [u \in Target |-> IF u = "selection" THEN empty ELSE image[u]]
      BY <1>t, <1>w, <2>6 DEF Images
    <3>3. [cleared EXCEPT !["selection"].drawn = d]
          = [u \in Target |-> IF u = "selection" THEN mask ELSE image[u]]
      BY <1>t, <3>1, <3>2
    <3>4. [image EXCEPT !["selection"] = mask]
          = [u \in Target |-> IF u = "selection" THEN mask ELSE image[u]]
      BY <1>t, <1>w DEF Images
    <3> QED BY <2>6, <2>7, <3>3, <3>4 DEF d
  <2> HIDE DEF empty, mask
  <2>9. /\ Images' /\ Gui \notin image'["selection"].drawn
        /\ \A u \in Target \ {"selection"} : image'[u] = image[u]
    BY <1>t, <1>w, <2>4, <2>5, <2>8, ImageSet
  <2>10. WindowForGui'
    BY <1>12, <1>t, <2>9, OffWindow DEF selectionPass
  <2> QED BY <1>12, <2>3, <2>9, <2>10 DEF selectionPass, WInv, Bound
<1>13. CASE postprocessingPass
  <2> DEFINE target == bindUBO(bindFramebuffer(bind, "postprocess", "window"), 0, "outline")
             bound == bindShaderTexture(bindShaderTexture(target, 10, "scene"), 11, "selection")
             d == {OutlineDraw(bound, uniforms')}
             f == [image["postprocess"] EXCEPT !.drawn = d]
  <2>1. IsBind(bound)
    BY <1>t, <1>w, BindCalls, BindsFramebuffer
  <2>2. bind' = unbindFramebuffer(bound) /\ image' = [image EXCEPT !["postprocess"].drawn = d]
    BY <1>13 DEF postprocessingPass
  <2>3. Gui \notin d
    <3> HIDE DEF bound
    <3> QED BY NotTheGui
  <2> HIDE DEF bound, d
  <2>4. IsBind(bind') /\ bind'.fbo = "window"
    BY <2>1, <2>2, BindCalls
  <2>5. IsImage(f) /\ f.drawn = d /\ image' = [image EXCEPT !["postprocess"] = f]
    BY <1>t, <1>w, <2>2 DEF Images, IsImage
  <2> HIDE DEF f
  <2>6. /\ Images' /\ Gui \notin image'["postprocess"].drawn
        /\ \A u \in Target \ {"postprocess"} : image'[u] = image[u]
    BY <1>t, <1>w, <2>3, <2>5, ImageSet
  <2>7. WindowForGui'
    BY <1>13, <1>t, <2>6, OffWindow DEF postprocessingPass
  <2> QED BY <1>13, <2>4, <2>6, <2>7 DEF postprocessingPass, WInv, Bound
<1>14. CASE EndFrame
  <2>1. bind.fbo = "window" /\ image' = Onto("window", {Gui})
    BY <1>14, <1>w DEF EndFrame, Bound, Gui
  <2>2. /\ Images' /\ image'["window"].drawn = image["window"].drawn \cup {Gui}
        /\ \A u \in Target \ {"window"} : image'[u] = image[u]
    BY <1>t, <1>w, <2>1, DrawnOnto
  <2>3. WindowForGui'
    BY <1>14, <1>w, <2>2 DEF EndFrame, WindowForGui, Gui
  <2> QED BY <1>14, <1>w, <2>2, <2>3 DEF EndFrame, WInv, Bound
<1>15. CASE geometryPassAborts \/ Edit \/ UNCHANGED vars
  <2>1. /\ UNCHANGED <<bind, image>>
        /\ pc' = pc \/ (pc = "geometry" /\ pc' = "aborted")
    BY <1>15 DEF geometryPassAborts, Edit, editScene, onSceneObjectSelected, onEnableWireFrame,
       moveCamera, gl, vars
  <2> QED BY <1>w, <2>1 DEF WInv, Bound, Images, WindowForGui
<1> QED BY <1>1, <1>2, <1>3, <1>4, <1>5, <1>6, <1>7, <1>8, <1>9, <1>10, <1>11, <1>12, <1>13,
           <1>14, <1>15 DEF Next, start, update

\* The window is cleared before every frame and drawn by the GUI alone, and the
\* GUI draws nowhere else: no pass leaves its framebuffer bound, for any scene.
THEOREM SpecWindowForGui == Spec => []WindowForGui
<1>1. WInv => WindowForGui
  BY DEF WInv
<1> QED BY InitWindow, NextWindow, <1>1, PTL DEF Spec

-----------------------------------------------------------------------------
(* What the texture shows.                                                 *)

\* Bindings with every unit and slot.
IsContext(b) ==
  /\ IsBind(b)
  /\ b.unit \in Unit
  /\ b.flat = [u \in Unit |-> b.flat[u]]
  /\ b.cube = [u \in Unit |-> b.cube[u]]
  /\ b.ubo = [s \in Slot |-> b.ubo[s]]

\* What each call on the context binds, and what it leaves bound.
LEMMA ViewportSet ==
  ASSUME NEW b, IsContext(b), NEW area, NEW q, q = setViewport(b, area)
  PROVE  /\ IsContext(q) /\ q.viewport = area
         /\ q.flat = b.flat /\ q.cube = b.cube /\ q.ubo = b.ubo /\ q.unit = b.unit
BY DEF IsContext, IsBind, setViewport

LEMMA FramebufferSet ==
  ASSUME NEW b, IsContext(b), NEW t \in Target \cup {"baking"}, NEW size,
         NEW q, q = bindFramebuffer(b, t, size)
  PROVE  /\ IsContext(q) /\ q.viewport = size
         /\ q.flat = b.flat /\ q.cube = b.cube /\ q.ubo = b.ubo /\ q.unit = b.unit
BY DEF IsContext, IsBind, bindFramebuffer

LEMMA FramebufferUnset ==
  ASSUME NEW b, IsContext(b), NEW q, q = unbindFramebuffer(b)
  PROVE  /\ IsContext(q) /\ q.viewport = b.viewport
         /\ q.flat = b.flat /\ q.cube = b.cube /\ q.ubo = b.ubo /\ q.unit = b.unit
BY DEF IsContext, IsBind, unbindFramebuffer, Target

LEMMA BufferSet ==
  ASSUME NEW b, IsContext(b), NEW s \in Slot, NEW buffer, NEW q, q = bindUBO(b, s, buffer)
  PROVE  /\ IsContext(q) /\ q.viewport = b.viewport
         /\ q.flat = b.flat /\ q.cube = b.cube /\ q.unit = b.unit
         /\ q.ubo[s] = buffer /\ \A r \in Slot \ {s} : q.ubo[r] = b.ubo[r]
<1>1. /\ IsBind(q) /\ q.viewport = b.viewport
      /\ q.flat = b.flat /\ q.cube = b.cube /\ q.unit = b.unit
      /\ q.ubo = [b.ubo EXCEPT ![s] = buffer]
  BY DEF IsContext, IsBind, bindUBO
<1>2. q.ubo = [r \in Slot |-> IF r = s THEN buffer ELSE b.ubo[r]]
  BY <1>1 DEF IsContext
<1> QED BY <1>1, <1>2 DEF IsContext

LEMMA CubeSet ==
  ASSUME NEW b, IsContext(b), NEW u \in Unit, NEW texture, NEW q, q = bindTextureCube(b, u, texture)
  PROVE  /\ IsContext(q) /\ q.viewport = b.viewport
         /\ q.flat = b.flat /\ q.ubo = b.ubo /\ q.unit = u
         /\ q.cube[u] = texture /\ \A r \in Unit \ {u} : q.cube[r] = b.cube[r]
<1>1. /\ IsBind(q) /\ q.viewport = b.viewport
      /\ q.flat = b.flat /\ q.ubo = b.ubo /\ q.unit = u
      /\ q.cube = [b.cube EXCEPT ![u] = texture]
  BY DEF IsContext, IsBind, bindTextureCube
<1>2. q.cube = [r \in Unit |-> IF r = u THEN texture ELSE b.cube[r]]
  BY <1>1 DEF IsContext
<1> QED BY <1>1, <1>2 DEF IsContext

LEMMA FlatSet ==
  ASSUME NEW b, IsContext(b), NEW u \in Unit, NEW texture, NEW q, q = bindShaderTexture(b, u, texture)
  PROVE  /\ IsContext(q) /\ q.viewport = b.viewport
         /\ q.cube = b.cube /\ q.ubo = b.ubo /\ q.unit = u
         /\ q.flat[u] = texture /\ \A r \in Unit \ {u} : q.flat[r] = b.flat[r]
<1>1. /\ IsBind(q) /\ q.viewport = b.viewport
      /\ q.cube = b.cube /\ q.ubo = b.ubo /\ q.unit = u
      /\ q.flat = [b.flat EXCEPT ![u] = texture]
  BY DEF IsContext, IsBind, bindShaderTexture
<1>2. q.flat = [r \in Unit |-> IF r = u THEN texture ELSE b.flat[r]]
  BY <1>1 DEF IsContext
<1> QED BY <1>1, <1>2 DEF IsContext

LEMMA TexturesSet ==
  ASSUME NEW b, IsContext(b), NEW flats, NEW cubes, NEW q, q = bindTextures(b, flats, cubes)
  PROVE  /\ IsContext(q) /\ q.viewport = b.viewport /\ q.ubo = b.ubo
         /\ \A u \in Unit : /\ u \in DOMAIN flats => q.flat[u] = flats[u]
                            /\ u \in DOMAIN cubes => q.cube[u] = cubes[u]
<1>1. /\ IsBind(q) /\ q.viewport = b.viewport /\ q.ubo = b.ubo /\ q.unit = b.unit
      /\ q.flat = [u \in Unit |-> IF u \in DOMAIN flats THEN flats[u] ELSE b.flat[u]]
      /\ q.cube = [u \in Unit |-> IF u \in DOMAIN cubes THEN cubes[u] ELSE b.cube[u]]
  BY DEF IsContext, IsBind, bindTextures
<1> QED BY <1>1 DEF IsContext

\* Allocations forget a texture of the active unit, never a uniform buffer.
LEMMA Allocated ==
  ASSUME NEW b, IsContext(b),
         NEW q, q = allocateTexture(b) \/ q = AllocateCubemapTexture(b) \/ q = resize(b)
                \/ q = [b EXCEPT !.flat[b.unit] = "none"]
  PROVE  IsContext(q) /\ q.viewport = b.viewport
<1>1. /\ IsBind(q) /\ q.viewport = b.viewport /\ q.unit = b.unit /\ q.ubo = b.ubo
      /\ q.flat = b.flat \/ q.flat = [b.flat EXCEPT ![b.unit] = "none"]
      /\ q.cube = b.cube \/ q.cube = [b.cube EXCEPT ![b.unit] = "none"]
  BY DEF IsContext, IsBind, allocateTexture, AllocateCubemapTexture, resize, Target
<1>2. /\ q.flat = [u \in Unit |-> q.flat[u]]
      /\ q.cube = [u \in Unit |-> q.cube[u]]
  BY <1>1 DEF IsContext
<1> QED BY <1>1, <1>2 DEF IsContext

-----------------------------------------------------------------------------
\* The draws of the frame that is being drawn.
MeshDrawn(e) ==
  [by |-> "pbr", raster |-> IF wireframe THEN "Wireframe" ELSE "Fill", area |-> "window",
   depth |-> TRUE, camera |-> camera, object |-> e, material |-> "pbrMaterial",
   lights |-> "lights", irradiance |-> baked.panorama, prefilter |-> baked.panorama,
   brdf |-> "lut"]

MeshesDrawn == {MeshDrawn(e) : e \in {x \in Entity : scene[x] = "whole"}}

SkyDrawn ==
  [by |-> "skybox", area |-> "window", depth |-> TRUE, camera |-> camera,
   environment |-> baked.panorama]

MaskDrawn ==
  {[by |-> "mask", area |-> "window", depth |-> TRUE, camera |-> camera, object |-> e] :
     e \in {x \in Entity : x = selected /\ scene[x] = "whole"}}

\* Each lighting map has been made from the panorama once its step is past.
BakedSoFar ==
  /\ baked \in [panorama : {baked.panorama}, environment : {baked.environment},
                irradiance : {baked.irradiance}, prefilter : {baked.prefilter},
                brdf : {baked.brdf}]
  /\ pc # "start" => baked.environment = baked.panorama
  /\ pc \notin {"start", "irradiance"} => baked.irradiance = baked.panorama
  /\ pc \notin {"start", "irradiance", "prefilter"} => baked.prefilter = baked.panorama
  /\ pc \notin {"start", "irradiance", "prefilter", "brdf"} => baked.brdf = "lut"

Buffer == {"camera", "object", "lights", "material", "outline"}

\* What the passes of a frame find bound, written and drawn.
ReadyForPass ==
  /\ IsContext(bind)
  /\ uniforms = [b \in Buffer |-> uniforms[b]]
  /\ pipe.state.depthWrite = TRUE
  /\ pc \in Passes => uniforms["material"] = "pbrMaterial"
  /\ pc \in {"geometry", "procedural"} => bind.viewport = "window"
  /\ pc \in {"geometry", "procedural", "vfx", "resolve", "selection"} =>
       /\ bind.ubo[0] = "camera" /\ uniforms["camera"] = camera
       /\ bind.ubo[3] = "lights" /\ uniforms["lights"] = "lights"

DrawnSoFar ==
  /\ pc \in {"geometry", "procedural"} => image["msaa"].depth = TRUE
  /\ pc = "geometry" => image["msaa"].drawn = {}
  /\ pc = "procedural" => image["msaa"].drawn = MeshesDrawn
  /\ pc \in {"vfx", "resolve"} => image["msaa"].drawn = MeshesDrawn \cup {SkyDrawn}
  /\ pc \in {"selection", "postprocessing"} => image["scene"].drawn = MeshesDrawn \cup {SkyDrawn}
  /\ pc = "postprocessing" => image["selection"].drawn = MaskDrawn

FrameInv == BakedSoFar /\ ReadyForPass /\ DrawnSoFar

VInv == IInv /\ WInv /\ FrameInv /\ wireframe \in BOOLEAN

-----------------------------------------------------------------------------
\* The picture changes with the texture only.
LEMMA SamePicture ==
  ASSUME image'["postprocess"] = image["postprocess"] 
  PROVE  Picture' = Picture
BY DEF Picture, Garbled, Sound, Seen, MeshDraws, SkyDraws

\* A texture that holds one outline draw shows what that draw was made from.
LEMMA OnePicture ==
  ASSUME NEW d, d.by = "outline", image'["postprocess"].drawn = {d}, Sound(d)
  PROVE  Picture' = Seen(d)
<1>1. (CHOOSE x \in {d} : x.by = "outline") = d
  OBVIOUS
<1>2. Picture' = IF Sound(d) THEN Seen(d) ELSE Garbled
  BY <1>1 DEF Picture
<1> QED BY <1>2

\* The state a pass draws in and the one it leaves behind, as far as it tells.
LEMMA PassState ==
  ASSUME IInv, NEW specs \in RenderPassSpecs,
         NEW drawing, drawing = setRenderPassSpecs(pipe, specs)
  PROVE  /\ drawing.state.rasterizerMode = specs.rasterizerMode
         /\ drawing.state.depthWrite = specs.depthWrite
         /\ setRenderPassSpecs(drawing, DefaultSpecs).state.depthWrite = TRUE
<1>1. drawing \in Pipe /\ Coherent(drawing) /\ Agree(drawing.state, specs)
  BY SpecsAreSet DEF IInv
<1>2. Agree(setRenderPassSpecs(drawing, DefaultSpecs).state, DefaultSpecs)
  BY <1>1, SpecsAreSet, DefaultsAreSpecs
<1>3. DefaultSpecs.depthWrite = TRUE
  BY DEF DefaultSpecs
<1> QED BY <1>1, <1>2, <1>3, FieldNames DEF Agree

LEMMA BakingAreSpecs == BakingSpecs \in RenderPassSpecs /\ BakingSpecs.depthWrite = TRUE
BY DEF BakingSpecs, DefaultSpecs, RenderPassSpecs

\* Nothing is drawn or bound for a frame before start has ended.
LEMMA StillBaking ==
  ASSUME pc' \in {"irradiance", "prefilter", "brdf", "materials", "windowClear"},
         BakedSoFar', IsContext(bind'), pipe'.state.depthWrite = TRUE,
         uniforms' = [b \in Buffer |-> uniforms'[b]],
         pc' = "windowClear" => uniforms'["material"] = "pbrMaterial"
  PROVE  FrameInv'
BY DEF FrameInv, ReadyForPass, DrawnSoFar, Passes

\* A step of start, seen from the viewport.
SameTexture == image'["postprocess"] = image["postprocess"] /\ baked'.panorama = baked.panorama

LEMMA ConvertView ==
  ASSUME VInv, ConvertEquirectangularToCubemap
  PROVE  FrameInv' /\ SameTexture
<1>0. IInv /\ IsContext(bind) /\ BakedSoFar /\ uniforms = [b \in Buffer |-> uniforms[b]]
  BY DEF VInv, FrameInv, ReadyForPass
<1> DEFINE specs == [DefaultSpecs EXCEPT !.depthFunction = "LEqual", !.cullMode = "None"]
           r == resize(bind)
           a == AllocateCubemapTexture(r)
           s == bindShaderTexture(a, 0, "panorama")
           v == setViewport(s, 512)
           f == bindFramebuffer(v, "baking", 512)
           u == unbindFramebuffer(f)
<1>1. IsContext(a)
  <2>1. IsContext(r)
    BY <1>0, Allocated
  <2> HIDE DEF r
  <2> QED BY <2>1, Allocated
<1> HIDE DEF a
<1>2. IsContext(s) /\ s.flat[0] = "panorama"
  BY <1>1, FlatSet DEF Unit
<1> HIDE DEF s
<1>3. IsContext(v) /\ v.flat = s.flat
  BY <1>2, ViewportSet
<1> HIDE DEF v
<1>4. IsContext(f) /\ f.viewport = 512 /\ f.flat[0] = "panorama"
  BY <1>2, <1>3, FramebufferSet
<1> HIDE DEF f
<1>5. IsContext(u)
  BY <1>4, FramebufferUnset
<1> HIDE DEF u
<1>6. bind' = bindTextureCube(u, 0, "environment")
  BY DEF ConvertEquirectangularToCubemap, a, s, v, f, u
<1>7. IsContext(bind') /\ bind'.cube[bind'.unit] = "environment"
  BY <1>5, <1>6, CubeSet DEF Unit
<1>8. baked' = [baked EXCEPT !.environment =
                  IF bind'.cube[bind'.unit] = "environment"
                  THEN FaceOf(Baked(f.flat[0]), f, 512) ELSE "black"]
  BY DEF ConvertEquirectangularToCubemap, a, s, v, f, u
<1>9. baked' = [baked EXCEPT !.environment = baked.panorama]
  BY <1>4, <1>7, <1>8 DEF FaceOf, Baked
<1>10. pipe'.state.depthWrite = TRUE
  <2>1. specs \in RenderPassSpecs
    BY DEF DefaultSpecs, RenderPassSpecs
  <2>2. pipe' = setRenderPassSpecs(setRenderPassSpecs(pipe, specs), DefaultSpecs)
    BY DEF ConvertEquirectangularToCubemap
  <2> HIDE DEF specs
  <2> QED BY <1>0, <2>1, <2>2, PassState
<1>11. pc' = "irradiance" /\ uniforms' = uniforms /\ image' = image
  BY DEF ConvertEquirectangularToCubemap, Goes
<1>12. BakedSoFar' /\ baked'.panorama = baked.panorama
  BY <1>0, <1>9, <1>11 DEF BakedSoFar
<1> QED BY <1>0, <1>7, <1>10, <1>11, <1>12, StillBaking DEF SameTexture

LEMMA IrradianceView ==
  ASSUME VInv, irradianceCubemapBaking
  PROVE  FrameInv' /\ SameTexture
<1>0. IInv /\ IsContext(bind) /\ BakedSoFar /\ uniforms = [b \in Buffer |-> uniforms[b]]
  BY DEF VInv, FrameInv, ReadyForPass
<1> DEFINE r == resize(bind)
           a == AllocateCubemapTexture(r)
           c == AllocateCubemapTexture(a)
           s == bindTextureCube(c, 0, "environment")
           v == setViewport(s, 32)
           f == bindFramebuffer(v, "baking", 32)
           u == unbindFramebuffer(f)
           w == setViewport(u, 512)
<1>1. IsContext(r)
  BY <1>0, Allocated
<1> HIDE DEF r
<1>2. IsContext(a)
  BY <1>1, Allocated
<1> HIDE DEF a
<1>3. IsContext(c)
  BY <1>2, Allocated
<1> HIDE DEF c
<1>4. IsContext(s) /\ s.cube[0] = "environment"
  BY <1>3, CubeSet DEF Unit
<1> HIDE DEF s
<1>5. IsContext(v) /\ v.cube = s.cube
  BY <1>4, ViewportSet
<1> HIDE DEF v
<1>6. IsContext(f) /\ f.viewport = 32 /\ f.cube[0] = "environment"
  BY <1>4, <1>5, FramebufferSet
<1> HIDE DEF f
<1>7. IsContext(u)
  BY <1>6, FramebufferUnset
<1> HIDE DEF u
<1>8. IsContext(w)
  BY <1>7, ViewportSet
<1> HIDE DEF w
<1>9. bind' = resize(w) /\ baked' = [baked EXCEPT !.irradiance = FaceOf(Baked(f.cube[0]), f, 32)]
  BY DEF irradianceCubemapBaking, r, a, c, s, v, f, u, w
<1>10. IsContext(bind')
  BY <1>8, <1>9, Allocated
<1>11. baked' = [baked EXCEPT !.irradiance = baked.environment]
  BY <1>6, <1>9 DEF FaceOf, Baked
<1>12. pipe'.state.depthWrite = TRUE
  BY <1>0, BakingAreSpecs, PassState DEF irradianceCubemapBaking
<1>13. pc = "irradiance" /\ pc' = "prefilter" /\ uniforms' = uniforms /\ image' = image
  BY DEF irradianceCubemapBaking, Goes
<1>14. BakedSoFar' /\ baked'.panorama = baked.panorama
  BY <1>0, <1>11, <1>13 DEF BakedSoFar
<1> QED BY <1>0, <1>10, <1>12, <1>13, <1>14, StillBaking DEF SameTexture

LEMMA PrefilterView ==
  ASSUME VInv, prefilterCubemapBaking
  PROVE  FrameInv' /\ SameTexture
<1>0. IInv /\ IsContext(bind) /\ BakedSoFar /\ uniforms = [b \in Buffer |-> uniforms[b]]
  BY DEF VInv, FrameInv, ReadyForPass
<1> DEFINE c == bindTextureCube(bind, 0, "environment")
           f == bindFramebuffer(c, "baking", 512)
           Mip(m) == setViewport(f, 128 \div 2^m)
<1>1. IsContext(c) /\ c.cube[0] = "environment"
  BY <1>0, CubeSet DEF Unit
<1> HIDE DEF c
<1>2. IsContext(f) /\ f.cube[0] = "environment"
  BY <1>1, FramebufferSet
<1> HIDE DEF f
<1>3. \A m : IsContext(Mip(m)) /\ Mip(m).viewport = 128 \div 2^m
  BY <1>2, ViewportSet
<1>4. /\ bind' = unbindFramebuffer(Mip(4))
      /\ baked' = [baked EXCEPT !.prefilter =
                     IF \A m \in 0 .. 4 : FaceOf("right", Mip(m), 128 \div 2^m) = "right"
                     THEN Baked(f.cube[0]) ELSE "garbled"]
  BY DEF prefilterCubemapBaking, c, f
<1> HIDE DEF Mip
<1>5. \A m : FaceOf("right", Mip(m), 128 \div 2^m) = "right"
  BY <1>3 DEF FaceOf
<1>6. IsContext(bind')
  BY <1>3, <1>4, FramebufferUnset
<1>7. baked' = [baked EXCEPT !.prefilter = baked.environment]
  BY <1>2, <1>4, <1>5 DEF Baked
<1>8. pipe'.state.depthWrite = TRUE
  BY <1>0, BakingAreSpecs, PassState DEF prefilterCubemapBaking
<1>9. pc = "prefilter" /\ pc' = "brdf" /\ uniforms' = uniforms /\ image' = image
  BY DEF prefilterCubemapBaking, Goes
<1>10. BakedSoFar' /\ baked'.panorama = baked.panorama
  BY <1>0, <1>7, <1>9 DEF BakedSoFar
<1> QED BY <1>0, <1>6, <1>8, <1>9, <1>10, StillBaking DEF SameTexture

LEMMA LutView ==
  ASSUME VInv, brdfLUTBaking
  PROVE  FrameInv' /\ SameTexture
<1>0. IInv /\ IsContext(bind) /\ BakedSoFar /\ uniforms = [b \in Buffer |-> uniforms[b]]
  BY DEF VInv, FrameInv, ReadyForPass
<1> DEFINE a == allocateTexture(bind)
           v == setViewport(a, 512)
           f == bindFramebuffer(v, "baking", 512)
           g == [f EXCEPT !.flat[f.unit] = "none"]
<1>1. IsContext(a)
  BY <1>0, Allocated
<1> HIDE DEF a
<1>2. IsContext(v)
  BY <1>1, ViewportSet
<1> HIDE DEF v
<1>3. IsContext(f) /\ f.viewport = 512
  BY <1>2, FramebufferSet
<1> HIDE DEF f
<1>4. IsContext(g)
  BY <1>3, Allocated
<1> HIDE DEF g
<1>5. bind' = unbindFramebuffer(g) /\ baked' = [baked EXCEPT !.brdf = FaceOf("lut", f, 512)]
  BY DEF brdfLUTBaking, a, v, f, g
<1>6. IsContext(bind')
  BY <1>4, <1>5, FramebufferUnset
<1>7. baked' = [baked EXCEPT !.brdf = "lut"]
  BY <1>3, <1>5 DEF FaceOf
<1>8. pipe'.state.depthWrite = TRUE
  BY <1>0, BakingAreSpecs, PassState DEF brdfLUTBaking
<1>9. pc = "brdf" /\ pc' = "materials" /\ uniforms' = uniforms /\ image' = image
  BY DEF brdfLUTBaking, Goes
<1>10. BakedSoFar' /\ baked'.panorama = baked.panorama
  BY <1>0, <1>7, <1>9 DEF BakedSoFar
<1> QED BY <1>0, <1>6, <1>8, <1>9, <1>10, StillBaking DEF SameTexture

LEMMA MaterialsView ==
  ASSUME VInv, createMaterials
  PROVE  FrameInv' /\ SameTexture
<1>0. IInv /\ IsContext(bind) /\ BakedSoFar /\ uniforms = [b \in Buffer |-> uniforms[b]]
  BY DEF VInv, FrameInv, ReadyForPass
<1>1. IsContext(bind')
  BY <1>0, BufferSet DEF createMaterials, Slot
<1>2. pipe'.state.depthWrite = TRUE
  <2>1. pipe' = setRenderPassSpecs(pipe, DefaultSpecs)
    BY DEF createMaterials
  <2>2. DefaultSpecs.depthWrite = TRUE
    BY DEF DefaultSpecs
  <2> QED BY <1>0, <2>1, <2>2, DefaultsAreSpecs, PassState
<1>3. uniforms' = [b \in Buffer |-> uniforms'[b]] /\ uniforms'["material"] = "pbrMaterial"
  BY <1>0 DEF createMaterials, Buffer
<1>4. pc = "materials" /\ pc' = "windowClear" /\ baked' = baked /\ image' = image
  BY DEF createMaterials, Goes
<1>5. BakedSoFar'
  BY <1>0, <1>4 DEF BakedSoFar
<1> QED BY <1>1, <1>2, <1>3, <1>4, <1>5, StillBaking DEF SameTexture

\* The frame's passes bake nothing.
LEMMA BakedKept ==
  ASSUME FrameInv, pc \in Passes, pc' \in Passes \cup {"aborted"}, baked' = baked
  PROVE  BakedSoFar' /\ baked'.panorama = baked.panorama
BY DEF FrameInv, BakedSoFar, Passes

\* What is to be drawn does not change while a frame is drawn.
LEMMA DrawsKept ==
  ASSUME UNCHANGED input, baked' = baked
  PROVE  MeshesDrawn' = MeshesDrawn /\ SkyDrawn' = SkyDrawn /\ MaskDrawn' = MaskDrawn
BY DEF input, MeshesDrawn, MeshDrawn, SkyDrawn, MaskDrawn

LEMMA WindowClearView ==
  ASSUME VInv, windowClearPass
  PROVE  FrameInv' /\ SameTexture
<1>0. /\ Images /\ bind.fbo = "window" /\ pc = "windowClear"
      /\ IsContext(bind) /\ ReadyForPass
  BY DEF VInv, WInv, Bound, FrameInv, ReadyForPass, windowClearPass, Goes
<1>1. pc' = "scenePassBegin" /\ bind' = setViewport(bind, "window") /\ pipe' = pipe
      /\ uniforms' = uniforms /\ baked' = baked /\ image' = Cleared("window", pipe)
  BY <1>0 DEF windowClearPass, Goes
<1>2. image'["postprocess"] = image["postprocess"]
  BY <1>0, <1>1, ClearedTarget DEF Target
<1>3. IsContext(bind')
  BY <1>0, <1>1, ViewportSet
<1>4. BakedSoFar' /\ baked'.panorama = baked.panorama
  BY <1>0, <1>1, BakedKept DEF VInv, Passes
<1>5. ReadyForPass'
  BY <1>0, <1>1, <1>3 DEF ReadyForPass, Passes
<1> QED BY <1>1, <1>2, <1>4, <1>5 DEF FrameInv, DrawnSoFar, SameTexture

LEMMA SceneBeginView ==
  ASSUME VInv, scenePassBegin
  PROVE  FrameInv' /\ SameTexture
<1>0. /\ Images /\ IsContext(bind) /\ ReadyForPass /\ pc = "scenePassBegin"
      /\ pipe.state.depthWrite = TRUE
  BY DEF VInv, WInv, FrameInv, ReadyForPass, scenePassBegin, Goes
<1> DEFINE f == bindFramebuffer(bind, "msaa", "window")
           c == bindUBO(f, 0, "camera")
<1>1. /\ pc' = "geometry" /\ bind' = bindUBO(c, 3, "lights") /\ pipe' = pipe
      /\ uniforms' = [uniforms EXCEPT !["camera"] = camera, !["lights"] = "lights"]
      /\ baked' = baked /\ image' = Cleared("msaa", pipe) /\ camera' = camera
  BY DEF scenePassBegin, Goes, input
<1>2. /\ image'["postprocess"] = image["postprocess"]
      /\ image'["msaa"].drawn = {} /\ image'["msaa"].depth = TRUE
  BY <1>0, <1>1, ClearedTarget DEF Target
<1>3. IsContext(f) /\ f.viewport = "window"
  BY <1>0, FramebufferSet DEF Target
<1> HIDE DEF f
<1>4. IsContext(c) /\ c.viewport = "window" /\ c.ubo[0] = "camera"
  BY <1>3, BufferSet DEF Slot
<1> HIDE DEF c
<1>5. IsContext(bind') /\ bind'.viewport = "window" /\ bind'.ubo[0] = "camera" /\ bind'.ubo[3] = "lights"
  BY <1>1, <1>4, BufferSet DEF Slot
<1>6. BakedSoFar' /\ baked'.panorama = baked.panorama
  BY <1>0, <1>1, BakedKept DEF VInv, Passes
<1>7. /\ uniforms' = [b \in Buffer |-> uniforms'[b]]
      /\ uniforms'["camera"] = camera' /\ uniforms'["lights"] = "lights"
      /\ uniforms'["material"] = "pbrMaterial"
  BY <1>0, <1>1 DEF ReadyForPass, Passes, Buffer
<1>8. ReadyForPass'
  BY <1>0, <1>1, <1>5, <1>7 DEF ReadyForPass, Passes
<1>9. DrawnSoFar'
  BY <1>1, <1>2 DEF DrawnSoFar
<1> QED BY <1>2, <1>6, <1>8, <1>9 DEF FrameInv, SameTexture

LEMMA GeometryView ==
  ASSUME VInv, geometryPass
  PROVE  FrameInv' /\ SameTexture
<1>0. /\ IInv /\ Images /\ IsContext(bind) /\ ReadyForPass /\ DrawnSoFar /\ BakedSoFar
      /\ pc = "geometry" /\ bind.fbo = "msaa"
  BY DEF VInv, WInv, Bound, FrameInv, ReadyForPass, geometryPass
<1> DEFINE drawing == setRenderPassSpecs(pipe, GeometrySpecs)
           drawable == {e \in Entity : scene[e] = "whole"}
           o == bindUBO(bind, 1, "object")
           m == bindUBO(o, 2, "material")
           flats == [u \in {2} |-> "brdf"]
           cubes == [u \in {0, 1} |-> IF u = 0 THEN "irradiance" ELSE "prefilter"]
           p == bindTextures(m, flats, cubes)
           Written(e) == [uniforms EXCEPT !["object"] = e]
           draws == {PbrDraw(drawing, p, Written(e)) : e \in drawable}
<1>1. /\ pc' = "procedural" /\ pipe' = setRenderPassSpecs(drawing, DefaultSpecs)
      /\ image' = Onto("msaa", draws) /\ baked' = baked /\ UNCHANGED input
  <2>1. pc' = "procedural" /\ baked' = baked /\ UNCHANGED input
    BY DEF geometryPass
  <2>2. pipe' = setRenderPassSpecs(drawing, DefaultSpecs)
    BY DEF geometryPass
  <2>3. image' = Onto(bind.fbo, {PbrDraw(drawing, PbrBound(o), Written(e)) : e \in drawable})
    BY DEF geometryPass
  <2>4. PbrBound(o) = p
    BY DEF PbrBound
  <2> HIDE DEF drawing, o, p, Written, drawable
  <2> QED BY <1>0, <2>1, <2>2, <2>3, <2>4
<1>2. \/ bind' = bind /\ uniforms' = uniforms
      \/ bind' = p /\ \E e \in drawable : uniforms' = Written(e)
  <2>1. \/ bind' = bind /\ uniforms' = uniforms
        \/ bind' = PbrBound(o) /\ \E e \in drawable : uniforms' = Written(e)
    <3>1. CASE drawable = {}
      BY <3>1 DEF geometryPass
    <3>2. CASE drawable # {}
      <4>1. bind' = PbrBound(o)
        BY <3>2 DEF geometryPass
      <4>2. \E e \in drawable : uniforms' = Written(e)
        BY <3>2 DEF geometryPass
      <4> QED BY <4>1, <4>2
    <3> QED BY <3>1, <3>2
  <2>2. PbrBound(o) = p
    BY DEF PbrBound
  <2> HIDE DEF o, p, Written, drawable
  <2> QED BY <2>1, <2>2
<1>3. GeometrySpecs \in RenderPassSpecs
      /\ GeometrySpecs.rasterizerMode = IF wireframe THEN "Wireframe" ELSE "Fill"
  BY DEF GeometrySpecs, DefaultSpecs, RenderPassSpecs
<1>4. /\ drawing.state.rasterizerMode = IF wireframe THEN "Wireframe" ELSE "Fill"
      /\ pipe'.state.depthWrite = TRUE
  BY <1>0, <1>1, <1>3, PassState
<1>5. IsContext(o) /\ o.viewport = "window" /\ o.ubo[0] = "camera" /\ o.ubo[1] = "object"
      /\ o.ubo[3] = "lights"
  BY <1>0, BufferSet DEF Slot, ReadyForPass
<1> HIDE DEF drawing
<1>6. /\ IsContext(m) /\ m.viewport = "window" /\ m.ubo[0] = "camera" /\ m.ubo[1] = "object"
      /\ m.ubo[2] = "material" /\ m.ubo[3] = "lights"
  <2>1. 2 \in Slot /\ 0 \in Slot \ {2} /\ 1 \in Slot \ {2} /\ 3 \in Slot \ {2}
    BY DEF Slot
  <2> HIDE DEF o
  <2>2. m = bindUBO(o, 2, "material")
    OBVIOUS
  <2> HIDE DEF m
  <2> QED BY <1>5, <2>1, <2>2, BufferSet
<1>7. /\ IsContext(p) /\ p.viewport = "window" /\ p.ubo = m.ubo
      /\ p.cube[0] = "irradiance" /\ p.cube[1] = "prefilter" /\ p.flat[2] = "brdf"
  <2> HIDE DEF m
  <2> QED BY <1>6, TexturesSet DEF Unit
<1>8. p.fbo = "msaa"
  <2>0. IsBind(bind)
    BY <1>0 DEF IsContext
  <2>1. IsBind(o) /\ o.fbo = "msaa"
    BY <1>0, <2>0, BindCalls
  <2> HIDE DEF o
  <2>2. IsBind(m) /\ m.fbo = "msaa"
    BY <2>1, BindCalls
  <2> HIDE DEF m, flats, cubes
  <2> QED BY <2>2, BindCalls
<1> HIDE DEF p
<1>9. ASSUME NEW e
      PROVE  /\ Written(e) = [b \in Buffer |-> Written(e)[b]]
             /\ Written(e)["object"] = e /\ Written(e)["camera"] = camera
             /\ Written(e)["lights"] = "lights" /\ Written(e)["material"] = "pbrMaterial"
  BY <1>0 DEF ReadyForPass, Passes, Buffer
<1> HIDE DEF Written
<1>10. ASSUME NEW e PROVE PbrDraw(drawing, p, Written(e)) = MeshDrawn(e)
  <2>1. /\ Uniform(p, Written(e), 0) = camera /\ Uniform(p, Written(e), 1) = e
        /\ Uniform(p, Written(e), 2) = "pbrMaterial" /\ Uniform(p, Written(e), 3) = "lights"
    BY <1>6, <1>7, <1>9 DEF Uniform
  <2>2. /\ Baked(p.cube[0]) = baked.panorama /\ Baked(p.cube[1]) = baked.panorama
        /\ Baked(p.flat[2]) = "lut"
    BY <1>0, <1>7 DEF Baked, BakedSoFar
  <2>3. image[p.fbo].depth = TRUE
    BY <1>0, <1>8 DEF DrawnSoFar
  <2> QED BY <1>4, <1>7, <2>1, <2>2, <2>3 DEF PbrDraw, MeshDrawn
<1>11. draws = MeshesDrawn
  BY <1>10 DEF MeshesDrawn
<1> HIDE DEF draws
<1>12. /\ image'["postprocess"] = image["postprocess"]
       /\ image'["msaa"].drawn = MeshesDrawn /\ image'["msaa"].depth = TRUE
  <2>1. image["msaa"].drawn = {} /\ image["msaa"].depth = TRUE
    BY <1>0 DEF DrawnSoFar
  <2>2. "msaa" \in Target /\ "postprocess" \in Target \ {"msaa"}
    BY DEF Target
  <2>3. image' = Onto("msaa", MeshesDrawn)
    BY <1>1, <1>11
  <2>4. /\ image'["msaa"].drawn = image["msaa"].drawn \cup MeshesDrawn
        /\ image'["msaa"].depth = image["msaa"].depth
        /\ \A u \in Target \ {"msaa"} : image'[u] = image[u]
    BY <1>0, <2>2, <2>3, DrawnOnto
  <2> QED BY <2>1, <2>2, <2>4
<1>13. BakedSoFar' /\ baked'.panorama = baked.panorama
  BY <1>0, <1>1, BakedKept DEF VInv, Passes
<1>14. DrawnSoFar'
  BY <1>1, <1>12, DrawsKept DEF DrawnSoFar
<1>15. /\ IsContext(bind') /\ bind'.viewport = "window"
       /\ bind'.ubo[0] = "camera" /\ bind'.ubo[3] = "lights"
  BY <1>0, <1>2, <1>6, <1>7 DEF ReadyForPass
<1>16. /\ uniforms' = [b \in Buffer |-> uniforms'[b]]
       /\ uniforms'["camera"] = camera' /\ uniforms'["lights"] = "lights"
       /\ uniforms'["material"] = "pbrMaterial"
  BY <1>0, <1>1, <1>2, <1>9 DEF ReadyForPass, Passes, input
<1>17. ReadyForPass'
  BY <1>1, <1>4, <1>15, <1>16 DEF ReadyForPass
<1> QED BY <1>12, <1>13, <1>14, <1>17 DEF FrameInv, SameTexture

LEMMA ProceduralView ==
  ASSUME VInv, proceduralPass
  PROVE  FrameInv' /\ SameTexture
<1>0. /\ IInv /\ Images /\ IsContext(bind) /\ ReadyForPass /\ DrawnSoFar /\ BakedSoFar
      /\ pc = "procedural" /\ bind.fbo = "msaa"
  BY DEF VInv, WInv, Bound, FrameInv, ReadyForPass, proceduralPass, Goes
<1> DEFINE specs == [DefaultSpecs EXCEPT !.cullMode = "None", !.blendMode = "AlphaBlend",
                                         !.depthFunction = "LEqual"]
<1>1. /\ pc' = "vfx" /\ pipe' = setRenderPassSpecs(setRenderPassSpecs(pipe, specs), DefaultSpecs)
      /\ bind' = bindTextureCube(bind, 0, "environment")
      /\ image' = Onto("msaa", {SkyDraw(bind', uniforms)})
      /\ uniforms' = uniforms /\ baked' = baked /\ UNCHANGED input
  BY <1>0 DEF proceduralPass, Goes
<1>2. specs \in RenderPassSpecs
  BY DEF DefaultSpecs, RenderPassSpecs
<1> HIDE DEF specs
<1>3. pipe'.state.depthWrite = TRUE
  BY <1>0, <1>1, <1>2, PassState
<1>4. /\ IsContext(bind') /\ bind'.viewport = "window" /\ bind'.cube[0] = "environment"
      /\ bind'.ubo = bind.ubo
  BY <1>0, <1>1, CubeSet DEF Unit, ReadyForPass
<1>5. bind'.fbo = "msaa"
  <2>1. IsBind(bind)
    BY <1>0 DEF IsContext
  <2> QED BY <1>0, <1>1, <2>1, BindCalls
<1>6. SkyDraw(bind', uniforms) = SkyDrawn
  <2>1. Uniform(bind', uniforms, 0) = camera
    BY <1>0, <1>4 DEF Uniform, ReadyForPass
  <2>2. Baked(bind'.cube[0]) = baked.panorama
    BY <1>0, <1>4 DEF Baked, BakedSoFar
  <2>3. image[bind'.fbo].depth = TRUE
    BY <1>0, <1>5 DEF DrawnSoFar
  <2> QED BY <1>4, <2>1, <2>2, <2>3 DEF SkyDraw, SkyDrawn
<1>7. /\ image'["postprocess"] = image["postprocess"]
      /\ image'["msaa"].drawn = MeshesDrawn \cup {SkyDrawn}
  BY <1>0, <1>1, <1>6, DrawnOnto DEF Target, DrawnSoFar
<1>8. BakedSoFar' /\ baked'.panorama = baked.panorama
  BY <1>0, <1>1, BakedKept DEF VInv, Passes
<1>9. DrawnSoFar'
  BY <1>1, <1>7, DrawsKept DEF DrawnSoFar
<1>10. ReadyForPass'
  BY <1>0, <1>1, <1>3, <1>4 DEF ReadyForPass, Passes, input
<1> QED BY <1>7, <1>8, <1>9, <1>10 DEF FrameInv, SameTexture

LEMMA VfxView ==
  ASSUME VInv, vfxPass
  PROVE  FrameInv' /\ SameTexture
<1>0. IInv /\ ReadyForPass /\ DrawnSoFar /\ pc = "vfx"
  BY DEF VInv, FrameInv, vfxPass, Goes
<1> DEFINE specs == [DefaultSpecs EXCEPT !.blendMode = "AlphaBlend", !.depthWrite = FALSE]
<1>1. /\ pc' = "resolve" /\ pipe' = setRenderPassSpecs(setRenderPassSpecs(pipe, specs), DefaultSpecs)
      /\ bind' = bind /\ image' = image /\ uniforms' = uniforms /\ baked' = baked /\ UNCHANGED input
  BY DEF vfxPass, Goes
<1>2. specs \in RenderPassSpecs
  BY DEF DefaultSpecs, RenderPassSpecs
<1> HIDE DEF specs
<1>3. pipe'.state.depthWrite = TRUE
  BY <1>0, <1>1, <1>2, PassState
<1>4. BakedSoFar' /\ baked'.panorama = baked.panorama
  BY <1>0, <1>1, BakedKept DEF VInv, Passes
<1>5. DrawnSoFar'
  BY <1>0, <1>1, DrawsKept DEF DrawnSoFar
<1>6. ReadyForPass'
  BY <1>0, <1>1, <1>3 DEF ReadyForPass, Passes, input
<1> QED BY <1>1, <1>4, <1>5, <1>6 DEF FrameInv, SameTexture

LEMMA ResolveView ==
  ASSUME VInv, scenePassEndResolve
  PROVE  FrameInv' /\ SameTexture
<1>0. /\ Images /\ IsContext(bind) /\ ReadyForPass /\ DrawnSoFar /\ pc = "resolve"
  BY DEF VInv, WInv, FrameInv, ReadyForPass, scenePassEndResolve, Goes
<1> DEFINE b == [bind EXCEPT !.fbo = "scene"]
           f == [image["scene"] EXCEPT !.drawn = image["msaa"].drawn]
<1>1. /\ pc' = "selection" /\ bind' = unbindFramebuffer(b) /\ pipe' = pipe
      /\ uniforms' = uniforms /\ baked' = baked /\ UNCHANGED input
      /\ image' = [image EXCEPT !["scene"].drawn = image["msaa"].drawn]
  BY DEF scenePassEndResolve, Goes
<1>2. image' = [image EXCEPT !["scene"] = f] /\ IsImage(f) /\ f.drawn = image["msaa"].drawn
  BY <1>0, <1>1 DEF Images, IsImage, Target
<1> HIDE DEF f
<1>3. /\ image'["postprocess"] = image["postprocess"]
      /\ image'["scene"].drawn = MeshesDrawn \cup {SkyDrawn}
  BY <1>0, <1>2, ImageSet DEF Target, DrawnSoFar
<1>4. IsContext(b) /\ b.ubo = bind.ubo
  BY <1>0 DEF IsContext, IsBind, Target
<1> HIDE DEF b
<1>5. IsContext(bind') /\ bind'.ubo = bind.ubo
  BY <1>1, <1>4, FramebufferUnset
<1>6. BakedSoFar' /\ baked'.panorama = baked.panorama
  BY <1>0, <1>1, BakedKept DEF VInv, Passes
<1>7. DrawnSoFar'
  BY <1>1, <1>3, DrawsKept DEF DrawnSoFar
<1>8. ReadyForPass'
  BY <1>0, <1>1, <1>5 DEF ReadyForPass, Passes, input
<1> QED BY <1>3, <1>6, <1>7, <1>8 DEF FrameInv, SameTexture

LEMMA SelectionView ==
  ASSUME VInv, selectionPass
  PROVE  FrameInv' /\ SameTexture
<1>0. /\ IInv /\ Images /\ IsContext(bind) /\ ReadyForPass /\ DrawnSoFar
      /\ pc = "selection" /\ pipe.state.depthWrite = TRUE
  BY DEF VInv, WInv, FrameInv, ReadyForPass, selectionPass, Goes
<1> DEFINE specs == [DefaultSpecs EXCEPT !.cullMode = "None", !.depthFunction = "LEqual"]
           drawing == setRenderPassSpecs(pipe, specs)
           target == bindFramebuffer(bind, "selection", "window")
           bound == bindUBO(target, 1, "object")
           cleared == Cleared("selection", pipe)
           written == [uniforms EXCEPT !["object"] = selected]
           chosen == selected \in Entity /\ scene[selected] = "whole"
           d == MaskDraw(bound, written, cleared["selection"].depth)
<1>1. pc' = "postprocessing" /\ baked' = baked /\ UNCHANGED input
  BY DEF selectionPass, Goes
<1>2. CASE chosen
  <2>1. /\ uniforms' = written /\ bind' = unbindFramebuffer(bound)
        /\ pipe' = setRenderPassSpecs(drawing, DefaultSpecs)
    BY <1>2 DEF selectionPass
  <2>2. image' = [cleared EXCEPT !["selection"].drawn = {d}]
    BY <1>2 DEF selectionPass
  <2>3. specs \in RenderPassSpecs
    BY DEF DefaultSpecs, RenderPassSpecs
  <2> HIDE DEF specs
  <2>4. pipe'.state.depthWrite = TRUE
    BY <1>0, <2>1, <2>3, PassState
  <2>5. IsContext(target) /\ target.viewport = "window" /\ target.ubo = bind.ubo
    BY <1>0, FramebufferSet DEF Target
  <2> HIDE DEF target
  <2>6. /\ IsContext(bound) /\ bound.viewport = "window" /\ bound.ubo[1] = "object"
        /\ bound.ubo[0] = "camera" /\ bound.ubo[3] = "lights"
    BY <1>0, <2>5, BufferSet DEF Slot, ReadyForPass
  <2> HIDE DEF bound
  <2>7. IsContext(bind')
    BY <2>1, <2>6, FramebufferUnset
  <2>8. /\ written = [b \in Buffer |-> written[b]]
        /\ written["object"] = selected /\ written["camera"] = camera
        /\ written["material"] = "pbrMaterial"
    BY <1>0 DEF ReadyForPass, Passes, Buffer
  <2> HIDE DEF written, chosen, d, drawing
  <2>9. /\ cleared = [u \in Target |->
                        IF u = "selection" THEN [drawn |-> {}, depth |-> TRUE] ELSE image[u]]
    BY <1>0 DEF Images, Cleared, Target
  <2> HIDE DEF cleared
  <2>10. cleared["selection"] = [drawn |-> {}, depth |-> TRUE]
    BY <2>9 DEF Target
  <2>11. d = [by |-> "mask", area |-> "window", depth |-> TRUE, camera |-> camera, object |-> selected]
    <3>1. Uniform(bound, written, 0) = camera /\ Uniform(bound, written, 1) = selected
      BY <2>6, <2>8 DEF Uniform
    <3>2. d = MaskDraw(bound, written, cleared["selection"].depth)
      BY DEF d
    <3>3. cleared["selection"].depth = TRUE
      BY <2>10
    <3> HIDE DEF MaskDraw
    <3>4. d = [by |-> "mask", area |-> bound.viewport, depth |-> cleared["selection"].depth,
               camera |-> Uniform(bound, written, 0), object |-> Uniform(bound, written, 1)]
      BY <3>2, Zenon DEF MaskDraw
    <3> QED BY <2>6, <3>1, <3>3, <3>4
  <2>12. MaskDrawn = {d}
    <3>1. {x \in Entity : x = selected /\ scene[x] = "whole"} = {selected}
      BY <1>2 DEF chosen
    <3> QED BY <2>11, <3>1 DEF MaskDrawn
  <2>13. /\ image'["selection"].drawn = {d}
         /\ image'["scene"] = image["scene"] /\ image'["postprocess"] = image["postprocess"]
    BY <2>2, <2>9 DEF Target
  <2>14. BakedSoFar' /\ baked'.panorama = baked.panorama
    BY <1>0, <1>1, BakedKept DEF VInv, Passes
  <2>15. DrawnSoFar'
    BY <1>0, <1>1, <2>12, <2>13, DrawsKept DEF DrawnSoFar
  <2>16. ReadyForPass'
    BY <1>1, <2>1, <2>4, <2>7, <2>8 DEF ReadyForPass
  <2> QED BY <2>13, <2>14, <2>15, <2>16 DEF FrameInv, SameTexture
<1>3. CASE ~chosen
  <2>1. /\ uniforms' = uniforms /\ bind' = unbindFramebuffer(target) /\ pipe' = pipe
        /\ image' = cleared
    BY <1>3 DEF selectionPass
  <2>2. IsContext(target)
    BY <1>0, FramebufferSet DEF Target
  <2> HIDE DEF target
  <2>3. IsContext(bind')
    BY <2>1, <2>2, FramebufferUnset
  <2>4. MaskDrawn = {}
    BY <1>3 DEF MaskDrawn
  <2> HIDE DEF chosen, d, written, drawing
  <2>5. /\ image'["selection"].drawn = {}
        /\ image'["scene"] = image["scene"] /\ image'["postprocess"] = image["postprocess"]
    BY <1>0, <2>1, ClearedTarget DEF Target
  <2>6. BakedSoFar' /\ baked'.panorama = baked.panorama
    BY <1>0, <1>1, BakedKept DEF VInv, Passes
  <2>7. DrawnSoFar'
    BY <1>0, <1>1, <2>4, <2>5, DrawsKept DEF DrawnSoFar
  <2>8. ReadyForPass'
    BY <1>0, <1>1, <2>1, <2>3 DEF ReadyForPass, Passes
  <2> QED BY <2>5, <2>6, <2>7, <2>8 DEF FrameInv, SameTexture
<1> QED BY <1>2, <1>3

\* What the outline pass has drawn from shows the scene of this moment.
LEMMA SeenIsFrame ==
  ASSUME wireframe \in BOOLEAN, NEW p, p.texelSize = "texelSize", p.area = "window",
         p.scene.drawn = MeshesDrawn \cup {SkyDrawn}, p.selection.drawn = MaskDrawn
  PROVE  Sound(p) /\ Seen(p) = Shown!Frame
<1>1. \A d \in MeshesDrawn : d.by = "pbr"
  BY DEF MeshesDrawn, MeshDrawn
<1>2. SkyDrawn.by = "skybox"
  BY DEF SkyDrawn
<1>3. MeshDraws(p.scene) = MeshesDrawn /\ SkyDraws(p.scene) = {SkyDrawn}
  BY <1>1, <1>2 DEF MeshDraws, SkyDraws
<1>4. Sound(p)
  <2>1. \A d \in MeshesDrawn :
          /\ d.by = "pbr" /\ d.area = "window" /\ d.depth
          /\ d.material = "pbrMaterial" /\ d.lights = "lights"
          /\ d.brdf = "lut" /\ d.irradiance = d.prefilter
    BY DEF MeshesDrawn, MeshDrawn
  <2>2. SkyDrawn.area = "window" /\ SkyDrawn.depth
    BY DEF SkyDrawn
  <2>3. \A d \in MaskDrawn : d.by = "mask" /\ d.area = "window" /\ d.depth
    BY DEF MaskDrawn
  <2> QED BY <1>2, <2>1, <2>2, <2>3 DEF Sound
<1>5. {[object |-> d.object, camera |-> d.camera, light |-> d.irradiance,
        wire |-> d.raster = "Wireframe"] : d \in MeshesDrawn}
      = {Shown!Mesh(e) : e \in {x \in Entity : scene[x] = "whole"}}
  <2> DEFINE Shape(d) == [object |-> d.object, camera |-> d.camera, light |-> d.irradiance,
                          wire |-> d.raster = "Wireframe"]
  <2>1. ASSUME NEW e PROVE Shape(MeshDrawn(e)) = Shown!Mesh(e)
    <3>1. /\ MeshDrawn(e).object = e /\ MeshDrawn(e).camera = camera
          /\ MeshDrawn(e).irradiance = baked.panorama
          /\ (MeshDrawn(e).raster = "Wireframe") = wireframe
      BY DEF MeshDrawn
    <3> QED BY <3>1 DEF Shown!Mesh
  <2>2. MeshesDrawn = {MeshDrawn(e) : e \in {x \in Entity : scene[x] = "whole"}}
    BY DEF MeshesDrawn
  <2> HIDE DEF Shape
  <2>3. {Shape(d) : d \in MeshesDrawn} = {Shown!Mesh(e) : e \in {x \in Entity : scene[x] = "whole"}}
    BY <2>1, <2>2
  <2> QED BY <2>3 DEF Shape
<1>6. {[camera |-> d.camera, light |-> d.environment] : d \in {SkyDrawn}}
      = {[camera |-> camera, light |-> baked.panorama]}
  BY DEF SkyDrawn
<1>7. {[object |-> d.object, camera |-> d.camera] : d \in MaskDrawn}
      = {[object |-> e, camera |-> camera] : e \in {x \in Entity : x = selected /\ scene[x] = "whole"}}
  <2> DEFINE Mask(e) == [by |-> "mask", area |-> "window", depth |-> TRUE, camera |-> camera,
                         object |-> e]
             Outline(d) == [object |-> d.object, camera |-> d.camera]
  <2>1. \A e : Outline(Mask(e)) = [object |-> e, camera |-> camera]
    OBVIOUS
  <2>2. MaskDrawn = {Mask(e) : e \in {x \in Entity : x = selected /\ scene[x] = "whole"}}
    BY DEF MaskDrawn
  <2> HIDE DEF Mask, Outline
  <2>3. {Outline(d) : d \in MaskDrawn}
        = {[object |-> e, camera |-> camera] : e \in {x \in Entity : x = selected /\ scene[x] = "whole"}}
    BY <2>1, <2>2
  <2> QED BY <2>3 DEF Outline
<1> QED BY <1>3, <1>4, <1>5, <1>6, <1>7 DEF Seen, Shown!Frame

\* The outline pass makes the texture a picture of this moment.
LEMMA PostprocessingView ==
  ASSUME VInv, postprocessingPass
  PROVE  FrameInv' /\ Shown!Render
<1>0. /\ IInv /\ Images /\ IsContext(bind) /\ ReadyForPass /\ DrawnSoFar
      /\ pc = "postprocessing" /\ wireframe \in BOOLEAN
  BY DEF VInv, WInv, FrameInv, ReadyForPass, postprocessingPass, Goes
<1> DEFINE specs  == [BakingSpecs EXCEPT !.blendMode = "AlphaBlend"]
           f == bindFramebuffer(bind, "postprocess", "window")
           target == bindUBO(f, 0, "outline")
           one == bindShaderTexture(target, 10, "scene")
           bound == bindShaderTexture(one, 11, "selection")
           written == [uniforms EXCEPT !["outline"] = "texelSize"]
           d == OutlineDraw(bound, written)
<1>1. /\ pc' = "gui" /\ pipe' = setRenderPassSpecs(setRenderPassSpecs(pipe, specs), DefaultSpecs)
      /\ uniforms' = written /\ bind' = unbindFramebuffer(bound)
      /\ image' = [image EXCEPT !["postprocess"].drawn = {d}]
      /\ baked' = baked /\ UNCHANGED input
  BY DEF postprocessingPass, Goes
<1>2. specs \in RenderPassSpecs
  BY DEF BakingSpecs, DefaultSpecs, RenderPassSpecs
<1> HIDE DEF specs
<1>3. pipe'.state.depthWrite = TRUE
  BY <1>0, <1>1, <1>2, PassState
<1>4. IsContext(f) /\ f.viewport = "window"
  BY <1>0, FramebufferSet DEF Target
<1> HIDE DEF f
<1>5. IsContext(target) /\ target.viewport = "window" /\ target.ubo[0] = "outline"
  BY <1>4, BufferSet DEF Slot
<1> HIDE DEF target
<1>6. /\ IsContext(one) /\ one.viewport = "window" /\ one.ubo = target.ubo
      /\ one.flat[10] = "scene"
  BY <1>5, FlatSet DEF Unit
<1> HIDE DEF one
<1>7. /\ IsContext(bound) /\ bound.viewport = "window" /\ bound.ubo = target.ubo
      /\ bound.flat[10] = "scene" /\ bound.flat[11] = "selection"
  BY <1>6, FlatSet DEF Unit
<1> HIDE DEF bound
<1>8. /\ written = [b \in Buffer |-> written[b]] /\ written["outline"] = "texelSize"
      /\ written["material"] = "pbrMaterial"
  BY <1>0 DEF ReadyForPass, Passes, Buffer
<1> HIDE DEF written
<1>9. /\ d.by = "outline" /\ d.area = "window" /\ d.texelSize = "texelSize"
      /\ d.scene = image["scene"] /\ d.selection = image["selection"]
  BY <1>5, <1>7, <1>8 DEF OutlineDraw, Uniform
<1> HIDE DEF d
<1>10. Sound(d) /\ Seen(d) = Shown!Frame
  BY <1>0, <1>9, SeenIsFrame DEF DrawnSoFar
<1>11. image'["postprocess"].drawn = {d}
  BY <1>0, <1>1 DEF Images, IsImage, Target
<1>12. Picture' = Shown!Frame
  BY <1>9, <1>10, <1>11, OnePicture
<1>13. IsContext(bind')
  BY <1>1, <1>7, FramebufferUnset
<1>14. BakedSoFar' /\ baked'.panorama = baked.panorama
  BY <1>0, <1>1, BakedKept DEF VInv, Passes
<1>15. FrameInv'
  BY <1>1, <1>3, <1>8, <1>13, <1>14 DEF FrameInv, ReadyForPass, DrawnSoFar
<1> QED BY <1>1, <1>12, <1>14, <1>15 DEF Shown!Render, input

\* The GUI does not touch the texture.
LEMMA EndFrameView ==
  ASSUME VInv, EndFrame
  PROVE  FrameInv' /\ SameTexture
<1>0. /\ IInv /\ Images /\ bind.fbo = "window" /\ pc = "gui" /\ ReadyForPass
  BY DEF VInv, WInv, Bound, FrameInv, EndFrame, Goes
<1>1. /\ pc' = "windowClear" /\ pipe' = pipe /\ bind' = bind /\ uniforms' = uniforms
      /\ baked' = baked /\ image' = Onto("window", {[by |-> "gui"]})
  BY <1>0, GuiLeavesNoTrace DEF EndFrame, Goes, IInv
<1>2. image'["postprocess"] = image["postprocess"]
  BY <1>0, <1>1, DrawnOnto DEF Target
<1>3. BakedSoFar' /\ baked'.panorama = baked.panorama
  BY <1>0, <1>1, BakedKept DEF VInv, Passes
<1>4. ReadyForPass'
  BY <1>0, <1>1 DEF ReadyForPass, Passes
<1> QED BY <1>1, <1>2, <1>3, <1>4 DEF FrameInv, DrawnSoFar, SameTexture

\* An edit and a frame that aborts leave the texture as it is.
LEMMA EditView ==
  ASSUME VInv, geometryPassAborts \/ Edit
  PROVE  FrameInv' /\ SameTexture /\ wireframe' \in BOOLEAN
<1>0. ReadyForPass /\ BakedSoFar /\ wireframe \in BOOLEAN /\ pc \in Passes
  BY DEF VInv, FrameInv, geometryPassAborts, Edit, editScene, onSceneObjectSelected,
         onEnableWireFrame, moveCamera, Goes, Passes
<1>1. UNCHANGED <<pipe, bind, uniforms, image, baked>>
  BY DEF geometryPassAborts, Edit, editScene, onSceneObjectSelected, onEnableWireFrame,
         moveCamera, gl
<1>2. \/ pc' = "aborted"
      \/ pc = "gui" /\ pc' = "gui"
  BY DEF geometryPassAborts, Edit, editScene, onSceneObjectSelected, onEnableWireFrame,
         moveCamera, Goes
<1>3. wireframe' \in BOOLEAN
  BY <1>0 DEF geometryPassAborts, Edit, editScene, onSceneObjectSelected, onEnableWireFrame,
              moveCamera, input
<1>4. BakedSoFar'
  BY <1>0, <1>1, <1>2 DEF BakedSoFar, Passes
<1>5. ReadyForPass'
  BY <1>0, <1>1, <1>2 DEF ReadyForPass, Passes
<1> QED BY <1>1, <1>2, <1>3, <1>4, <1>5 DEF FrameInv, DrawnSoFar, SameTexture

\* A step that leaves the texture alone leaves the picture alone.
LEMMA TextureKept == SameTexture => Shown!Edit
BY SamePicture DEF SameTexture, Shown!Edit

\* Before the first frame the texture shows nothing.
LEMMA InitView == Init => VInv /\ Shown!Init
<1> SUFFICES ASSUME Init PROVE VInv /\ Shown!Init
  OBVIOUS
<1>1. IInv /\ WInv /\ wireframe \in BOOLEAN
  BY InitCoherent, InitWindow DEF Init
<1>2. BakedSoFar
  BY DEF Init, BakedSoFar
<1>3. bind = NothingBound /\ IsContext(NothingBound)
  BY DEF Init, NothingBound, IsContext, IsBind, Target, Unit
<1>4. /\ uniforms = [b \in Buffer |-> uniforms[b]]
      /\ pipe.state.depthWrite = TRUE
  BY DEF Init, Buffer, ContextCreated, DefaultSpecs
<1>5. ReadyForPass
  BY <1>3, <1>4 DEF Init, ReadyForPass, Passes
<1>6. DrawnSoFar
  BY DEF Init, DrawnSoFar
<1>7. image["postprocess"].drawn = {}
  BY DEF Init, Target
<1>8. Shown!Init
  BY <1>7 DEF Shown!Init, Picture, Garbled
<1> QED BY <1>1, <1>2, <1>5, <1>6, <1>8 DEF VInv, FrameInv

\* Every step of start and of a frame shows a new frame or leaves the texture.
LEMMA StepView == VInv /\ [Next]_vars => VInv' /\ [Shown!Render \/ Shown!Edit]_(Shown!vars)
<1> SUFFICES ASSUME VInv, [Next]_vars
             PROVE  VInv' /\ [Shown!Render \/ Shown!Edit]_(Shown!vars)
  OBVIOUS
<1>0. IInv' /\ WInv' /\ wireframe \in BOOLEAN
  BY NextCoherent, NextWindow DEF VInv
<1>1. ASSUME start PROVE FrameInv' /\ SameTexture /\ wireframe' = wireframe
  <2>1. wireframe' = wireframe
    BY <1>1 DEF start, ConvertEquirectangularToCubemap, irradianceCubemapBaking,
                prefilterCubemapBaking, brdfLUTBaking, createMaterials, input
  <2> QED BY <1>1, <2>1, ConvertView, IrradianceView, PrefilterView, LutView, MaterialsView
             DEF start
<1>2. ASSUME \/ windowClearPass \/ scenePassBegin \/ geometryPass \/ proceduralPass \/ vfxPass
             \/ scenePassEndResolve \/ selectionPass \/ EndFrame
      PROVE  FrameInv' /\ SameTexture /\ wireframe' = wireframe
  <2>1. wireframe' = wireframe
    BY <1>2 DEF windowClearPass, scenePassBegin, geometryPass, proceduralPass, vfxPass,
                scenePassEndResolve, selectionPass, EndFrame, input
  <2> QED BY <1>2, <2>1, WindowClearView, SceneBeginView, GeometryView, ProceduralView,
             VfxView, ResolveView, SelectionView, EndFrameView
<1>3. ASSUME postprocessingPass
      PROVE  FrameInv' /\ Shown!Render /\ wireframe' = wireframe
  BY <1>3, PostprocessingView DEF postprocessingPass, input
<1>4. ASSUME geometryPassAborts \/ Edit
      PROVE  FrameInv' /\ SameTexture /\ wireframe' \in BOOLEAN
  BY <1>4, EditView
<1>5. ASSUME UNCHANGED vars
      PROVE  FrameInv' /\ SameTexture /\ wireframe' = wireframe
  BY <1>5 DEF vars, VInv, FrameInv, BakedSoFar, ReadyForPass, DrawnSoFar, SameTexture,
              MeshesDrawn, MeshDrawn, SkyDrawn, MaskDrawn
<1>6. \/ FrameInv' /\ SameTexture /\ wireframe' \in BOOLEAN
      \/ FrameInv' /\ Shown!Render /\ wireframe' \in BOOLEAN
  BY <1>0, <1>1, <1>2, <1>3, <1>4, <1>5 DEF Next, update
<1> QED BY <1>0, <1>6, TextureKept DEF VInv

\* The texture handed to the viewport panel always shows one whole frame, of a
\* single moment: every drawable entity once at its own place, under the same
\* camera and the lighting baked from the panorama, solid or wireframe as last
\* asked, the sky and the silhouette of the selected entity, whatever the scene,
\* its edits and the state that passes and ImGui leave in GL.
THEOREM FrameIsShown == Spec => ImplementsViewport
<1>1. Init => Shown!Init
  BY InitView
<1> QED BY InitView, <1>1, StepView, PTL DEF Spec, ImplementsViewport, Shown!Spec
=============================================================================
