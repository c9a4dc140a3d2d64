------------------------------ MODULE UserInput ------------------------------
(***************************************************************************)
(* What the editor makes of the user's hands: the keyboard's events, the   *)
(* right mouse button for looking around and the left one for dragging a   *)
(* tile. SDL's events come between the frames; a frame moves the camera,   *)
(* then lets ImGui take the mouse, then draws browser and viewport.        *)
(***************************************************************************)
EXTENDS InputSystem, Sequences

CONSTANTS MaxQueue, Ground, Sky, Elsewhere, Tile, Floating, Nowhere

\* The tile is in the browser; only a browser that floats can be over the viewport.
ASSUME PlacesAssumption == Tile \notin Ground \cup Sky

VARIABLES
  down, queue, seen, canRotate, wasDown, relative, focused, visible, viewportFocused, strayed,
  missed, mouse, active, dragging, lastHitPoint, hasLastHitpoint, added, trail

lookVars == <<down, queue, seen, canRotate, wasDown, relative, focused, visible,
              viewportFocused, strayed, missed>>
tileVars == <<mouse, active, dragging, lastHitPoint, hasLastHitpoint, added, trail>>
inputVars == <<keyVars, lookVars, tileVars>>

Look == INSTANCE MouseLook
Tiles == INSTANCE TileDrag

InputInit == KeyInit /\ Look!Init /\ Tiles!Init

Keyboard == KeyNext /\ UNCHANGED <<lookVars, tileVars>>

RightButton == Look!Button /\ UNCHANGED <<keyVars, tileVars>>

Windows ==
  /\ \E f, v \in BOOLEAN : Look!UseWindows(f, v)
  /\ UNCHANGED <<keyVars, tileVars>>

\* Editor::update.
EditorFrame(takes, hovered) ==
  /\ Look!Frame(takes, hovered)
  /\ Tiles!Next
  /\ UNCHANGED keyVars

InputNext ==
  \/ Keyboard
  \/ RightButton
  \/ Windows
  \/ \E takes, hovered \in BOOLEAN : EditorFrame(takes, hovered)

\* Frames follow one another, and ImGui comes to each event in the end.
InputFairness ==
  WF_inputVars(\E hovered \in BOOLEAN : EditorFrame(queue # <<>>, hovered))

InputSpec == InputInit /\ [][InputNext]_inputVars /\ InputFairness

-----------------------------------------------------------------------------
\* Looking around only in a drag (MouseLook, RotatesInDrag), whatever the other
\* button does.
RotatesInDrag == Look!RotatesInDrag

\* The mouse is given back after it (MouseLook, GivenBack).
GivenBack == Look!GivenBack

\* An entity is added only by a drag, where it has been (TileDrag, AddedByDrag),
\* also when the camera is turned in the middle of it.
AddedByDrag == Tiles!AddedByDrag
=============================================================================
