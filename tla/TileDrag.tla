------------------------------ MODULE TileDrag ------------------------------
(***************************************************************************)
(* Dragging a model from the browser into the scene: BrowserPanel and the  *)
(* picking ray of Editor::update. A frame first takes the ray from where   *)
(* the mouse was in the last frame, then ImGui moves the mouse, then the   *)
(* browser draws its tiles, before the viewport.                           *)
(*                                                                         *)
(* The mouse is in one of a few places; one tile stands for all, as none   *)
(* but the active one does anything.                                       *)
(***************************************************************************)
EXTENDS FiniteSets

CONSTANTS
  Ground,     \* places of the viewport where the ray meets the plane y = 0
  Sky,        \* places of the viewport where it does not
  Elsewhere,  \* places in other panels
  Tile,       \* the place of the tile
  Floating,   \* whether the browser floats over the viewport, or is docked
  Nowhere     \* lastHitPoint before the first hit

Places == Ground \cup Sky \cup Elsewhere \cup {Tile}

VARIABLES
  mouse,            \* ImGui::GetMousePos
  active,           \* whether the tile is held
  dragging,         \* whether the mouse has left its place since the press
  lastHitPoint,     \* EditorContext's state: the place of the last hit
  hasLastHitpoint,
  added,            \* where this frame has added an entity, or Nowhere
  trail             \* history: the places this press was dragged over

vars == <<mouse, active, dragging, lastHitPoint, hasLastHitpoint, added, trail>>

Init ==
  /\ mouse \in Places
  /\ active = FALSE /\ dragging = FALSE
  /\ lastHitPoint = Nowhere /\ hasLastHitpoint = FALSE
  /\ added = Nowhere
  /\ trail = {}

\* updatePickingRay asks whether the mouse is within the viewport's rectangle.
hasValidPickRay == mouse \in Ground \cup Sky \cup IF Floating THEN {Tile} ELSE {}

RayIntersectsXZPlane == mouse \in Ground \cup {Tile}

\* A defect: a drag that leaves the ground keeps the last hit.
dragTileKeeping ==
  /\ hasLastHitpoint' = (hasLastHitpoint \/ (hasValidPickRay /\ RayIntersectsXZPlane))
  /\ lastHitPoint' = IF hasValidPickRay /\ RayIntersectsXZPlane THEN mouse ELSE lastHitPoint

dragTile ==
  /\ hasLastHitpoint' = (hasValidPickRay /\ RayIntersectsXZPlane)
  /\ lastHitPoint' = IF hasLastHitpoint' THEN mouse ELSE lastHitPoint

dropTile ==
  added' = IF hasValidPickRay /\ hasLastHitpoint THEN lastHitPoint ELSE Nowhere

\* A frame in which the left button goes down over the tile.
Press ==
  /\ ~active
  /\ mouse' = Tile
  /\ active' = TRUE
  /\ dragging' = FALSE
  /\ added' = Nowhere
  /\ trail' = {}
  /\ UNCHANGED <<lastHitPoint, hasLastHitpoint>>

\* The tile is held; ImGui's IsMouseDragging stays true once it is.
Hold(place) ==
  /\ active
  /\ mouse' = place
  /\ dragging' = (dragging \/ place # Tile)
  /\ IF dragging' THEN dragTile ELSE UNCHANGED <<lastHitPoint, hasLastHitpoint>>
  /\ added' = Nowhere
  /\ trail' = IF dragging' THEN trail \cup {mouse, place} ELSE trail
  /\ UNCHANGED active

\* The tile is no longer active: dragEnded, whether there was a drag or not.
Release(place) ==
  /\ active
  /\ mouse' = place
  /\ active' = FALSE
  /\ dropTile
  /\ UNCHANGED <<dragging, lastHitPoint, hasLastHitpoint, trail>>

Move(place) ==
  /\ ~active
  /\ mouse' = place
  /\ added' = Nowhere
  /\ UNCHANGED <<active, dragging, lastHitPoint, hasLastHitpoint, trail>>

Next == Press \/ \E place \in Places : Hold(place) \/ Release(place) \/ Move(place)

Spec == Init /\ [][Next]_vars

-----------------------------------------------------------------------------
\* An entity is added where the drag that ended here has been, and nowhere
\* without one ("Was the drag operation released this frame?",
\* a_BrowserPanel.hpp, dragEnded): what an earlier drag left in the context
\* does not count.
AddedByDrag == added # Nowhere => added \in trail
=============================================================================
