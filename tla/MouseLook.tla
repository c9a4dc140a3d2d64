------------------------------ MODULE MouseLook ------------------------------
(***************************************************************************)
(* Looking around with the right mouse button: Editor::cameraMovement      *)
(* takes the mouse from the desktop (relative mode) and gives it back, by  *)
(* the button as SDL has it now; ViewportPanel lets the camera turn, by    *)
(* the button as ImGui has come to see it, which is a frame or more later. *)
(*                                                                         *)
(* ImGui and SDL are external: ImGui queues the changes of the button and  *)
(* takes at most one a frame; which window has the focus, and whether the  *)
(* viewport is in front of its dock, may change at any time.               *)
(***************************************************************************)
EXTENDS Naturals, Sequences

CONSTANT MaxQueue   \* bound on the changes of the button that ImGui has not taken

VARIABLES
  down,             \* the right button: SDL_GetMouseState
  queue,            \* its changes that wait for ImGui
  seen,             \* the button as ImGui has it
  canRotate,        \* CameraData::canRotate
  wasDown,          \* cameraMovement's wasRightMouseDown
  relative,         \* whether SDL hides the cursor and keeps it in the window
  focused,          \* whether ImGui's focus is in the viewport
  visible,          \* whether Begin("Viewport") returns true
  viewportFocused,  \* EditorContext's copy of focused
  strayed,          \* history: the focus changed during this drag, or the last one
  missed            \* history: a press in relative mode was not the viewport's

windows == <<focused, visible, viewportFocused>>
vars == <<down, queue, seen, canRotate, wasDown, relative, windows, strayed, missed>>

Init ==
  /\ down = FALSE /\ queue = <<>> /\ seen = FALSE
  /\ canRotate = FALSE /\ wasDown = FALSE /\ relative = FALSE
  /\ focused \in BOOLEAN /\ visible = TRUE /\ viewportFocused = FALSE
  /\ strayed = FALSE /\ missed = FALSE

\* The user presses or releases the button; SDL's event goes to ImGui.
Button ==
  /\ Len(queue) < MaxQueue
  /\ down' = ~down
  /\ queue' = Append(queue, down')
  /\ UNCHANGED <<seen, canRotate, wasDown, relative, windows, strayed, missed>>

\* A click on another window, a click on a tab, or Ctrl+Tab.
UseWindows(f, v) ==
  /\ f => v
  /\ <<f, v>> # <<focused, visible>>
  /\ focused' = f /\ visible' = v
  /\ strayed' = (strayed \/ canRotate \/ relative)
  /\ UNCHANGED <<down, queue, seen, canRotate, wasDown, relative, viewportFocused, missed>>

\* A defect: the mouse is taken and given back by what the panel allows.
cameraMovementWhileDown ==
  IF viewportFocused /\ canRotate /\ down
  THEN wasDown' = down /\ relative' = TRUE
  ELSE UNCHANGED <<wasDown, relative>>

\* Editor::update: the first part of the frame.
cameraMovement ==
  IF viewportFocused /\ canRotate
  THEN /\ wasDown' = down
       /\ relative' = IF down # wasDown THEN down ELSE relative
  ELSE UNCHANGED <<wasDown, relative>>

\* A defect: the release counts only over the viewport.
handleViewportInputHovered(clicked, released, hovered) ==
  canRotate' = ((canRotate \/ (hovered /\ clicked)) /\ ~(hovered /\ released))

\* ImGui::IsWindowHovered(), of a window that is drawn. The hidden cursor of the
\* relative mode moves on, and may be over the toolbar in the viewport, which is
\* a window of its own, or over another panel.
MayHover(hovered) == hovered => visible

handleViewportInput(clicked, released, hovered) ==
  canRotate' = ((canRotate \/ (hovered /\ clicked)) /\ ~(visible /\ released))

\* A frame: the camera, ImGui's next event if it comes to it, the viewport. A
\* hidden viewport does none of it, and its copy of the focus stays as it was.
Frame(takes, hovered) ==
  LET clicked == takes /\ Head(queue)
      released == takes /\ ~Head(queue)
  IN /\ takes => queue # <<>>
     /\ cameraMovement
     /\ MayHover(hovered)
     /\ handleViewportInput(clicked, released, hovered)
     /\ seen' = IF takes THEN clicked ELSE seen
     /\ queue' = IF takes THEN Tail(queue) ELSE queue
     /\ focused' = (focused \/ (hovered /\ clicked))
     /\ viewportFocused' = IF visible THEN focused' ELSE viewportFocused
     /\ strayed' = (strayed /\ ~(hovered /\ clicked))
     /\ missed' = IF clicked THEN relative' /\ ~hovered ELSE missed
     /\ UNCHANGED <<down, visible>>

Next ==
  \/ Button
  \/ \E f, v \in BOOLEAN : UseWindows(f, v)
  \/ \E takes, hovered \in BOOLEAN : Frame(takes, hovered)

\* Frames follow one another, and ImGui comes to each event in the end.
Fairness == WF_vars(\E hovered \in BOOLEAN : Frame(queue # <<>>, hovered))

Spec == Init /\ [][Next]_vars /\ Fairness

-----------------------------------------------------------------------------
\* The camera turns with the mouse, and moves with the keys, only as long as
\* ImGui has the button down: no click or release is missed, if the focus
\* stays in the viewport during the drag.
RotatesInDrag == canRotate => seen \/ strayed

\* Once the button is up the desktop gets its mouse back, or the button goes down
\* again, however quick or often it was used. Two things excepted, after which
\* it takes one more drag in the viewport: the focus changed during the drag; or
\* the button came up and went down between two frames and ImGui took the second
\* press with the hidden cursor off the viewport, so that nothing looks at the
\* button any more.
GivenBack == relative /\ ~down ~> ~relative \/ down \/ strayed \/ missed
=============================================================================
