-------------------------- MODULE SubsystemManager --------------------------
(***************************************************************************)
(* The frame clock of SystemManager and the one consumer of its delta time *)
(* that keeps a sum of it, the editor's camera.  The performance counter   *)
(* has 64 bits, the variable it is read into 32: here 2*Width and Width.   *)
(***************************************************************************)
EXTENDS Naturals

CONSTANTS
  Width,    \* 32 in the code
  Horizon   \* bound on the counter, below 2^(2*Width): it does not wrap itself

VARIABLES
  counter,      \* what SDL_GetPerformanceCounter returns
  lastCounter,  \* SystemManager::lastCounter
  deltaTime,    \* SystemManager::s_deltaTime, in ticks of the counter
  camera,       \* how far the camera has moved, at speed 1
  lastFrame,    \* history: the counter at the last frame
  held          \* history: the length of the frames with a movement key held

vars == <<counter, lastCounter, deltaTime, camera, lastFrame, held>>

Low(n) == n % 2^Width
Minus(m, n) == (m + 2^(2 * Width) - n) % 2^(2 * Width)

\* A machine may have been up for any time when the program is loaded.
Init ==
  /\ counter \in 0 .. Horizon
  /\ lastCounter = counter
  /\ deltaTime = 0
  /\ camera = 0
  /\ lastFrame = counter
  /\ held = 0

Elapse ==
  /\ counter < Horizon
  /\ counter' = counter + 1
  /\ UNCHANGED <<lastCounter, deltaTime, camera, lastFrame, held>>

\* Each frame the clock is read first; the editor's update moves the camera.
updateSubsystems(moving) ==
  /\ deltaTime' = Minus(Low(counter), lastCounter)
  /\ lastCounter' = Low(counter)
  /\ camera' = IF moving THEN camera + deltaTime' ELSE camera
  /\ lastFrame' = counter
  /\ held' = IF moving THEN held + (counter - lastFrame) ELSE held
  /\ UNCHANGED counter

Next == Elapse \/ \E moving \in BOOLEAN : updateSubsystems(moving)

Spec == Init /\ [][Next]_vars

-----------------------------------------------------------------------------
\* The delta time is kept for "frame-independent calculations"
\* (a_subsystem_manager.hpp:22): however the time a key is held is cut into
\* frames, the camera has moved by that time.
FrameIndependent == camera = held
=============================================================================
