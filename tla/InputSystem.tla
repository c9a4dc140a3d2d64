----------------------------- MODULE InputSystem -----------------------------
(***************************************************************************)
(* InputSystem of input/: the table of held keys, kept by key events, and  *)
(* the editor's Ctrl+Z (editor.cpp), which asks the table when a Z comes   *)
(* down.                                                                   *)
(*                                                                         *)
(* An event names the key by its place on the keyboard (the scancode) and  *)
(* by the letter the user's layout puts there, if any. The table has one   *)
(* entry per Keycode, and several keys may come to one. A window that      *)
(* loses the focus gets a key up for each key held, from SDL.              *)
(***************************************************************************)
EXTENDS Integers

CONSTANTS
  Keys,       \* the keys of the keyboard
  Scancode,   \* SDL_Scancode of each
  Letter,     \* 1 .. 26 for a key that types a letter, 0 for another
  NoKey

A == 4                            \* Keycode::A
Z == 29
Controls == {224, 228}            \* LeftControl, RightControl
Count == 231
Unknown == 0

Keycode == 0 .. Count - 1

ASSUME KeyboardAssumption ==
  /\ Scancode \in [Keys -> 0 .. 511]
  /\ Letter \in [Keys -> 0 .. 26]
  /\ NoKey \notin Keys

\* A cast to an enum of eight bits, with no look at what it drops.
ScancodeCast(k) == Scancode[k] % 256

\* A defect: the letters of the layout are not looked at.
scancodeToAndromeda(k) == IF ScancodeCast(k) < Count THEN ScancodeCast(k) ELSE Unknown

\* A defect: no bound on the code, so that the table is written beyond its end.
sdlKeyToAndromedaUnbounded(k) ==
  IF Letter[k] # 0 THEN A + Letter[k] - 1 ELSE ScancodeCast(k)

sdlKeyToAndromeda(k) ==
  IF Letter[k] # 0 THEN A + Letter[k] - 1
  ELSE IF ScancodeCast(k) < Count THEN ScancodeCast(k)
  ELSE Unknown

VARIABLES
  pressed,    \* the keys the user holds, as the window has been told
  keyStates,  \* the entries of s_keyStates that are true
  undone      \* the key whose event undid a command, or NoKey

keyVars == <<pressed, keyStates, undone>>

KeyInit ==
  /\ pressed = {}
  /\ keyStates = {}
  /\ undone = NoKey

isKeyHeld(c) == c \in keyStates'

\* A defect: the Z is looked for at its American place.
OnKeyDownByPlace(k) ==
  undone' = IF scancodeToAndromeda(k) = Z /\ \E c \in Controls : isKeyHeld(c)
            THEN k ELSE NoKey

\* The listener of KeyDown in Editor::start.
OnKeyDown(k) ==
  undone' = IF sdlKeyToAndromeda(k) = Z /\ \E c \in Controls : isKeyHeld(c)
            THEN k ELSE NoKey

KeyDown(k) ==
  /\ k \notin pressed
  /\ pressed' = pressed \cup {k}
  /\ keyStates' = keyStates \cup {sdlKeyToAndromeda(k)}
  /\ OnKeyDown(k)

\* The keyboard repeats a key that is held: no KeyDown is dispatched.
KeyRepeat(k) ==
  /\ k \in pressed
  /\ keyStates' = keyStates \cup {sdlKeyToAndromeda(k)}
  /\ undone' = NoKey
  /\ UNCHANGED pressed

\* A defect: a key that comes up is looked up by its place alone.
KeyUpByPlace(k) ==
  /\ k \in pressed
  /\ pressed' = pressed \ {k}
  /\ keyStates' = keyStates \ {scancodeToAndromeda(k)}
  /\ undone' = NoKey

\* Also what loss of focus does to each key held, one after the other.
KeyUp(k) ==
  /\ k \in pressed
  /\ pressed' = pressed \ {k}
  /\ keyStates' = keyStates \ {sdlKeyToAndromeda(k)}
  /\ undone' = NoKey

KeyNext == \E k \in Keys : KeyDown(k) \/ KeyRepeat(k) \/ KeyUp(k)

KeySpec == KeyInit /\ [][KeyNext]_keyVars

-----------------------------------------------------------------------------
TypeOK ==
  /\ pressed \subseteq Keys
  /\ keyStates \subseteq Keycode
  /\ undone \in Keys \cup {NoKey}

\* The table tells which keys are held (input_manager.hpp, isKeyHeld), whatever
\* order the keys of a chord come up in: an entry but Unknown is true only while
\* one of its keys is down, and is true while a key is down that has the entry
\* for itself. Of two keys of one entry, the one that comes up clears it for both.
HeldExactly ==
  /\ keyStates \ {Unknown} \subseteq {sdlKeyToAndromeda(k) : k \in pressed}
  /\ \A k \in pressed :
       \/ sdlKeyToAndromeda(k) \in keyStates \cup {Unknown}
       \/ \E l \in Keys \ {k} : sdlKeyToAndromeda(l) = sdlKeyToAndromeda(k)

\* What a key without a letter is taken for: its scancode, cut to eight bits.
TakenFor(k, codes) == Letter[k] = 0 /\ Scancode[k] % 256 \in codes

\* A command is undone only by a key that types a z, or one without a letter that
\* is taken for the Z (the browser's refresh key, 285, is one), while a key that
\* is taken for a Control is really down, not just remembered as held.
UndoMeant ==
  undone # NoKey =>
    /\ Letter[undone] = 26 \/ TakenFor(undone, {Z})
    /\ \E k \in pressed : TakenFor(k, Controls)
=============================================================================
