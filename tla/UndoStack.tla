----------------------------- MODULE UndoStack -----------------------------
(***************************************************************************)
(* What the undo history promises the editor: the last MaxUndoSteps        *)
(* commands, most recent first out, each handed to the dispatcher exactly  *)
(* as it was pushed.                                                       *)
(***************************************************************************)
EXTENDS Naturals, Sequences

CONSTANTS
  Command,       \* the commands that can be pushed
  MaxUndoSteps,  \* commands kept before the oldest is forgotten
  NoCommand      \* nothing was dispatched

VARIABLES
  history,     \* the commands, oldest first
  dispatched   \* the command the last operation handed to the dispatcher

stackVars == <<history, dispatched>>

\* The history h after a push of c.
Pushed(h, c) == Append(IF Len(h) >= MaxUndoSteps THEN Tail(h) ELSE h, c)

Init ==
  /\ history = <<>>
  /\ dispatched = NoCommand

Push(c) ==
  /\ history' = Pushed(history, c)
  /\ dispatched' = NoCommand

Undo ==
  /\ history # <<>>
  /\ dispatched' = history[Len(history)]
  /\ history' = SubSeq(history, 1, Len(history) - 1)

Next == Undo \/ \E c \in Command : Push(c)

StackSpec == Init /\ [][Next]_stackVars
=============================================================================
