----------------------------- MODULE UndoBuffer -----------------------------
(***************************************************************************)
(* The editor's undo history (editor/a_undo_buffer.{hpp,cpp}): commands of *)
(* different sizes written back to back into one byte vector, the offset   *)
(* of each kept beside it, the oldest erased from the front when the       *)
(* history is full.                                                        *)
(*                                                                         *)
(* Byte k of command c (its CommandHeader, then its payload) is <<c, k>>.  *)
(* Offsets count from 0 as in the code: the bytes of the command at offset *)
(* o are data[o + 1], data[o + 2], ...                                     *)
(***************************************************************************)
EXTENDS Integers, Sequences

CONSTANTS
  Command,       \* the commands the editor pushes: a type and a payload
  Size,          \* bytes of each command: header and payload
  MaxUndoSteps,  \* maxUndoSteps
  NoCommand,     \* nothing was dispatched
  Garbage        \* the dispatcher was pointed at bytes that are no command

ASSUME UndoAssumption ==
  /\ Size \in [Command -> Nat \ {0}]
  /\ MaxUndoSteps \in Nat \ {0}
  /\ NoCommand \notin Command
  /\ Garbage \notin Command

VARIABLES
  data,            \* the byte stream
  commandOffsets,  \* where each command starts
  dispatched       \* what the last operation handed to CommandDispatcher

vars == <<data, commandOffsets, dispatched>>

Byte == Command \X Nat

Encode(c) == [k \in 1 .. Size[c] |-> <<c, k>>]

\* Whether the bytes of d from offset o on are those of command c.
Holds(d, o, c) ==
  /\ o + Size[c] <= Len(d)
  /\ \A k \in 1 .. Size[c] : d[o + k] = <<c, k>>

\* CommandDispatcher::dispatch reads the header and payload at the pointer.
Dispatch(d, o) ==
  IF \E c \in Command : Holds(d, o, c)
  THEN CHOOSE c \in Command : Holds(d, o, c)
  ELSE Garbage

\* Defects for the mutation check: the offsets are not shifted; the newest
\* command is erased; the guard of pushCommand is off by one.
DeleteCommandWithoutShift(d, offs) ==
  [data    |-> SubSeq(d, (IF Len(offs) > 1 THEN offs[2] ELSE Len(d)) + 1, Len(d)),
   offsets |-> Tail(offs)]

DeleteNewestCommand(d, offs) ==
  [data    |-> SubSeq(d, 1, offs[Len(offs)]),
   offsets |-> SubSeq(offs, 1, Len(offs) - 1)]

KeptOneTooMany ==
  IF Len(commandOffsets) > MaxUndoSteps
  THEN DeleteCommandWithoutShift(data, commandOffsets)
  ELSE [data |-> data, offsets |-> commandOffsets]

\* deleteCommand: the oldest command leaves the front of the stream, and the
\* offsets of the others move down by its size.
DeleteCommand(d, offs) ==
  LET firstCommandSize == IF Len(offs) > 1 THEN offs[2] ELSE Len(d)
  IN [data    |-> SubSeq(d, firstCommandSize + 1, Len(d)),
      offsets |-> [i \in 1 .. Len(offs) - 1 |-> offs[i + 1] - firstCommandSize]]

Kept ==
  IF Len(commandOffsets) >= MaxUndoSteps
  THEN DeleteCommand(data, commandOffsets)
  ELSE [data |-> data, offsets |-> commandOffsets]

-----------------------------------------------------------------------------
Init ==
  /\ data = <<>>
  /\ commandOffsets = <<>>
  /\ dispatched = NoCommand

\* pushCommand.
PushCommand(c) ==
  /\ commandOffsets' = Append(Kept.offsets, Len(Kept.data))
  /\ data' = Kept.data \o Encode(c)
  /\ dispatched' = NoCommand

\* undo; an empty history is left alone.
Undo ==
  /\ commandOffsets # <<>>
  /\ LET lastOffset == commandOffsets[Len(commandOffsets)]
     IN /\ dispatched' = Dispatch(data, lastOffset)
        /\ data' = SubSeq(data, 1, lastOffset)
  /\ commandOffsets' = SubSeq(commandOffsets, 1, Len(commandOffsets) - 1)

Next == Undo \/ \E c \in Command : PushCommand(c)

Spec == Init /\ [][Next]_vars

-----------------------------------------------------------------------------
\* Where the command that starts at the i-th offset ends.
EndOf(i) == IF i < Len(commandOffsets) THEN commandOffsets[i + 1] ELSE Len(data)

Stack == INSTANCE UndoStack WITH
           history <- [i \in 1 .. Len(commandOffsets) |-> Dispatch(data, commandOffsets[i])]

TypeOK ==
  /\ data \in Seq(Byte)
  /\ commandOffsets \in Seq(Nat)
  /\ Len(commandOffsets) <= MaxUndoSteps
  /\ dispatched \in Command \cup {NoCommand}

\* After any sequence of pushes, evictions and undos the offsets cut the stream
\* into whole commands with nothing before, between or after them: undo never
\* points the dispatcher into the middle of a command or at a leftover of one.
WellFormed ==
  /\ IF commandOffsets = <<>> THEN data = <<>> ELSE commandOffsets[1] = 0
  /\ \A i \in 1 .. Len(commandOffsets) :
       \E c \in Command : /\ EndOf(i) = commandOffsets[i] + Size[c]
                          /\ Holds(data, commandOffsets[i], c)

\* The byte stream and its offsets behave as a stack of the MaxUndoSteps latest
\* commands: undo dispatches the most recent one as it was pushed, and eviction
\* forgets the oldest only.
ImplementsStack == Stack!StackSpec
=============================================================================
