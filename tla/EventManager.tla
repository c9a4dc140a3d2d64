---------------------------- MODULE EventManager ----------------------------
(***************************************************************************)
(* The engine's publish/subscribe singleton (core/a_event_manager.hpp).    *)
(* Dispatch walks the vector of a type's listeners in place while their    *)
(* callbacks may dispatch again and add or remove listeners; a removal in  *)
(* the middle of a dispatch only sets a flag, and the outermost dispatch   *)
(* erases the flagged listeners when it ends.                              *)
(*                                                                         *)
(* frames is the stack of range-for loops in progress. The loop's end is   *)
(* fixed when it starts; an addition that makes the vector reallocate      *)
(* leaves the loops over it with dangling iterators (valid = FALSE). Such  *)
(* a loop still ends if it has no listener left to read; to read the next  *)
(* one is undefined, and the model stops there.                            *)
(***************************************************************************)
EXTENDS SequenceFilter

CONSTANTS
  Type,          \* EventType
  MaxListeners,  \* bound on the listeners added in a behaviour
  MaxDepth,      \* bound on the nesting of dispatches
  None           \* no listener is running (of the abstract specification)

ASSUME EventAssumption ==
  /\ MaxListeners \in Nat
  /\ MaxDepth \in Nat
  /\ None \notin Nat

VARIABLES
  events,    \* m_Events: type -> its listeners, for the types seen so far
  capacity,  \* capacity of each type's vector
  nextID,    \* m_NextID
  level,     \* m_DispatchLevel
  frames     \* the loops of Dispatch in progress, outermost first

vars == <<events, capacity, nextID, level, frames>>

Listeners(t) == IF t \in DOMAIN events THEN events[t] ELSE <<>>

Top == frames[Len(frames)]

WithTop(f) == [frames EXCEPT ![Len(frames)] = f]

\* Clients act outside any dispatch, or from the callback being run.
ClientRuns == frames # <<>> => Top.busy

Listener == [id : Nat, pending : BOOLEAN]

NotPending(l) == ~l.pending

Live == {l \in Listener : NotPending(l)}

\* A vector with the listener of that id flagged, and without it.
Flagged(s, id) ==
  [i \in 1 .. Len(s) |-> IF s[i].id = id THEN [s[i] EXCEPT !.pending = TRUE] ELSE s[i]]

Erased(s, id) == Kept(s, {l \in Listener : l.id # id})

-----------------------------------------------------------------------------
Init ==
  /\ events = <<>>
  /\ capacity = [t \in Type |-> 0]
  /\ nextID = 0
  /\ level = 0
  /\ frames = <<>>

AddEventListener(t) ==
  /\ ClientRuns
  /\ nextID < MaxListeners
  /\ events' = [u \in DOMAIN events \cup {t} |->
                  IF u = t THEN Append(Listeners(t), [id |-> nextID, pending |-> FALSE])
                  ELSE events[u]]
  /\ nextID' = nextID + 1
  /\ IF Len(Listeners(t)) < capacity[t]
     THEN UNCHANGED <<capacity, frames>>
     ELSE /\ capacity' = [capacity EXCEPT ![t] = IF @ = 0 THEN 1 ELSE 2 * @]
          /\ frames' = [i \in 1 .. Len(frames) |->
                          [frames[i] EXCEPT !.valid = @ /\ frames[i].type # t]]
  /\ UNCHANGED level

\* A defect for the mutation check: the listener is erased at once also while
\* a dispatch is in progress.
RemoveAtOnce(t, id) ==
  /\ ClientRuns
  /\ t \in DOMAIN events
  /\ events' = [events EXCEPT ![t] = Erased(@, id)]
  /\ UNCHANGED <<capacity, nextID, level, frames>>

\* RemoveEventListener with the handle (t, id).
RemoveEventListener(t, id) ==
  /\ ClientRuns
  /\ t \in DOMAIN events
  /\ events' = [events EXCEPT ![t] = IF level > 0 THEN Flagged(@, id) ELSE Erased(@, id)]
  /\ UNCHANGED <<capacity, nextID, level, frames>>

\* Dispatch, up to the head of its loop. A type nobody ever listened to
\* returns at once.
Dispatch(t) ==
  /\ ClientRuns
  /\ Len(frames) < MaxDepth
  /\ t \in DOMAIN events
  /\ level' = level + 1
  /\ frames' = Append(frames, [type |-> t, next |-> 1, end |-> Len(events[t]),
                               busy |-> FALSE, valid |-> TRUE])
  /\ UNCHANGED <<events, capacity, nextID>>

\* A defect: the flag of a removed listener is not looked at.
CallAlsoPending ==
  /\ frames # <<>>
  /\ ~Top.busy
  /\ Top.next <= Top.end
  /\ Top.valid
  /\ frames' = WithTop([Top EXCEPT !.busy = TRUE])
  /\ UNCHANGED <<events, capacity, nextID, level>>

\* The loop calls the next listener that has not been removed.
CallListener ==
  /\ frames # <<>>
  /\ ~Top.busy
  /\ Top.next <= Top.end
  /\ Top.valid
  /\ NotPending(events[Top.type][Top.next])
  /\ frames' = WithTop([Top EXCEPT !.busy = TRUE])
  /\ UNCHANGED <<events, capacity, nextID, level>>

SkipPending ==
  /\ frames # <<>>
  /\ ~Top.busy
  /\ Top.next <= Top.end
  /\ Top.valid
  /\ ~NotPending(events[Top.type][Top.next])
  /\ frames' = WithTop([Top EXCEPT !.next = @ + 1])
  /\ UNCHANGED <<events, capacity, nextID, level>>

\* The callback returns to the loop.
CallbackReturns ==
  /\ frames # <<>>
  /\ Top.busy
  /\ frames' = WithTop([Top EXCEPT !.busy = FALSE, !.next = @ + 1])
  /\ UNCHANGED <<events, capacity, nextID, level>>

\* ClearPendingListeners.
Cleared(ev) == [t \in DOMAIN ev |-> Kept(ev[t], Live)]

\* Defects: the level is not restored; the cleanup is forgotten.
EndKeepingLevel ==
  /\ frames # <<>>
  /\ ~Top.busy
  /\ Top.next > Top.end
  /\ frames' = SubSeq(frames, 1, Len(frames) - 1)
  /\ UNCHANGED <<events, capacity, nextID, level>>

EndWithoutCleanup ==
  /\ frames # <<>>
  /\ ~Top.busy
  /\ Top.next > Top.end
  /\ level' = level - 1
  /\ frames' = SubSeq(frames, 1, Len(frames) - 1)
  /\ UNCHANGED <<events, capacity, nextID>>

\* Dispatch, from the end of its loop.
DispatchEnds ==
  /\ frames # <<>>
  /\ ~Top.busy
  /\ Top.next > Top.end
  /\ level' = level - 1
  /\ frames' = SubSeq(frames, 1, Len(frames) - 1)
  /\ events' = IF level' = 0 THEN Cleared(events) ELSE events
  /\ UNCHANGED <<capacity, nextID>>

Next ==
  \/ CallListener
  \/ SkipPending
  \/ CallbackReturns
  \/ DispatchEnds
  \/ \E t \in Type : AddEventListener(t)
  \/ \E t \in Type : Dispatch(t)
  \/ \E t \in Type, id \in 0 .. nextID - 1 : RemoveEventListener(t, id)

Spec == Init /\ [][Next]_vars

-----------------------------------------------------------------------------
\* The clients' view: the listeners not flagged, and for each loop those it
\* has still to call.
Ids(s) == [i \in 1 .. Len(s) |-> s[i].id]

Alive(s) == Ids(Kept(s, Live))

Remaining(f) ==
  Alive(SubSeq(events[f.type], IF f.busy THEN f.next + 1 ELSE f.next, f.end))

Subs == [t \in Type |-> Alive(Listeners(t))]

CallOf(f) ==
  [type    |-> f.type,
   todo    |-> Remaining(f),
   running |-> IF f.busy THEN events[f.type][f.next].id ELSE None]

Calls == [i \in 1 .. Len(frames) |-> CallOf(frames[i])]

Abstract == INSTANCE PubSub WITH subs <- Subs, issued <- nextID, calls <- Calls

TypeOK ==
  /\ DOMAIN events \subseteq Type
  /\ \A t \in DOMAIN events : events[t] \in Seq([id : 0 .. MaxListeners - 1, pending : BOOLEAN])
  /\ capacity \in [Type -> Nat]
  /\ nextID \in 0 .. MaxListeners
  /\ level \in 0 .. MaxDepth
  /\ frames \in Seq([type : Type, next : Nat, end : Nat, busy : BOOLEAN, valid : BOOLEAN])

\* However dispatches nest, m_DispatchLevel is their depth, and no removed
\* listener is still stored once the outermost one has ended.
Reclaimed ==
  /\ level = Len(frames)
  /\ level = 0 => \A t \in DOMAIN events : \A i \in 1 .. Len(events[t]) : NotPending(events[t][i])

\* a_event_manager.hpp:36 promises that adding and removing are safe while a
\* dispatch is in progress. What the loop of :106 can rely on: no removal, at any
\* depth, shortens the vector under it; and its iterators dangle only if its
\* vector has grown since it began, by a listener of its own type that a callback
\* under it added. (That case breaks the promise: the loop cannot read on.)
IteratorsValid ==
  \A i \in 1 .. Len(frames) :
    LET f == frames[i]
        n == Len(Listeners(f.type))
    IN f.end <= n /\ (f.valid \/ f.end < n)

\* Deferred removal is invisible: a listener is never called after its removal
\* returned, even later in the same dispatch or in an outer one, and every other
\* listener of the type is called once per dispatch, in order.
ImplementsPubSub == Abstract!PubSubSpec
=============================================================================
