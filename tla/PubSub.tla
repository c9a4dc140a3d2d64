------------------------------- MODULE PubSub -------------------------------
(***************************************************************************)
(* What the event manager promises its clients, with no vectors, flags or  *)
(* deferred removal: a publication calls, in the order they subscribed and *)
(* once each, exactly the subscribers its type had when it began and that  *)
(* have not been unsubscribed before their turn; publications nest.        *)
(***************************************************************************)
EXTENDS SequenceFilter

CONSTANTS
  Type,  \* event types
  None   \* no subscriber is running

VARIABLES
  subs,    \* type -> ids of its subscribers, in the order of subscription
  issued,  \* ids handed out
  calls    \* the publications under way, outermost first

pubSubVars == <<subs, issued, calls>>

Dropped(s, id) == Kept(s, Nat \ {id})

Top == calls[Len(calls)]

WithTop(c) == [calls EXCEPT ![Len(calls)] = c]

\* Clients act outside any publication, or from the subscriber being called.
ClientRuns == calls # <<>> => Top.running # None

Init ==
  /\ subs = [t \in Type |-> <<>>]
  /\ issued = 0
  /\ calls = <<>>

Subscribe(t) ==
  /\ ClientRuns
  /\ subs' = [subs EXCEPT ![t] = Append(@, issued)]
  /\ issued' = issued + 1
  /\ UNCHANGED calls

Unsubscribe(t, id) ==
  /\ ClientRuns
  /\ subs' = [subs EXCEPT ![t] = Dropped(@, id)]
  /\ calls' = [i \in 1 .. Len(calls) |->
                 [calls[i] EXCEPT !.todo = IF calls[i].type = t THEN Dropped(@, id) ELSE @]]
  /\ UNCHANGED issued

Publish(t) ==
  /\ ClientRuns
  /\ calls' = Append(calls, [type |-> t, todo |-> subs[t], running |-> None])
  /\ UNCHANGED <<subs, issued>>

Call ==
  /\ calls # <<>>
  /\ Top.running = None
  /\ Top.todo # <<>>
  /\ calls' = WithTop([Top EXCEPT !.todo = Tail(@), !.running = Head(Top.todo)])
  /\ UNCHANGED <<subs, issued>>

Return ==
  /\ calls # <<>>
  /\ Top.running # None
  /\ calls' = WithTop([Top EXCEPT !.running = None])
  /\ UNCHANGED <<subs, issued>>

Complete ==
  /\ calls # <<>>
  /\ Top.running = None
  /\ Top.todo = <<>>
  /\ calls' = SubSeq(calls, 1, Len(calls) - 1)
  /\ UNCHANGED <<subs, issued>>

Next ==
  \/ Call
  \/ Return
  \/ Complete
  \/ \E t \in Type : Subscribe(t) \/ Publish(t)
  \/ \E t \in Type : \E id \in 0 .. issued - 1 : Unsubscribe(t, id)

PubSubSpec == Init /\ [][Next]_pubSubVars
=============================================================================
