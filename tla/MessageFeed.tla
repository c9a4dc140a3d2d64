---------------------------- MODULE MessageFeed ----------------------------
(***************************************************************************)
(* What the sensor connection promises to the listeners of                 *)
(* OnSensorMessageReceived: the messages the sensor sent, whole, each once *)
(* and in order; how many of the last ones arrive is not promised.         *)
(***************************************************************************)
EXTENDS Naturals, Sequences

CONSTANT Message

VARIABLES
  sent,       \* messages sent to the engine
  delivered   \* messages its listeners have seen

feedVars == <<sent, delivered>>

Init ==
  /\ sent = <<>>
  /\ delivered = <<>>

Send(m) ==
  /\ sent' = Append(sent, m)
  /\ UNCHANGED delivered

Deliver ==
  /\ Len(delivered) < Len(sent)
  /\ delivered' = Append(delivered, sent[Len(delivered) + 1])
  /\ UNCHANGED sent

Next == Deliver \/ \E m \in Message : Send(m)

FeedSpec == Init /\ [][Next]_feedVars
=============================================================================
