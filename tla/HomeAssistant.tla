--------------------------- MODULE HomeAssistant ---------------------------
(***************************************************************************)
(* HomeAssistantService (network/a_HomeAssistant.cpp) over its             *)
(* BoostWebsocketClient (network/a_BoostWebsocketClient.cpp): coroutines   *)
(* on the network thread connect, read and write; the read loop puts what  *)
(* it gets on m_MessageQueue, and update, on the main thread, answers it.  *)
(* The server is Home Assistant's, and the connection may be lost at any   *)
(* time.                                                                   *)
(***************************************************************************)
EXTENDS Naturals, Sequences

VARIABLES
  secrets,        \* secrets.json: holds a token, holds none, cannot be read
  link,           \* the WebSocket: none, up, lost
  m_IsConnected,  \* what the client believes of it
  reader,         \* doReadLoop: none, check (its while), await (a read), ended
  spawned,        \* payloads of the doSend coroutines not started yet
  writing,        \* payloads of those suspended in async_write
  served,         \* history variable: messages the server has sent
  inbound,        \* of these, the ones on their way
  answered,       \* history variable: frames the server has received
  m_MessageQueue,
  local,          \* the messages update has swapped out and not handled yet
  handled,        \* history variable: those handled
  m_Authenticated,
  m_MessageID,
  app             \* running, stopped, terminated (by an uncaught exception)

clientVars == <<m_IsConnected, reader>>
sendVars == <<spawned, writing>>
serverVars == <<served, answered>>
serviceVars == <<local, handled, m_Authenticated, m_MessageID>>
vars == <<secrets, link, clientVars, sendVars, serverVars, inbound, m_MessageQueue,
          serviceVars, app>>

MessageType == {"auth_required", "auth_ok", "auth_invalid", "result"}
Auth == [type |-> "auth", id |-> 0]
GetStates(n) == [type |-> "get_states", id |-> n]

Has(s, e) == \E i \in DOMAIN s : s[i] = e

\* start and init: doConnect has been spawned.
Init ==
  /\ secrets \in {"token", "empty", "unreadable"}
  /\ link = "none"
  /\ m_IsConnected = FALSE
  /\ reader = "none"
  /\ spawned = <<>>
  /\ writing = <<>>
  /\ served = <<>>
  /\ inbound = <<>>
  /\ answered = <<>>
  /\ m_MessageQueue = <<>>
  /\ local = <<>>
  /\ handled = <<>>
  /\ m_Authenticated = FALSE
  /\ m_MessageID = 1
  /\ app = "running"

-----------------------------------------------------------------------------
\* Home Assistant: a challenge, an answer to the token, the states.

Serves(m) ==
  /\ link = "up"
  /\ served' = Append(served, m)
  /\ inbound' = Append(inbound, m)
  /\ UNCHANGED <<secrets, link, clientVars, sendVars, answered, m_MessageQueue, serviceVars, app>>

ServerChallenges == served = <<>> /\ Serves("auth_required")

ServerAnswersToken ==
  /\ Has(answered, Auth)
  /\ served = <<"auth_required">>
  /\ \E m \in {"auth_ok", "auth_invalid"} : Serves(m)

ServerSendsStates ==
  /\ \E n \in 1 .. m_MessageID : Has(answered, GetStates(n))
  /\ Has(served, "auth_ok")
  /\ ~Has(served, "result")
  /\ Serves("result")

\* The server closes, the network breaks, the keep-alive times out: of the
\* messages on their way a prefix arrives.
LinkLost ==
  /\ link = "up"
  /\ link' = "lost"
  /\ \E n \in 0 .. Len(inbound) : inbound' = SubSeq(inbound, 1, n)
  /\ UNCHANGED <<secrets, clientVars, sendVars, serverVars, m_MessageQueue, serviceVars, app>>

-----------------------------------------------------------------------------
\* The client's coroutines, one strand on the network thread.

ReaderVars == <<secrets, sendVars, serverVars, serviceVars, app>>

\* A defect: the read loop is started before the flag is set, and ends at once.
ConnectStartingReadLoopFirst ==
  /\ app = "running"
  /\ link = "none"
  /\ link' = "up"
  /\ m_IsConnected' = TRUE
  /\ reader' = "ended"
  /\ UNCHANGED <<ReaderVars, inbound, m_MessageQueue>>

\* doConnect, after its last handshake.
Connected ==
  /\ app = "running"
  /\ link = "none"
  /\ link' = "up"
  /\ m_IsConnected' = TRUE
  /\ reader' = "check"
  /\ UNCHANGED <<ReaderVars, inbound, m_MessageQueue>>

\* doConnect throws: at a timeout, at the proxy, in a handshake. No retry.
ConnectFails ==
  /\ app = "running"
  /\ link = "none"
  /\ link' = "lost"
  /\ UNCHANGED <<ReaderVars, clientVars, inbound, m_MessageQueue>>

ReadLoopChecks ==
  /\ app = "running"
  /\ reader = "check"
  /\ reader' = IF m_IsConnected THEN "await" ELSE "ended"
  /\ UNCHANGED <<ReaderVars, link, m_IsConnected, inbound, m_MessageQueue>>

\* A message has arrived; the callback queues it under m_QueueMutex.
ReadLoopReceives ==
  /\ app = "running"
  /\ reader = "await"
  /\ inbound # <<>>
  /\ inbound' = Tail(inbound)
  /\ m_MessageQueue' = Append(m_MessageQueue, Head(inbound))
  /\ reader' = "check"
  /\ UNCHANGED <<ReaderVars, link, m_IsConnected>>

ReadLoopFails ==
  /\ app = "running"
  /\ reader = "await"
  /\ link = "lost"
  /\ inbound = <<>>
  /\ m_IsConnected' = FALSE
  /\ reader' = "ended"
  /\ UNCHANGED <<ReaderVars, link, inbound, m_MessageQueue>>

SenderVars == <<secrets, link, reader, served, inbound, m_MessageQueue, serviceVars, app>>

\* doSend, up to its async_write.
SendStarts ==
  /\ app = "running"
  /\ spawned # <<>>
  /\ writing' = Append(writing, Head(spawned))
  /\ spawned' = Tail(spawned)
  /\ UNCHANGED <<SenderVars, m_IsConnected, answered>>

\* doSend resumed: the frame has been written.
SendEnds ==
  /\ app = "running"
  /\ link = "up"
  /\ writing # <<>>
  /\ answered' = Append(answered, Head(writing))
  /\ writing' = Tail(writing)
  /\ UNCHANGED <<SenderVars, m_IsConnected, spawned>>

SendFails ==
  /\ app = "running"
  /\ link = "lost"
  /\ writing # <<>>
  /\ writing' = Tail(writing)
  /\ m_IsConnected' = FALSE
  /\ UNCHANGED <<SenderVars, spawned, answered>>

-----------------------------------------------------------------------------
\* The service on the main thread.

\* BoostWebsocketClient::send: a payload is dropped when the flag is down.
Sent(frames) == IF m_IsConnected THEN spawned \o frames ELSE spawned

UpdateVars == <<secrets, link, clientVars, writing, serverVars, inbound>>

\* A defect: the messages are copied, not swapped out.
UpdateCopying ==
  /\ app = "running"
  /\ local = <<>>
  /\ m_MessageQueue # <<>>
  /\ local' = m_MessageQueue
  /\ UNCHANGED <<UpdateVars, spawned, m_MessageQueue, handled, m_Authenticated, m_MessageID, app>>

\* update: the swap, under m_QueueMutex.
Update ==
  /\ app = "running"
  /\ local = <<>>
  /\ m_MessageQueue # <<>>
  /\ local' = m_MessageQueue
  /\ m_MessageQueue' = <<>>
  /\ UNCHANGED <<UpdateVars, spawned, handled, m_Authenticated, m_MessageID, app>>

\* handleMessage takes the next message, of type t.
Handles(t) ==
  /\ app = "running"
  /\ local # <<>>
  /\ Head(local) = t
  /\ local' = Tail(local)
  /\ handled' = Append(handled, t)
  /\ UNCHANGED <<UpdateVars, m_MessageQueue>>

\* A defect: the states are asked for with the token, not after its answer.
SendTokenAndCommand ==
  /\ secrets # "unreadable"
  /\ Handles("auth_required")
  /\ spawned' = IF secrets = "token" THEN Sent(<<Auth, GetStates(m_MessageID)>>) ELSE spawned
  /\ UNCHANGED <<m_Authenticated, m_MessageID, app>>

\* The token is read from the file at each challenge; with none, no answer.
HandleAuthRequired ==
  /\ secrets # "unreadable"
  /\ Handles("auth_required")
  /\ spawned' = IF secrets = "token" THEN Sent(<<Auth>>) ELSE spawned
  /\ UNCHANGED <<m_Authenticated, m_MessageID, app>>

\* readFile throws when there is no file, json::parse when it is not JSON;
\* nobody between here and SDL catches.
TokenReadThrows ==
  /\ secrets = "unreadable"
  /\ Handles("auth_required")
  /\ app' = "terminated"
  /\ UNCHANGED <<spawned, m_Authenticated, m_MessageID>>

HandleAuthOk ==
  /\ Handles("auth_ok")
  /\ m_Authenticated' = TRUE
  /\ m_MessageID' = m_MessageID + 1
  /\ spawned' = Sent(<<GetStates(m_MessageID)>>)
  /\ UNCHANGED app

HandleAuthInvalid ==
  /\ Handles("auth_invalid")
  /\ m_Authenticated' = FALSE
  /\ UNCHANGED <<spawned, m_MessageID, app>>

\* The states are logged.
HandleResult ==
  /\ Handles("result")
  /\ UNCHANGED <<spawned, m_Authenticated, m_MessageID, app>>

\* destroy stops the io_context and joins the network thread.
Destroy ==
  /\ app = "running"
  /\ local = <<>>
  /\ app' = "stopped"
  /\ UNCHANGED <<UpdateVars, spawned, m_MessageQueue, serviceVars>>

-----------------------------------------------------------------------------
Server == ServerChallenges \/ ServerAnswersToken \/ ServerSendsStates

Network ==
  \/ Connected
  \/ ConnectFails
  \/ ReadLoopChecks
  \/ ReadLoopReceives
  \/ ReadLoopFails
  \/ SendStarts
  \/ SendEnds
  \/ SendFails

Main ==
  \/ Update
  \/ HandleAuthRequired
  \/ TokenReadThrows
  \/ HandleAuthOk
  \/ HandleAuthInvalid
  \/ HandleResult

Next == Server \/ LinkLost \/ Network \/ Main \/ Destroy

\* The network thread runs its io_context and SDL iterates the main loop; the
\* server and the user owe nothing.
Fairness == WF_vars(Network) /\ WF_vars(Main)

Spec == Init /\ [][Next]_vars /\ Fairness

-----------------------------------------------------------------------------
Frame == [type : {"auth", "get_states"}, id : Nat]

TypeOK ==
  /\ secrets \in {"token", "empty", "unreadable"}
  /\ link \in {"none", "up", "lost"}
  /\ reader \in {"none", "check", "await", "ended"}
  /\ {spawned, writing, answered} \subseteq Seq(Frame)
  /\ {served, inbound, m_MessageQueue, local, handled} \subseteq Seq(MessageType)
  /\ {m_IsConnected, m_Authenticated} \subseteq BOOLEAN
  /\ m_MessageID \in Nat \ {0}
  /\ app \in {"running", "stopped", "terminated"}

\* A Beast stream allows one async_write at a time, and send does not queue
\* behind a doSend that is still writing: that it never overlaps rests on the
\* service never speaking twice before an answer.
OneWriter == Len(spawned \o writing) <= 1

\* However the two threads interleave, the service handles what the server
\* sends in order, each message once, and loses none while the link is up.
InOrder ==
  LET seen == handled \o local \o m_MessageQueue \o inbound
  IN /\ Len(seen) <= Len(served)
     /\ seen = SubSeq(served, 1, Len(seen))
     /\ link = "up" => seen = served

\* A command is on its way only if the server has accepted the token and the
\* service knows it, and its id has not been used.
CommandsAuthenticated ==
  LET frames == answered \o writing \o spawned
  IN \A i \in DOMAIN frames : frames[i].type = "get_states" =>
       /\ Has(handled, "auth_ok") /\ m_Authenticated
       /\ frames[i].id < m_MessageID
       /\ \A j \in DOMAIN frames : frames[j].id = frames[i].id => j = i

\* A challenge is eventually answered with the token, and an accepted token
\* followed by the request for the states, unless the link is lost, there is
\* no token to send or the program ends.
HandshakeGoesOn ==
  \A step \in {<<"auth_required", Auth>>, <<"auth_ok", GetStates(1)>>} :
    Has(served, step[1])
      ~> (Has(answered, step[2]) \/ link = "lost" \/ secrets # "token" \/ app # "running")
=============================================================================
