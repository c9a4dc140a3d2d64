--------------------------- MODULE NetworkManager ---------------------------
(***************************************************************************)
(* NetworkManager: the sensor's stream and the Home Assistant service over *)
(* one io_context, whose thread runs the coroutines of both, and one main  *)
(* loop, whose update serves first the service, then the sensor's queue.   *)
(***************************************************************************)
EXTENDS SensorStream

VARIABLES
  secrets, link, m_IsConnected, wsReader, spawned, writing, served, inbound, answered,
  m_MessageQueue, local, handled, m_Authenticated, m_MessageID,
  service   \* what the program has come to, as the service has it

HA == INSTANCE HomeAssistant WITH reader <- wsReader, app <- service

serviceVars == <<secrets, link, m_IsConnected, wsReader, spawned, writing, served, inbound,
                 answered, m_MessageQueue, local, handled, m_Authenticated, m_MessageID,
                 service>>
managerVars == <<streamVars, serviceVars>>

\* start: both coroutines are spawned before the thread runs.
ManagerInit == StreamInit /\ HA!Init

\* The sensor, the server and the links owe nothing.
Outside ==
  \/ (ServerAccepts \/ ServerBroadcasts \/ ServerGone) /\ UNCHANGED serviceVars
  \/ (HA!Server \/ HA!LinkLost) /\ UNCHANGED streamVars

SensorCoroutine == Network /\ UNCHANGED serviceVars

ServiceCoroutines == HA!Network /\ UNCHANGED streamVars

\* update, first part: an exception goes up through the main loop, past the
\* events that wait in the queue.
UpdateService ==
  /\ batch = <<>>
  /\ HA!Main
  /\ IF service' = "terminated"
     THEN /\ app' = "stopped"
          /\ conn' = IF conn = "none" THEN "none" ELSE "closed"
          /\ UNCHANGED <<serverVars, wire, readerVars, queue, batch, dispatched>>
     ELSE UNCHANGED streamVars

\* update, second part.
UpdateSensor == local = <<>> /\ Main /\ UNCHANGED serviceVars

ManagerMain == UpdateService \/ UpdateSensor

\* destroy stops the io_context for both and joins the thread.
ManagerDestroy ==
  \/ Destroy /\ HA!Destroy
  \/ Joined /\ UNCHANGED serviceVars

ManagerNext == Outside \/ SensorCoroutine \/ ServiceCoroutines \/ ManagerMain \/ ManagerDestroy

\* The io_context runs its handlers in the order they become ready, so that no
\* coroutine holds up another for good; SDL iterates the main loop.
ManagerFairness ==
  /\ WF_managerVars(SensorCoroutine)
  /\ WF_managerVars(ServiceCoroutines)
  /\ WF_managerVars(ManagerMain)

ManagerSpec == ManagerInit /\ [][ManagerNext]_managerVars /\ ManagerFairness

-----------------------------------------------------------------------------
\* The properties of HomeAssistant, here with the sensor's stream beside it:
\* neither of the two loses, doubles or holds up what is the other's.
ManagerTypeOK == StreamTypeOK /\ HA!TypeOK

\* One doSend at a time (HomeAssistant, OneWriter).
OneWriter == HA!OneWriter

\* Messages are handled once and in order (HomeAssistant, InOrder).
InOrder == HA!InOrder

\* No command before the token is accepted (HomeAssistant, CommandsAuthenticated).
CommandsAuthenticated == HA!CommandsAuthenticated

\* The dialogue goes on while the link does, however many readings the sensor
\* sends (HomeAssistant, HandshakeGoesOn).
HandshakeGoesOn == HA!HandshakeGoesOn
=============================================================================
