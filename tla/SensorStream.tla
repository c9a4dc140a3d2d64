---------------------------- MODULE SensorStream ----------------------------
(***************************************************************************)
(* The way of a sensor reading into the engine: the sensor's server        *)
(* (mock/bmv080_tcp_ip_server.cpp) writes lines to a TCP connection, a     *)
(* coroutine on the network thread (network/a_tcp_sensor_client.cpp) cuts  *)
(* the byte stream back into lines and pushes them on a ThreadSafeQueue,   *)
(* and NetworkManager::update drains the queue on the main thread and      *)
(* dispatches the events one by one.                                       *)
(*                                                                         *)
(* A line is sent as two bytes, <<m, "text">> and <<m, "newline">>, so     *)
(* that a read can end inside a line or hold several.                      *)
(***************************************************************************)
EXTENDS SequenceFilter

CONSTANTS
  MaxMessages  \* bound on the lines a server sends in a behaviour

ASSUME StreamAssumption == MaxMessages \in Nat

VARIABLES
  server,      \* whether the sensor's server is up
  conn,        \* the connection: none, pending (not accepted), accepted, closed
  sent,        \* history variable: the lines sent to this client
  wire,        \* bytes on their way
  reader,      \* where readSensorStream is
  buffer,      \* its streambuf
  queue,       \* m_SensorEventQueue
  batch,       \* what update has drained and not dispatched yet
  dispatched,  \* history variable: the lines its listeners have seen
  app          \* running, stopping (the io_context has been stopped), stopped

serverVars == <<server, sent>>
readerVars == <<reader, buffer>>
mainVars == <<batch, dispatched, app>>
streamVars == <<serverVars, conn, wire, readerVars, queue, mainVars>>

Message == 1 .. MaxMessages
Text(m) == <<m, "text">>
Newline(m) == <<m, "newline">>
Byte == Message \X {"text", "newline"}

IsNewline(b) == b[2] = "newline"

HasLine(s) == \E i \in 1 .. Len(s) : IsNewline(s[i])

FirstNewline(s) == CHOOSE i \in 1 .. Len(s) : IsNewline(s[i]) /\ ~HasLine(SubSeq(s, 1, i - 1))

-----------------------------------------------------------------------------
StreamInit ==
  /\ server \in BOOLEAN
  /\ conn = "none"
  /\ sent = <<>>
  /\ wire = <<>>
  /\ reader = "connect"
  /\ buffer = <<>>
  /\ queue = <<>>
  /\ batch = <<>>
  /\ dispatched = <<>>
  /\ app = "running"

\* The sensor's server.

ServerAccepts ==
  /\ server
  /\ conn = "pending"
  /\ conn' = "accepted"
  /\ UNCHANGED <<serverVars, wire, readerVars, queue, mainVars>>

\* A broadcast goes to the clients accepted so far.
ServerBroadcasts ==
  /\ server
  /\ conn = "accepted"
  /\ Len(sent) < MaxMessages
  /\ LET m == Len(sent) + 1
     IN /\ sent' = Append(sent, m)
        /\ wire' = wire \o <<Text(m), Newline(m)>>
  /\ UNCHANGED <<server, conn, readerVars, queue, mainVars>>

\* The server or the link goes down; of the bytes on their way a prefix arrives.
ServerGone ==
  /\ server
  /\ server' = FALSE
  /\ conn' = IF conn = "none" THEN "none" ELSE "closed"
  /\ \E n \in 0 .. Len(wire) : wire' = SubSeq(wire, 1, n)
  /\ UNCHANGED <<sent, readerVars, queue, mainVars>>

-----------------------------------------------------------------------------
\* readSensorStream on the network thread. io_context::stop lets the handler
\* that is running finish. Any exception ends the coroutine for good.
NetworkRuns == app # "stopped"

ReaderConnects ==
  /\ NetworkRuns
  /\ reader = "connect"
  /\ IF server
     THEN conn' = "pending" /\ reader' = "handshake"
     ELSE UNCHANGED conn /\ reader' = "ended"
  /\ UNCHANGED <<serverVars, wire, buffer, queue, mainVars>>

\* The write of "hello_sensor" may still succeed on a closed connection.
ReaderSendsHandshake ==
  /\ NetworkRuns
  /\ reader = "handshake"
  /\ \/ reader' = "read"
     \/ conn = "closed" /\ reader' = "ended"
  /\ UNCHANGED <<serverVars, conn, wire, buffer, queue, mainVars>>

\* async_read_until has no newline yet and takes in what has arrived.
ReaderReceives ==
  /\ NetworkRuns
  /\ reader = "read"
  /\ ~HasLine(buffer)
  /\ \E n \in 1 .. Len(wire) :
       /\ buffer' = buffer \o SubSeq(wire, 1, n)
       /\ wire' = SubSeq(wire, n + 1, Len(wire))
  /\ UNCHANGED <<serverVars, conn, reader, queue, mainVars>>

\* Defects for the mutation check: the rest of the buffer is thrown away with
\* the line; the newline stays on the line; the coroutine reads only one line.
PushDroppingRest ==
  /\ NetworkRuns
  /\ reader = "read"
  /\ HasLine(buffer)
  /\ queue' = Append(queue, SubSeq(buffer, 1, FirstNewline(buffer) - 1))
  /\ buffer' = <<>>
  /\ UNCHANGED <<serverVars, conn, wire, reader, mainVars>>

PushWithNewline ==
  /\ NetworkRuns
  /\ reader = "read"
  /\ HasLine(buffer)
  /\ queue' = Append(queue, SubSeq(buffer, 1, FirstNewline(buffer)))
  /\ buffer' = SubSeq(buffer, FirstNewline(buffer) + 1, Len(buffer))
  /\ UNCHANGED <<serverVars, conn, wire, reader, mainVars>>

PushThenEnd ==
  /\ NetworkRuns
  /\ reader = "read"
  /\ HasLine(buffer)
  /\ queue' = Append(queue, SubSeq(buffer, 1, FirstNewline(buffer) - 1))
  /\ buffer' = SubSeq(buffer, FirstNewline(buffer) + 1, Len(buffer))
  /\ reader' = "ended"
  /\ UNCHANGED <<serverVars, conn, wire, mainVars>>

\* A newline is there: getline takes the line and the newline out, and the
\* line is pushed under the queue's mutex.
ReaderPushesLine ==
  /\ NetworkRuns
  /\ reader = "read"
  /\ HasLine(buffer)
  /\ queue' = Append(queue, SubSeq(buffer, 1, FirstNewline(buffer) - 1))
  /\ buffer' = SubSeq(buffer, FirstNewline(buffer) + 1, Len(buffer))
  /\ UNCHANGED <<serverVars, conn, wire, reader, mainVars>>

\* async_read_until throws at the end of the stream; a last line without its
\* newline is dropped.
ReaderFails ==
  /\ NetworkRuns
  /\ reader = "read"
  /\ conn = "closed"
  /\ ~HasLine(buffer)
  /\ wire = <<>>
  /\ reader' = "ended"
  /\ UNCHANGED <<serverVars, conn, wire, buffer, queue, mainVars>>

-----------------------------------------------------------------------------
\* NetworkManager on the main thread.

\* A defect: the events drained are not emptied out of the queue.
UpdateKeepingQueue ==
  /\ app = "running"
  /\ batch = <<>>
  /\ queue # <<>>
  /\ batch' = queue
  /\ UNCHANGED <<serverVars, conn, wire, readerVars, queue, dispatched, app>>

\* update: dequeueAll, under the queue's mutex.
Update ==
  /\ app = "running"
  /\ batch = <<>>
  /\ queue # <<>>
  /\ batch' = queue
  /\ queue' = <<>>
  /\ UNCHANGED <<serverVars, conn, wire, readerVars, dispatched, app>>

\* update: the next event of the batch.
DispatchNext ==
  /\ app = "running"
  /\ batch # <<>>
  /\ dispatched' = Append(dispatched, Head(batch))
  /\ batch' = Tail(batch)
  /\ UNCHANGED <<serverVars, conn, wire, readerVars, queue, app>>

\* destroy, up to io_context::stop; then the network thread has been joined,
\* and the coroutine's socket goes with it.
Destroy ==
  /\ app = "running"
  /\ batch = <<>>
  /\ app' = "stopping"
  /\ UNCHANGED <<serverVars, conn, wire, readerVars, queue, batch, dispatched>>

Joined ==
  /\ app = "stopping"
  /\ app' = "stopped"
  /\ conn' = IF conn = "none" THEN "none" ELSE "closed"
  /\ UNCHANGED <<serverVars, wire, readerVars, queue, batch, dispatched>>

Network ==
  \/ ReaderConnects
  \/ ReaderSendsHandshake
  \/ ReaderReceives
  \/ ReaderPushesLine
  \/ ReaderFails

Main == Update \/ DispatchNext

StreamNext ==
  \/ ServerAccepts
  \/ ServerBroadcasts
  \/ ServerGone
  \/ Network
  \/ Main
  \/ Destroy
  \/ Joined

\* The network thread runs its io_context and SDL iterates the main loop; the
\* sensor and the user owe nothing.
StreamFairness == WF_streamVars(Network) /\ WF_streamVars(Main)

StreamSpec == StreamInit /\ [][StreamNext]_streamVars /\ StreamFairness

-----------------------------------------------------------------------------
Line == {<<Text(m)>> : m \in Message}

StreamTypeOK ==
  /\ server \in BOOLEAN
  /\ conn \in {"none", "pending", "accepted", "closed"}
  /\ sent \in Seq(Message)
  /\ wire \in Seq(Byte)
  /\ reader \in {"connect", "handshake", "read", "ended"}
  /\ buffer \in Seq(Byte)
  /\ {queue, batch, dispatched} \subseteq Seq(Line)
  /\ app \in {"running", "stopping", "stopped"}

\* The messages of whole lines.
Messages(lines) == [i \in 1 .. Len(lines) |-> lines[i][1][1]]

\* Those whose newline is among the bytes s.
InBytes(s) ==
  LET ends == Kept(s, {b \in Byte : IsNewline(b)})
  IN [i \in 1 .. Len(ends) |-> ends[i][1]]

InFlight == Messages(dispatched) \o Messages(batch) \o Messages(queue) \o InBytes(buffer \o wire)

\* However reads cut the stream and the two threads interleave, every line sent
\* is in exactly one place, in order: with the listeners, in the batch, in the
\* queue or among the bytes. Only a connection that closes cuts off a tail.
Conserved ==
  /\ InFlight = SubSeq(sent, 1, Len(InFlight))
  /\ conn # "closed" => InFlight = sent

\* The engine's side of the connection implements the abstract feed.
Feed == INSTANCE MessageFeed WITH delivered <- Messages(dispatched)

ImplementsFeed == Feed!FeedSpec

\* Every line sent is eventually dispatched, unless the connection closes or
\* the program is quit.
EventuallyDispatched ==
  \A m \in Message :
    (Len(sent) >= m) ~> (Len(dispatched) >= m \/ conn = "closed" \/ app # "running")
=============================================================================
