--------------------------- MODULE ClientSession ---------------------------
(***************************************************************************)
(* One websocket session: WebsocketClientHandler in                        *)
(* server/client_handler.py, subscribe and signal_event in                 *)
(* server/server.py, MatterClient in client/client.py and                  *)
(* MatterClientConnection in client/connection.py.                         *)
(*                                                                         *)
(* The server's state is the number of events it has signalled: the answer *)
(* to START_LISTENING carries the number so far, each event its own.  What *)
(* the events do to the client's nodes is the subject of AttributeCache.   *)
(*                                                                         *)
(* The handler queues messages and a writer task sends them; the socket    *)
(* takes WireLimit messages the client has not read.  Commands run in      *)
(* tasks of their own, which outlive the session.                          *)
(***************************************************************************)
EXTENDS Naturals, Sequences, SequencesExt

CONSTANTS Commands,       \* commands the client sends
          QueueLimit,     \* MAX_PENDING_MSG
          WireLimit,      \* bound on unread messages in the socket
          MaxTicks,       \* bound on events signalled
          Mischief        \* what goes wrong around the session

ASSUME SessionAssumption ==
  /\ QueueLimit \in Nat \ {0} /\ WireLimit \in Nat \ {0} /\ MaxTicks \in Nat
  /\ Mischief \subseteq {"drop", "stop", "quit", "listen twice", "invalid", "cancel"}

VARIABLES
  tick,        \* events signalled so far
  handler,     \* handle_client: off, running, cancelled, closing, closed
  writer,      \* _writer: off, running, cancelled, ended
  subscribed,  \* handle_event is among the server's subscribers
  queue,       \* _to_write
  posted,      \* events whose handle_event call is on the loop
  tasks,       \* commands whose task runs
  cut,         \* history: commands whose task was cancelled
  open,        \* the socket is open
  toClient,    \* messages in the socket
  toServer,
  phase,       \* the client: off, info, connected, dump, listening, ended,
               \* refused, stuck, confused
  ws,          \* _ws_client: none, or the socket
  futures,     \* _result_futures
  mirror,      \* the number of the last event the client applied
  hurried      \* a command was sent before the client listened

side    == <<handler, writer, subscribed, posted, queue, tasks, cut>>
socket  == <<open, toClient, toServer>>
client  == <<phase, ws, futures, mirror, hurried>>
vars    == <<tick, side, socket, client>>

None == [kind |-> "none"]
Info == [kind |-> "info"]
Dump(n) == [kind |-> "dump", number |-> n]
Event(n) == [kind |-> "event", number |-> n]
Result(c, outcome) == [kind |-> "result", command |-> c, outcome |-> outcome]
Listen == [kind |-> "listen"]
Command(c) == [kind |-> "command", command |-> c]

-----------------------------------------------------------------------------
(***************************************************************************)
(* The server's side.                                                      *)
(***************************************************************************)
Cancelled(state) == IF state = "running" THEN "cancelled" ELSE state

SendDropsOldest(m) ==
  IF Len(queue) < QueueLimit
    THEN queue' = Append(queue, m) /\ UNCHANGED <<handler, writer>>
    ELSE queue' = Append(Tail(queue), m) /\ UNCHANGED <<handler, writer>>

\* _send_message: a client that does not keep up is cancelled.
Send(m) ==
  IF Len(queue) < QueueLimit
    THEN queue' = Append(queue, m) /\ UNCHANGED <<handler, writer>>
    ELSE /\ handler' = Cancelled(handler) /\ writer' = Cancelled(writer)
         /\ UNCHANGED queue

\* handle_client up to its loop.
Accept ==
  /\ handler = "off" /\ open
  /\ handler' = "running" /\ writer' = "running"
  /\ queue' = Append(queue, Info)
  /\ UNCHANGED <<tick, posted, subscribed, tasks, cut, socket, client>>

\* _handle_command for a command with a handler ...
Receive ==
  /\ handler = "running" /\ toServer # <<>> /\ Head(toServer).kind = "command"
  /\ toServer' = Tail(toServer)
  /\ tasks' = tasks \cup {Head(toServer).command}
  /\ UNCHANGED <<tick, posted, handler, writer, subscribed, queue, cut, open, toClient,
                 client>>

\* ... and for one without.
ReceiveInvalid ==
  /\ "invalid" \in Mischief
  /\ handler = "running" /\ toServer # <<>> /\ Head(toServer).kind = "command"
  /\ toServer' = Tail(toServer)
  /\ Send(Result(Head(toServer).command, "error"))
  /\ UNCHANGED <<tick, posted, subscribed, tasks, cut, open, toClient, client>>

StartListeningStale ==
  /\ handler = "running" /\ toServer # <<>> /\ Head(toServer) = Listen
  /\ toServer' = Tail(toServer)
  /\ IF subscribed
       THEN handler' = "cancelled" /\ UNCHANGED <<writer, queue, subscribed>>
       ELSE subscribed' = TRUE /\ Send(Dump(0))
  /\ UNCHANGED <<tick, posted, tasks, cut, open, toClient, client>>

\* _handle_start_listening_command: the dump and the subscription are one
\* step; a second one fails an assertion, which ends the loop.
StartListening ==
  /\ handler = "running" /\ toServer # <<>> /\ Head(toServer) = Listen
  /\ toServer' = Tail(toServer)
  /\ IF subscribed
       THEN handler' = "cancelled" /\ UNCHANGED <<writer, queue, subscribed>>
       ELSE subscribed' = TRUE /\ Send(Dump(tick))
  /\ UNCHANGED <<tick, posted, tasks, cut, open, toClient, client>>

\* _run_handler: one result, of either kind.
Finish(c) ==
  /\ c \in tasks /\ tasks' = tasks \ {c}
  /\ \E outcome \in {"ok", "error"} : Send(Result(c, outcome))
  /\ UNCHANGED <<tick, posted, subscribed, cut, socket, client>>

\* A command that awaits the setup task of a node is cancelled with it by
\* remove_node; _run_handler does not catch that, and no result is sent.
TaskCancelled(c) ==
  /\ "cancel" \in Mischief
  /\ c \in tasks /\ tasks' = tasks \ {c} /\ cut' = cut \cup {c}
  /\ UNCHANGED <<tick, posted, handler, writer, subscribed, queue, socket, client>>

\* signal_event: handle_event is called from the loop, later.
Signal ==
  /\ tick < MaxTicks /\ tick' = tick + 1
  /\ posted' = IF subscribed THEN Append(posted, tick + 1) ELSE posted
  /\ UNCHANGED <<handler, writer, subscribed, queue, tasks, cut, socket, client>>

\* handle_event, also when the session has unsubscribed since.
HandleEvent ==
  /\ posted # <<>> /\ posted' = Tail(posted)
  /\ Send(Event(Head(posted)))
  /\ UNCHANGED <<tick, subscribed, tasks, cut, socket, client>>

\* _writer.
Write ==
  /\ writer = "running" /\ queue # <<>> /\ Head(queue) # None
  /\ open /\ Len(toClient) < WireLimit
  /\ queue' = Tail(queue) /\ toClient' = Append(toClient, Head(queue))
  /\ UNCHANGED <<tick, posted, handler, writer, subscribed, tasks, cut, open, toServer,
                 client>>

WriterEnds ==
  /\ \/ writer = "cancelled"
     \/ writer = "running" /\ ~open
     \/ writer = "running" /\ queue # <<>> /\ Head(queue) = None
  /\ writer' = "ended"
  /\ UNCHANGED <<tick, posted, handler, subscribed, queue, tasks, cut, socket, client>>

\* The finally clause of handle_client, after a cancellation or the end of the
\* socket: unsubscribe, then let the writer finish.
HandlerLeavesSubscribed ==
  /\ handler = "cancelled" \/ (handler = "running" /\ ~open)
  /\ handler' = "closing" /\ UNCHANGED subscribed
  /\ IF Len(queue) < QueueLimit
       THEN queue' = Append(queue, None) /\ UNCHANGED writer
       ELSE writer' = Cancelled(writer) /\ UNCHANGED queue
  /\ UNCHANGED <<tick, posted, tasks, cut, socket, client>>

HandlerLeaves ==
  /\ handler = "cancelled" \/ (handler = "running" /\ ~open)
  /\ handler' = "closing" /\ subscribed' = FALSE
  /\ IF Len(queue) < QueueLimit
       THEN queue' = Append(queue, None) /\ UNCHANGED writer
       ELSE writer' = Cancelled(writer) /\ UNCHANGED queue
  /\ UNCHANGED <<tick, posted, tasks, cut, socket, client>>

\* wsock.close(), by the handler or, when it skips that, by the library.
HandlerCloses ==
  /\ handler = "closing" /\ writer = "ended"
  /\ handler' = "closed" /\ open' = FALSE
  /\ UNCHANGED <<tick, posted, writer, subscribed, queue, tasks, cut, toClient, toServer,
                 client>>

\* disconnect(), when the server stops.
Stop ==
  /\ "stop" \in Mischief /\ handler = "running"
  /\ handler' = "cancelled" /\ writer' = Cancelled(writer)
  /\ UNCHANGED <<tick, posted, subscribed, queue, tasks, cut, socket, client>>

Drop ==
  /\ "drop" \in Mischief /\ open /\ open' = FALSE
  /\ UNCHANGED <<tick, side, toClient, toServer, client>>

-----------------------------------------------------------------------------
(***************************************************************************)
(* The client.                                                             *)
(***************************************************************************)
NextMessage == Head(toClient)
Take == toClient' = Tail(toClient)

Connect ==
  /\ phase = "off" /\ phase' = "info" /\ ws' = "socket" /\ open' = TRUE
  /\ UNCHANGED <<tick, side, toClient, toServer, futures, mirror, hurried>>

\* MatterClientConnection.connect, after the socket is there: what raises here
\* leaves _ws_client set.
ReceiveInfo ==
  /\ phase = "info" /\ toClient # <<>> /\ Take
  /\ \/ phase' = "connected" /\ UNCHANGED open
     \/ phase' = "refused" /\ open' = FALSE   \* the schema does not fit
  /\ UNCHANGED <<tick, side, toServer, ws, futures, mirror, hurried>>

InfoLost ==
  /\ phase = "info" /\ ~open /\ toClient = <<>>
  /\ phase' = "refused"
  /\ UNCHANGED <<tick, side, socket, ws, futures, mirror, hurried>>

\* connect() once more: "Already connected" if _ws_client is set.
ConnectAgain ==
  /\ phase = "refused"
  /\ IF ws = "none" THEN phase' = "off" ELSE phase' = "stuck"
  /\ UNCHANGED <<tick, side, socket, ws, futures, mirror, hurried>>

\* start_listening.
AskToListen ==
  /\ phase = "connected" /\ open
  /\ phase' = "dump" /\ toServer' = Append(toServer, Listen)
  /\ UNCHANGED <<tick, side, open, toClient, ws, futures, mirror, hurried>>

\* send_command.
SendCommand(c) ==
  /\ futures[c] = "none" /\ ws = "socket" /\ open
  /\ phase \in {"info", "connected", "dump", "listening"}
  /\ hurried' = (hurried \/ phase # "listening")
  /\ futures' = [futures EXCEPT ![c] = "pending"]
  /\ toServer' = Append(toServer, Command(c))
  /\ UNCHANGED <<tick, side, open, toClient, phase, ws, mirror>>

\* _handle_incoming_message.
ReceiveEvent ==
  /\ phase = "listening" /\ toClient # <<>> /\ NextMessage.kind = "event" /\ Take
  /\ mirror' = NextMessage.number
  /\ UNCHANGED <<tick, side, open, toServer, phase, ws, futures, hurried>>

ReceiveResult ==
  /\ phase = "listening" /\ toClient # <<>> /\ NextMessage.kind = "result" /\ Take
  /\ futures' = [futures EXCEPT ![NextMessage.command] =
                   IF @ = "pending" THEN NextMessage.outcome ELSE @]
  /\ UNCHANGED <<tick, side, open, toServer, phase, ws, mirror, hurried>>

Settle == [c \in Commands |-> IF futures[c] = "pending" THEN "cancelled" ELSE futures[c]]

DisconnectForgets == ws' = "none" /\ open' = FALSE /\ UNCHANGED futures

\* disconnect().
Disconnect == ws' = "none" /\ open' = FALSE /\ futures' = Settle

\* The next message is taken for the dump, whatever it is; another one makes
\* start_listening raise, and its finally clause disconnects.  (The answer to
\* another command that is a list of nodes itself would pass for the dump: such
\* a client is not followed.)
ReceiveDump ==
  /\ phase = "dump" /\ toClient # <<>> /\ Take
  /\ IF NextMessage.kind = "dump"
       THEN /\ phase' = "listening" /\ mirror' = NextMessage.number
            /\ UNCHANGED <<open, ws, futures>>
       ELSE /\ phase' = "confused" /\ Disconnect
            /\ UNCHANGED mirror
  /\ UNCHANGED <<tick, side, toServer, hurried>>

\* start_listening's loop sees the end of the socket.
LoseConnection ==
  /\ phase \in {"dump", "listening"} /\ ~open /\ toClient = <<>>
  /\ phase' = "ended" /\ Disconnect
  /\ UNCHANGED <<tick, side, toClient, toServer, mirror, hurried>>

\* disconnect() is called, or start_listening a second time, which sends the
\* command again before it fails.
Quit ==
  /\ phase \in {"connected", "listening"}
  /\ phase' = "ended" /\ Disconnect
  /\ \/ "quit" \in Mischief /\ UNCHANGED toServer
     \/ /\ "listen twice" \in Mischief /\ phase = "listening" /\ open
        /\ toServer' = Append(toServer, Listen)
  /\ UNCHANGED <<tick, side, toClient, mirror, hurried>>

-----------------------------------------------------------------------------
Init ==
  /\ tick = 0 /\ handler = "off" /\ writer = "off" /\ subscribed = FALSE
  /\ posted = <<>> /\ queue = <<>> /\ tasks = {} /\ cut = {}
  /\ open = FALSE /\ toClient = <<>> /\ toServer = <<>>
  /\ phase = "off" /\ ws = "none" /\ mirror = 0 /\ hurried = FALSE
  /\ futures = [c \in Commands |-> "none"]

ServerStep ==
  \/ Accept \/ Receive \/ ReceiveInvalid \/ StartListening
  \/ \E c \in Commands : Finish(c)
  \/ HandleEvent \/ HandlerLeaves \/ HandlerCloses

WriterStep == Write \/ WriterEnds

ClientStep ==
  \/ ReceiveInfo \/ InfoLost \/ AskToListen \/ ReceiveDump
  \/ ReceiveEvent \/ ReceiveResult \/ LoseConnection

Next ==
  \/ ServerStep \/ WriterStep \/ ClientStep
  \/ Connect \/ ConnectAgain \/ Signal \/ Stop \/ Drop \/ Quit
  \/ \E c \in Commands : SendCommand(c) \/ TaskCancelled(c)

Spec == Init /\ [][Next]_vars

\* The two event loops run what is ready; the commands of the server end.
FairSpec == Spec /\ WF_vars(ServerStep) /\ WF_vars(WriterStep) /\ WF_vars(ClientStep)

-----------------------------------------------------------------------------
(***************************************************************************)
(* Properties.                                                             *)
(***************************************************************************)
ToClient == {None, Info} \cup {Dump(n) : n \in 0..MaxTicks} \cup {Event(n) : n \in 1..MaxTicks}
            \cup {Result(c, o) : c \in Commands, o \in {"ok", "error"}}
ToServer == {Listen} \cup {Command(c) : c \in Commands}

TypeOK ==
  /\ tick \in 0..MaxTicks /\ subscribed \in BOOLEAN
  /\ tasks \subseteq Commands /\ cut \subseteq Commands
  /\ handler \in {"off", "running", "cancelled", "closing", "closed"}
  /\ writer \in {"off", "running", "cancelled", "ended"}
  /\ posted \in Seq(1..MaxTicks)
  /\ queue \in Seq(ToClient) /\ Len(queue) <= QueueLimit
  /\ toClient \in Seq(ToClient \ {None}) /\ toServer \in Seq(ToServer)
  /\ open \in BOOLEAN /\ ws \in {"none", "socket"} /\ mirror \in 0..MaxTicks
  /\ hurried \in BOOLEAN
  /\ phase \in {"off", "info", "connected", "dump", "listening", "ended",
                "refused", "stuck", "confused"}
  /\ futures \in [Commands -> {"none", "pending", "ok", "error", "cancelled"}]

\* The events in s are those numbered from after to last, in their order.
Run(s, after, last) ==
  LET events == {i \in DOMAIN s : s[i].kind = "event"}
  IN /\ {s[i].number : i \in events} = (after + 1)..last
     /\ \A i, j \in events : i < j => s[i].number < s[j].number

\* The first message after START_LISTENING is the dump of all nodes (client.py:
\* "a full dump of all nodes will be the result of the start_listening
\* command"), unless the client sent a command before it listened; and while
\* the session is served, what a listening client has and what is on its way
\* to it (sent, queued or still posted) are all the events there were, in order.
\* (The dump and the subscription in one step, one queue, and no event dropped
\* on overflow.)
NothingMissed ==
  /\ phase = "confused" => hurried
  /\ phase = "listening" /\ handler = "running" =>
       \E sent, queued \in mirror..tick :
         /\ Run(toClient, mirror, sent) /\ Run(queue, sent, queued)
         /\ posted = [i \in 1..(tick - queued) |-> queued + i]

\* The client's session is a stream of events: it begins with a dump of a state
\* the server has had, then every event is applied after the one before it and
\* none before it was signalled, also while the session is being torn down, and
\* none once it is.
Events == INSTANCE EventStream WITH
  happened <- tick,
  has      <- mirror,
  stage    <- CASE phase = "listening" -> "listening"
                [] phase \in {"ended", "confused"} -> "over"
                [] OTHER -> "before"

ImplementsEventStream == Events!Spec

\* A session that is torn down ends, and leaves no subscription behind.
SessionEnds == handler \in {"cancelled", "closing"} ~> handler = "closed" /\ ~subscribed

\* Every command a listening client sends is answered or cancelled, unless its
\* task in the server was: then the client waits for as long as it is connected.
CommandsEnd ==
  \A c \in Commands :
    futures[c] = "pending" /\ ~hurried ~> futures[c] # "pending" \/ hurried \/ c \in cut
=============================================================================
