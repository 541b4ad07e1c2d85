------------------------ MODULE ClientSessionProofs ------------------------
(***************************************************************************)
(* Proofs about ClientSession, for any number of commands and events and   *)
(* any size of the queue and the socket: a client that is served has every *)
(* event or will be sent it, and what a client applies is a stream of      *)
(* events as EventStream has it.                                           *)
(***************************************************************************)
EXTENDS ClientSession, Integers, SequenceTheorems, TLAPS

\* What a message is, from its kind.
LEMMA Kinds ==
  ASSUME NEW m \in ToClient
  PROVE  /\ m.kind \in {"none", "info", "dump", "event", "result"}
         /\ m.kind = "none" <=> m = None
         /\ m.kind = "dump" => m.number \in 0..MaxTicks
         /\ m.kind = "event" => m.number \in 1..MaxTicks
         /\ m.kind = "result" => m.command \in Commands /\ m.outcome \in {"ok", "error"}
  BY DEF ToClient, None, Info, Dump, Event, Result

LEMMA Messages ==
  /\ None \in ToClient /\ Info \in ToClient
  /\ \A k \in 0..MaxTicks : Dump(k) \in ToClient
  /\ \A k \in 1..MaxTicks : Event(k) \in ToClient
  /\ \A c \in Commands, o \in {"ok", "error"} : Result(c, o) \in ToClient
  BY DEF ToClient

-----------------------------------------------------------------------------
(***************************************************************************)
(* Types.                                                                  *)
(***************************************************************************)
LEMMA SendTypes ==
  ASSUME TypeOK, NEW m \in ToClient, Send(m)
  PROVE  /\ handler' \in {"off", "running", "cancelled", "closing", "closed"}
         /\ writer' \in {"off", "running", "cancelled", "ended"}
         /\ queue' \in Seq(ToClient) /\ Len(queue') <= QueueLimit
<1>1. queue \in Seq(ToClient) /\ Len(queue) <= QueueLimit /\ Len(queue) \in Nat
      /\ QueueLimit \in Nat
      /\ handler \in {"off", "running", "cancelled", "closing", "closed"}
      /\ writer \in {"off", "running", "cancelled", "ended"}
  BY LenProperties, SessionAssumption DEF TypeOK
<1>2. Append(queue, m) \in Seq(ToClient) /\ Len(Append(queue, m)) = Len(queue) + 1
  BY <1>1, AppendProperties
<1>3. QED
  BY <1>1, <1>2 DEF Send, Cancelled

\* Nothing is there before the session is accepted.
IdleInv ==
  handler = "off" => /\ writer = "off" /\ queue = <<>> /\ toClient = <<>>
                     /\ posted = <<>> /\ tasks = {} /\ ~subscribed

LEMMA IdleStep == IdleInv /\ [Next]_vars => IdleInv'
<1> SUFFICES ASSUME IdleInv, [Next]_vars, handler' = "off" PROVE IdleInv'
  BY DEF IdleInv
<1>1. CASE ServerStep
  BY <1>1 DEF ServerStep, Accept, Receive, ReceiveInvalid, StartListening, Finish, HandleEvent,
              HandlerLeaves, HandlerCloses, Send, Cancelled, IdleInv
<1>2. CASE WriterStep
  BY <1>2 DEF WriterStep, Write, WriterEnds, IdleInv
<1>3. CASE ClientStep
  BY <1>3 DEF ClientStep, ReceiveInfo, InfoLost, AskToListen, ReceiveDump, ReceiveEvent,
              ReceiveResult, LoseConnection, side, socket, IdleInv
<1>4. CASE UNCHANGED vars \/ Connect \/ ConnectAgain \/ Signal \/ Stop \/ Drop \/ Quit
             \/ \E c \in Commands : SendCommand(c) \/ TaskCancelled(c)
  BY <1>4 DEF vars, side, socket, Connect, ConnectAgain, Signal, Stop, Drop, Quit,
              SendCommand, TaskCancelled, IdleInv
<1>5. QED
  BY <1>1, <1>2, <1>3, <1>4 DEF Next

LEMMA Types == TypeOK /\ IdleInv /\ [Next]_vars => TypeOK'
<1> SUFFICES ASSUME TypeOK, IdleInv, [Next]_vars PROVE TypeOK'
  OBVIOUS
<1>a. /\ queue \in Seq(ToClient) /\ Len(queue) \in Nat /\ Len(queue) <= QueueLimit
      /\ toClient \in Seq(ToClient \ {None}) /\ toServer \in Seq(ToServer)
      /\ posted \in Seq(1..MaxTicks) /\ tick \in 0..MaxTicks /\ QueueLimit \in Nat \ {0}
      /\ MaxTicks \in Nat
  BY LenProperties, SessionAssumption DEF TypeOK
<1>b. ASSUME toServer # <<>>
      PROVE  Head(toServer) \in ToServer /\ Tail(toServer) \in Seq(ToServer)
  BY <1>a, <1>b, HeadTailProperties
<1>c. ASSUME toClient # <<>>
      PROVE  NextMessage \in ToClient \ {None} /\ Tail(toClient) \in Seq(ToClient \ {None})
  BY <1>a, <1>c, HeadTailProperties DEF NextMessage
<1>d. ASSUME queue # <<>>
      PROVE  /\ Head(queue) \in ToClient /\ Tail(queue) \in Seq(ToClient)
             /\ Len(Tail(queue)) = Len(queue) - 1
  BY <1>a, <1>d, HeadTailProperties
<1>1. CASE Accept
  <2>1. queue' \in Seq(ToClient) /\ Len(queue') = Len(queue) + 1
    BY <1>1, <1>a, Messages, AppendProperties DEF Accept
  <2>2. Len(queue') <= QueueLimit
    BY <1>1, <1>a, <2>1 DEF Accept, IdleInv
  <2>3. QED
    BY <1>1, <2>1, <2>2 DEF Accept, TypeOK, socket, client
<1>2. CASE Receive
  <2>1. Head(toServer).command \in Commands
    BY <1>2, <1>b DEF Receive, ToServer, Listen, Command
  <2>2. QED
    BY <1>2, <1>b, <2>1 DEF Receive, TypeOK, client
<1>3. CASE ReceiveInvalid
  <2>1. Result(Head(toServer).command, "error") \in ToClient
    BY <1>3, <1>b, Messages DEF ReceiveInvalid, ToServer, Listen, Command
  <2>2. QED
    BY <1>3, <1>b, <2>1, SendTypes DEF ReceiveInvalid, TypeOK, client
<1>4. CASE StartListening
  <2>1. Dump(tick) \in ToClient
    BY <1>a, Messages
  <2>2. CASE subscribed
    BY <1>4, <1>b, <2>2 DEF StartListening, TypeOK, client
  <2>3. CASE ~subscribed
    BY <1>4, <1>b, <2>1, <2>3, SendTypes DEF StartListening, TypeOK, client
  <2>4. QED
    BY <2>2, <2>3
<1>5. ASSUME NEW c \in Commands, Finish(c) \/ TaskCancelled(c)
      PROVE  TypeOK'
  <2>1. CASE Finish(c)
    <3>1. PICK outcome \in {"ok", "error"} : Send(Result(c, outcome))
      BY <2>1 DEF Finish
    <3>2. Result(c, outcome) \in ToClient
      BY Messages
    <3>3. QED
      BY <2>1, <3>1, <3>2, SendTypes DEF Finish, TypeOK, socket, client
  <2>2. CASE TaskCancelled(c)
    BY <2>2 DEF TaskCancelled, TypeOK, socket, client
  <2>3. QED
    BY <1>5, <2>1, <2>2
<1>6. CASE Signal
  <2>1. tick + 1 \in 1..MaxTicks
    BY <1>6, <1>a DEF Signal
  <2>2. posted' \in Seq(1..MaxTicks)
    BY <1>6, <1>a, <2>1, AppendProperties DEF Signal
  <2>3. QED
    BY <1>6, <2>1, <2>2 DEF Signal, TypeOK, socket, client
<1>7. CASE HandleEvent
  <2>1. Head(posted) \in 1..MaxTicks /\ posted' \in Seq(1..MaxTicks)
    BY <1>7, <1>a, HeadTailProperties DEF HandleEvent
  <2>2. Event(Head(posted)) \in ToClient
    BY <2>1, Messages
  <2>3. QED
    BY <1>7, <2>1, <2>2, SendTypes DEF HandleEvent, TypeOK, socket, client
<1>8. CASE Write
  <2>1. Append(toClient, Head(queue)) \in Seq(ToClient \ {None})
    BY <1>8, <1>a, <1>d, AppendProperties DEF Write
  <2>2. QED
    BY <1>8, <1>a, <1>d, <2>1 DEF Write, TypeOK, client
<1>9. CASE WriterEnds \/ HandlerCloses \/ Stop \/ Drop
  <2>1. CASE WriterEnds
    BY <2>1 DEF WriterEnds, TypeOK, socket, client
  <2>2. CASE HandlerCloses \/ Drop
    BY <2>2 DEF HandlerCloses, Drop, TypeOK, side, socket, client
  <2>3. CASE Stop
    <3>1. writer' \in {"off", "running", "cancelled", "ended"}
      BY <2>3 DEF Stop, Cancelled, TypeOK
    <3>2. QED
      BY <2>3, <3>1 DEF Stop, TypeOK, socket, client
  <2>4. QED
    BY <1>9, <2>1, <2>2, <2>3
<1>10. CASE HandlerLeaves
  <2>1. Append(queue, None) \in Seq(ToClient) /\ Len(Append(queue, None)) = Len(queue) + 1
    BY <1>a, Messages, AppendProperties
  <2>2. /\ writer' \in {"off", "running", "cancelled", "ended"}
        /\ queue' \in Seq(ToClient) /\ Len(queue') <= QueueLimit
    <3>1. writer \in {"off", "running", "cancelled", "ended"}
      BY DEF TypeOK
    <3>2. CASE Len(queue) < QueueLimit
      <4>1. queue' = Append(queue, None) /\ writer' = writer
        BY <1>10, <3>2 DEF HandlerLeaves
      <4>2. QED
        BY <1>a, <2>1, <3>1, <3>2, <4>1
    <3>3. CASE ~(Len(queue) < QueueLimit)
      BY <1>10, <1>a, <3>1, <3>3 DEF HandlerLeaves, Cancelled
    <3>4. QED
      BY <3>2, <3>3
  <2>3. QED
    BY <1>10, <2>2 DEF HandlerLeaves, TypeOK, socket, client
<1>11. CASE Connect \/ InfoLost \/ ConnectAgain
  BY <1>11 DEF Connect, InfoLost, ConnectAgain, TypeOK, side, socket
<1>12. CASE ReceiveInfo
  BY <1>12, <1>c DEF ReceiveInfo, Take, TypeOK, side
<1>13. CASE AskToListen
  <2>1. Append(toServer, Listen) \in Seq(ToServer)
    BY <1>a, AppendProperties DEF ToServer
  <2>2. QED
    BY <1>13, <2>1 DEF AskToListen, TypeOK, side
<1>14. CASE ReceiveDump
  <2>1. NextMessage.kind = "dump" => NextMessage.number \in 0..MaxTicks
    BY <1>14, <1>c, Kinds DEF ReceiveDump
  <2>2. CASE NextMessage.kind = "dump"
    BY <1>14, <1>c, <2>1, <2>2 DEF ReceiveDump, Take, TypeOK, side
  <2>3. CASE NextMessage.kind # "dump"
    BY <1>14, <1>c, <2>3 DEF ReceiveDump, Disconnect, Settle, Take, TypeOK, side
  <2>4. QED
    BY <2>2, <2>3
<1>15. ASSUME NEW c \in Commands, SendCommand(c)
       PROVE  TypeOK'
  <2>1. Append(toServer, Command(c)) \in Seq(ToServer)
    BY <1>a, AppendProperties DEF ToServer
  <2>2. QED
    BY <1>15, <2>1 DEF SendCommand, TypeOK, side
<1>16. CASE ReceiveEvent
  <2>1. NextMessage.number \in 0..MaxTicks
    BY <1>16, <1>a, <1>c, Kinds DEF ReceiveEvent
  <2>2. QED
    BY <1>16, <1>c, <2>1 DEF ReceiveEvent, Take, TypeOK, side
<1>17. CASE ReceiveResult
  <2>1. NextMessage.outcome \in {"ok", "error"}
    BY <1>17, <1>c, Kinds DEF ReceiveResult
  <2>2. QED
    BY <1>17, <1>c, <2>1 DEF ReceiveResult, Take, TypeOK, side
<1>18. CASE LoseConnection \/ Quit
  <2>1. Append(toServer, Listen) \in Seq(ToServer)
    BY <1>a, AppendProperties DEF ToServer
  <2>2. QED
    BY <1>18, <2>1 DEF LoseConnection, Quit, Disconnect, Settle, TypeOK, side
<1>19. CASE UNCHANGED vars
  BY <1>19 DEF vars, side, socket, client, TypeOK
<1>20. QED
  BY <1>1, <1>2, <1>3, <1>4, <1>5, <1>6, <1>7, <1>8, <1>9, <1>10, <1>11, <1>12, <1>13, <1>14,
     <1>15, <1>16, <1>17, <1>18, <1>19 DEF Next, ServerStep, WriterStep, ClientStep

TypeInv == TypeOK /\ IdleInv

LEMMA TypeStart == Init => TypeInv
<1> SUFFICES ASSUME Init PROVE TypeInv
  OBVIOUS
<1>1. /\ queue \in Seq(ToClient) /\ toClient \in Seq(ToClient \ {None})
      /\ toServer \in Seq(ToServer) /\ posted \in Seq(1..MaxTicks) /\ Len(queue) = 0
  BY EmptySeq DEF Init
<1>2. MaxTicks \in Nat /\ QueueLimit \in Nat
  BY SessionAssumption
<1>3. tick \in 0..MaxTicks /\ mirror \in 0..MaxTicks /\ Len(queue) <= QueueLimit
  BY <1>1, <1>2 DEF Init
<1>4. QED
  BY <1>1, <1>3 DEF Init, TypeInv, TypeOK, IdleInv

LEMMA TypeStep == TypeInv /\ [Next]_vars => TypeInv'
  BY Types, IdleStep DEF TypeInv

\* Every variable keeps its type; the queue in particular keeps to its limit,
\* whatever the client reads or does not.
THEOREM SessionTypes == Spec => []TypeOK
<1>1. TypeInv => TypeOK
  BY DEF TypeInv
<1>2. QED
  BY <1>1, TypeStart, TypeStep, PTL DEF Spec

-----------------------------------------------------------------------------
(***************************************************************************)
(* The beginning of a session.  The information about the server is the    *)
(* first message; a client that sends no command before it listens is sent *)
(* nothing else before the dump.                                           *)
(***************************************************************************)
Early == {"off", "info", "connected", "dump"}

\* s has no message of the kind.
Lacks(s, kind) == \A i \in DOMAIN s : s[i].kind # kind
\* Its first message is the only one about the server.
Informs(s) == /\ s # <<>> /\ s[1].kind = "info"
              /\ \A i \in DOMAIN s : i # 1 => s[i].kind # "info"

LEMMA AppendLacks ==
  ASSUME NEW S, NEW s \in Seq(S), NEW m \in S, NEW kind, m.kind # kind, Lacks(s, kind)
  PROVE  Lacks(Append(s, m), kind)
<1>1. /\ DOMAIN Append(s, m) = 1..(Len(s) + 1) /\ DOMAIN s = 1..Len(s) /\ Len(s) \in Nat
      /\ \A i \in 1..Len(s) : Append(s, m)[i] = s[i]
      /\ Append(s, m)[Len(s) + 1] = m
  BY AppendProperties, LenProperties
<1>2. QED
  BY <1>1 DEF Lacks

LEMMA TailLacks ==
  ASSUME NEW S, NEW s \in Seq(S), s # <<>>, NEW kind, Lacks(s, kind)
  PROVE  Lacks(Tail(s), kind) /\ Head(s).kind # kind
<1>1. /\ DOMAIN Tail(s) = 1..(Len(s) - 1) /\ DOMAIN s = 1..Len(s) /\ Len(s) \in Nat \ {0}
      /\ \A i \in 1..(Len(s) - 1) : Tail(s)[i] = s[i + 1]
      /\ Head(s) = s[1]
  BY HeadTailProperties, LenProperties, EmptySeq
<1>2. QED
  BY <1>1 DEF Lacks

LEMMA AppendInforms ==
  ASSUME NEW S, NEW s \in Seq(S), NEW m \in S
  PROVE  /\ m.kind # "info" /\ Informs(s) => Informs(Append(s, m))
         /\ m.kind = "info" /\ s = <<>> => Informs(Append(s, m))
<1>1. /\ DOMAIN Append(s, m) = 1..(Len(s) + 1) /\ DOMAIN s = 1..Len(s) /\ Len(s) \in Nat
      /\ \A i \in 1..Len(s) : Append(s, m)[i] = s[i]
      /\ Append(s, m)[Len(s) + 1] = m
      /\ Append(s, m) # <<>> /\ (s = <<>> <=> Len(s) = 0)
  BY AppendProperties, LenProperties, EmptySeq
<1>2. QED
  BY <1>1 DEF Informs

LEMMA TailInforms ==
  ASSUME NEW S, NEW s \in Seq(S), Informs(s)
  PROVE  Lacks(Tail(s), "info") /\ Head(s).kind = "info"
<1>1. /\ DOMAIN Tail(s) = 1..(Len(s) - 1) /\ DOMAIN s = 1..Len(s) /\ Len(s) \in Nat \ {0}
      /\ \A i \in 1..(Len(s) - 1) : Tail(s)[i] = s[i + 1]
      /\ Head(s) = s[1]
  BY HeadTailProperties, LenProperties, EmptySeq DEF Informs
<1>2. QED
  BY <1>1 DEF Informs, Lacks

StartInv ==
  /\ phase = "off" => ~open /\ handler = "off"
  /\ phase \in {"info", "refused"} => ws = "socket"
  /\ phase = "info" /\ handler # "off" => \/ Informs(toClient) /\ Lacks(queue, "info")
                                          \/ toClient = <<>> /\ Informs(queue)
  /\ phase \in {"connected", "dump", "listening"} =>
       handler # "off" /\ Lacks(toClient, "info") /\ Lacks(queue, "info")

HurriedInv ==
  /\ phase = "confused" => hurried
  /\ phase \in Early /\ ~hurried =>
       Lacks(toServer, "command") /\ tasks = {} /\ Lacks(toClient, "result") /\ Lacks(queue, "result")

\* What Send does to the queue: it may close the session instead.
LEMMA SendKeeps ==
  ASSUME TypeInv, NEW m \in ToClient, Send(m), m.kind # "info"
  PROVE  /\ Lacks(queue, "info") => Lacks(queue, "info")'
         /\ Informs(queue) => Informs(queue)'
         /\ m.kind # "result" /\ Lacks(queue, "result") => Lacks(queue, "result")'
         /\ handler' = "off" => handler = "off"
         /\ queue' = <<>> => queue = <<>>
<1>1. queue \in Seq(ToClient)
  BY DEF TypeInv, TypeOK
<1>2. /\ queue' = Append(queue, m) \/ queue' = queue
      /\ handler' = "off" => handler = "off"
  BY DEF Send, Cancelled
<1>3. Append(queue, m) # <<>>
  BY <1>1, AppendProperties
<1>4. QED
  BY <1>1, <1>2, <1>3, AppendLacks, AppendInforms

LEMMA StartStep ==
  ASSUME TypeInv, StartInv, [Next]_vars
  PROVE  StartInv'
<1>a. /\ queue \in Seq(ToClient) /\ toClient \in Seq(ToClient \ {None}) /\ toClient \in Seq(ToClient)
      /\ toServer \in Seq(ToServer) /\ posted \in Seq(1..MaxTicks)
      /\ handler = "off" => queue = <<>> /\ toClient = <<>> /\ posted = <<>> /\ tasks = {}
  BY DEF TypeInv, TypeOK, IdleInv
<1>1. CASE Accept
  <2>1. Informs(queue') /\ toClient' = <<>>
    BY <1>1, <1>a, Messages, AppendInforms DEF Accept, Info, socket
  <2>2. QED
    BY <1>1, <2>1 DEF Accept, StartInv, socket, client
<1>2. ASSUME NEW m \in ToClient, m.kind # "info", Send(m), handler # "off",
             UNCHANGED <<phase, ws, open, toClient>>
      PROVE  StartInv'
  <2>1. handler' # "off"
    BY <1>2 DEF Send, Cancelled
  <2>2. QED
    BY <1>2, <2>1, SendKeeps DEF StartInv, Informs, Lacks
<1>3. CASE ReceiveInvalid
  <2>1. Head(toServer).command \in Commands
    BY <1>3, <1>a, HeadTailProperties DEF ReceiveInvalid, ToServer, Listen, Command
  <2>2. Result(Head(toServer).command, "error") \in ToClient
        /\ Result(Head(toServer).command, "error").kind # "info"
    BY <2>1, Messages DEF Result
  <2>3. QED
    BY <1>3, <2>2, <1>2 DEF ReceiveInvalid, client
<1>4. CASE StartListening
  <2>1. Dump(tick) \in ToClient /\ Dump(tick).kind # "info"
    BY Messages DEF TypeInv, TypeOK, Dump
  <2>2. CASE subscribed
    BY <1>4, <2>2 DEF StartListening, StartInv, client
  <2>3. CASE ~subscribed
    BY <1>4, <2>1, <2>3, <1>2 DEF StartListening, client
  <2>4. QED
    BY <2>2, <2>3
<1>5. ASSUME NEW c \in Commands, Finish(c)
      PROVE  StartInv'
  <2>1. PICK outcome \in {"ok", "error"} : Send(Result(c, outcome))
    BY <1>5 DEF Finish
  <2>2. Result(c, outcome) \in ToClient /\ Result(c, outcome).kind # "info"
    BY Messages DEF Result
  <2>3. QED
    BY <1>5, <1>a, <2>1, <2>2, <1>2 DEF Finish, socket, client
<1>6. CASE HandleEvent
  <2>1. Head(posted) \in 1..MaxTicks
    BY <1>6, <1>a, HeadTailProperties DEF HandleEvent
  <2>2. Event(Head(posted)) \in ToClient /\ Event(Head(posted)).kind # "info"
    BY <2>1, Messages DEF Event
  <2>3. QED
    BY <1>6, <1>a, <2>2, <1>2 DEF HandleEvent, socket, client
<1>7. CASE Write
  <2>1. /\ queue' = Tail(queue) /\ toClient' = Append(toClient, Head(queue)) /\ queue # <<>>
        /\ Head(queue) \in ToClient /\ UNCHANGED <<phase, ws, open, handler>>
    BY <1>7, <1>a, HeadTailProperties DEF Write, client
  <2>2. Lacks(queue, "info") => Lacks(queue', "info") /\ Head(queue).kind # "info"
    BY <1>a, <2>1, TailLacks
  <2>3. Informs(queue) => Lacks(queue', "info") /\ Head(queue).kind = "info"
    BY <1>a, <2>1, TailInforms
  <2>4. /\ Head(queue).kind # "info" /\ Informs(toClient) => Informs(toClient')
        /\ Head(queue).kind = "info" /\ toClient = <<>> => Informs(toClient')
        /\ Head(queue).kind # "info" /\ Lacks(toClient, "info") => Lacks(toClient', "info")
    BY <1>a, <2>1, AppendInforms, AppendLacks
  <2>5. QED
    BY <2>1, <2>2, <2>3, <2>4 DEF StartInv
<1>8. CASE HandlerLeaves
  <2>1. UNCHANGED <<phase, ws, open, toClient>> /\ handler # "off" /\ handler' # "off"
        /\ (queue' = queue \/ queue' = Append(queue, None))
    BY <1>8 DEF HandlerLeaves, socket, client
  <2>2. /\ Lacks(queue, "info") => Lacks(queue', "info")
        /\ Informs(queue) => Informs(queue')
    <3>1. None \in ToClient /\ None.kind # "info"
      BY Messages DEF None
    <3>2. QED
      BY <1>a, <2>1, <3>1, AppendLacks, AppendInforms
  <2>3. QED
    BY <2>1, <2>2 DEF StartInv
<1>9. CASE ReceiveInfo
  <2>1. handler # "off" /\ Informs(toClient) /\ Lacks(queue, "info")
    BY <1>9, <1>a DEF ReceiveInfo, StartInv
  <2>2. Lacks(toClient', "info")
    BY <1>9, <1>a, <2>1, TailInforms DEF ReceiveInfo, Take
  <2>3. QED
    BY <1>9, <2>1, <2>2 DEF ReceiveInfo, StartInv, side
<1>10. CASE ReceiveDump \/ ReceiveEvent \/ ReceiveResult
  <2>1. /\ phase \in {"dump", "listening"} /\ phase' \in {"listening", "confused"}
        /\ toClient # <<>> /\ toClient' = Tail(toClient) /\ UNCHANGED <<handler, queue>>
    BY <1>10 DEF ReceiveDump, ReceiveEvent, ReceiveResult, Take, side
  <2>2. Lacks(toClient', "info")
    BY <1>a, <2>1, TailLacks DEF StartInv
  <2>3. QED
    BY <2>1, <2>2 DEF StartInv
<1>11. CASE Receive \/ WriterEnds \/ HandlerCloses \/ Signal \/ Stop \/ Drop
         \/ \E c \in Commands : SendCommand(c) \/ TaskCancelled(c)
  BY <1>11 DEF Receive, WriterEnds, HandlerCloses, Signal, Stop, Drop, SendCommand, TaskCancelled,
               StartInv, side, socket, client
<1>12. CASE Connect \/ InfoLost \/ AskToListen \/ ConnectAgain \/ LoseConnection \/ Quit
  BY <1>12, <1>a DEF Connect, InfoLost, AskToListen, ConnectAgain, LoseConnection, Quit, Disconnect,
                     StartInv, side, socket
<1>13. CASE UNCHANGED vars
  BY <1>13 DEF vars, side, socket, client, StartInv
<1>14. QED
  BY <1>1, <1>3, <1>4, <1>5, <1>6, <1>7, <1>8, <1>9, <1>10, <1>11, <1>12, <1>13
     DEF Next, ServerStep, WriterStep, ClientStep

LEMMA HurriedStep ==
  ASSUME TypeInv, StartInv, HurriedInv, [Next]_vars, ReceiveDump => phase' # "confused" \/ hurried
  PROVE  HurriedInv'
<1>a. /\ queue \in Seq(ToClient) /\ toClient \in Seq(ToClient \ {None}) /\ toClient \in Seq(ToClient)
      /\ toServer \in Seq(ToServer) /\ posted \in Seq(1..MaxTicks)
  BY DEF TypeInv, TypeOK
<1>1. CASE Accept
  <2>1. Lacks(queue, "result") => Lacks(queue', "result")
    <3>1. Info \in ToClient /\ Info.kind # "result"
      BY Messages DEF Info
    <3>2. QED
      BY <1>1, <1>a, <3>1, AppendLacks DEF Accept
  <2>2. QED
    BY <1>1, <2>1 DEF Accept, HurriedInv, socket, client
<1>2. CASE Receive \/ ReceiveInvalid
  <2>1. ~Lacks(toServer, "command")
    BY <1>2, <1>a, TailLacks DEF Receive, ReceiveInvalid
  <2>2. QED
    BY <1>2, <2>1 DEF Receive, ReceiveInvalid, HurriedInv, client
<1>3. CASE StartListening
  <2>1. /\ Dump(tick) \in ToClient /\ Dump(tick).kind # "info" /\ Dump(tick).kind # "result"
        /\ toServer # <<>> /\ toServer' = Tail(toServer) /\ UNCHANGED <<tasks, toClient, client>>
    BY <1>3, Messages DEF StartListening, TypeInv, TypeOK, Dump
  <2>2. Lacks(toServer, "command") => Lacks(toServer', "command")
    BY <1>a, <2>1, TailLacks
  <2>3. Lacks(queue, "result") => Lacks(queue', "result")
    BY <1>3, <2>1, SendKeeps DEF StartListening
  <2>4. QED
    BY <2>1, <2>2, <2>3 DEF HurriedInv, client
<1>4. ASSUME NEW c \in Commands, Finish(c) \/ TaskCancelled(c)
      PROVE  HurriedInv'
  <2>1. tasks # {} /\ UNCHANGED <<phase, hurried>>
    BY <1>4 DEF Finish, TaskCancelled, client
  <2>2. QED
    BY <2>1 DEF HurriedInv
<1>5. CASE HandleEvent
  <2>1. Head(posted) \in 1..MaxTicks
    BY <1>5, <1>a, HeadTailProperties DEF HandleEvent
  <2>2. Event(Head(posted)) \in ToClient /\ Event(Head(posted)).kind # "info"
        /\ Event(Head(posted)).kind # "result"
    BY <2>1, Messages DEF Event
  <2>3. Lacks(queue, "result") => Lacks(queue', "result")
    BY <1>5, <2>2, SendKeeps DEF HandleEvent
  <2>4. QED
    BY <1>5, <2>3 DEF HandleEvent, HurriedInv, socket, client
<1>6. CASE Write
  <2>1. /\ queue' = Tail(queue) /\ toClient' = Append(toClient, Head(queue)) /\ queue # <<>>
        /\ Head(queue) \in ToClient /\ UNCHANGED <<phase, hurried, tasks, toServer>>
    BY <1>6, <1>a, HeadTailProperties DEF Write, client
  <2>2. Lacks(queue, "result") => Lacks(queue', "result") /\ Head(queue).kind # "result"
    BY <1>a, <2>1, TailLacks
  <2>3. Head(queue).kind # "result" /\ Lacks(toClient, "result") => Lacks(toClient', "result")
    BY <1>a, <2>1, AppendLacks
  <2>4. QED
    BY <2>1, <2>2, <2>3 DEF HurriedInv
<1>7. CASE HandlerLeaves
  <2>1. UNCHANGED <<phase, hurried, tasks, toServer, toClient>>
        /\ (queue' = queue \/ queue' = Append(queue, None))
    BY <1>7 DEF HandlerLeaves, socket, client
  <2>2. Lacks(queue, "result") => Lacks(queue', "result")
    <3>1. None \in ToClient /\ None.kind # "result"
      BY Messages DEF None
    <3>2. QED
      BY <1>a, <2>1, <3>1, AppendLacks
  <2>3. QED
    BY <2>1, <2>2 DEF HurriedInv
<1>8. CASE ReceiveInfo
  <2>1. Lacks(toClient, "result") => Lacks(toClient', "result")
    BY <1>8, <1>a, TailLacks DEF ReceiveInfo, Take
  <2>2. QED
    BY <1>8, <2>1 DEF ReceiveInfo, HurriedInv, side, Early
<1>9. CASE ReceiveDump \/ ReceiveEvent \/ ReceiveResult
  <2>1. phase' \notin Early /\ hurried' = hurried /\ (phase' = "confused" => hurried)
    BY <1>9 DEF ReceiveDump, ReceiveEvent, ReceiveResult, Early
  <2>2. QED
    BY <2>1 DEF HurriedInv
<1>10. CASE AskToListen
  <2>1. Lacks(toServer, "command") => Lacks(toServer', "command")
    <3>1. Listen \in ToServer /\ Listen.kind # "command"
      BY DEF ToServer, Listen
    <3>2. QED
      BY <1>10, <1>a, <3>1, AppendLacks DEF AskToListen
  <2>2. QED
    BY <1>10, <2>1 DEF AskToListen, HurriedInv, side, Early
<1>11. ASSUME NEW c \in Commands, SendCommand(c)
       PROVE  HurriedInv'
  <2>1. UNCHANGED phase /\ (hurried => hurried') /\ (phase \in Early => hurried')
    BY <1>11 DEF SendCommand, Early
  <2>2. QED
    BY <2>1 DEF HurriedInv
<1>12. CASE WriterEnds \/ HandlerCloses \/ Signal \/ Stop \/ Drop \/ Connect \/ UNCHANGED vars
  BY <1>12 DEF WriterEnds, HandlerCloses, Signal, Stop, Drop, Connect, vars, HurriedInv, side,
               socket, client, Early
<1>13. CASE InfoLost \/ ConnectAgain \/ LoseConnection \/ Quit
  BY <1>13 DEF InfoLost, ConnectAgain, LoseConnection, Quit, Disconnect, HurriedInv, StartInv, Early
<1>14. QED
  BY <1>1, <1>2, <1>3, <1>4, <1>5, <1>6, <1>7, <1>8, <1>9, <1>10, <1>11, <1>12, <1>13
     DEF Next, ServerStep, WriterStep, ClientStep

-----------------------------------------------------------------------------
(***************************************************************************)
(* Runs of numbered messages: the dump, then the events after it.          *)
(***************************************************************************)
Numbered(m) == m.kind \in {"dump", "event"}

\* The first n messages of s carry the numbers from after to last in their order,
\* the one with number first being a dump.
Carries(s, n, first, after, last) ==
  /\ after \in Int /\ last \in Int /\ after <= last
  /\ \A i \in 1..n : Numbered(s[i]) => /\ s[i].number \in (after + 1)..last
                                       /\ s[i].kind = "dump" <=> s[i].number = first
  /\ \A k \in (after + 1)..last : \E i \in 1..n : Numbered(s[i]) /\ s[i].number = k
  /\ \A i, j \in 1..n : i < j /\ Numbered(s[i]) /\ Numbered(s[j]) => s[i].number < s[j].number

LEMMA CarriesMore ==
  ASSUME NEW S, NEW s \in Seq(S), NEW m \in S, NEW first, NEW after, NEW last,
         Carries(s, Len(s), first, after, last)
  PROVE  /\ ~Numbered(m) => Carries(Append(s, m), Len(s) + 1, first, after, last)
         /\ Numbered(m) /\ m.number = last + 1 /\ (m.kind = "dump" <=> m.number = first)
              => Carries(Append(s, m), Len(s) + 1, first, after, last + 1)
<1>1. /\ Len(s) \in Nat /\ \A i \in 1..Len(s) : Append(s, m)[i] = s[i]
      /\ Append(s, m)[Len(s) + 1] = m
  BY AppendProperties, LenProperties
<1> DEFINE t == Append(s, m)
           N == Len(s)
<1> HIDE DEF t, N
<1>2. /\ N \in Nat /\ t[N + 1] = m /\ \A i \in 1..N : t[i] = s[i]
  BY <1>1 DEF t, N
<1>3. /\ after \in Int /\ last \in Int /\ after <= last
      /\ \A i \in 1..N : Numbered(s[i]) => /\ s[i].number \in (after + 1)..last
                                           /\ s[i].kind = "dump" <=> s[i].number = first
      /\ \A k \in (after + 1)..last : \E i \in 1..N : Numbered(s[i]) /\ s[i].number = k
      /\ \A i, j \in 1..N : i < j /\ Numbered(s[i]) /\ Numbered(s[j]) => s[i].number < s[j].number
  BY DEF Carries, N
<1>4. ASSUME ~Numbered(m)
      PROVE  Carries(t, N + 1, first, after, last)
  <2>1. \A i \in 1..(N + 1) : Numbered(t[i]) => i \in 1..N /\ t[i] = s[i]
    BY <1>2, <1>4
  <2>2. \A i \in 1..N : i \in 1..(N + 1) /\ t[i] = s[i]
    BY <1>2
  <2>3. QED
    BY <1>3, <2>1, <2>2 DEF Carries
<1>5. ASSUME Numbered(m), m.number = last + 1, m.kind = "dump" <=> m.number = first
      PROVE  Carries(t, N + 1, first, after, last + 1)
  <2>1. \A i \in 1..(N + 1) : (i \in 1..N /\ t[i] = s[i]) \/ (i = N + 1 /\ t[i] = m)
    BY <1>2
  <2>2. \A i \in 1..N : i \in 1..(N + 1) /\ t[i] = s[i]
    BY <1>2
  <2>3. \A i \in 1..(N + 1) : Numbered(t[i]) => /\ t[i].number \in (after + 1)..(last + 1)
                                                /\ t[i].kind = "dump" <=> t[i].number = first
    BY <1>3, <1>5, <2>1
  <2>4. \A k \in (after + 1)..(last + 1) : \E i \in 1..(N + 1) : Numbered(t[i]) /\ t[i].number = k
    <3> SUFFICES ASSUME NEW k \in (after + 1)..(last + 1)
                 PROVE  \E i \in 1..(N + 1) : Numbered(t[i]) /\ t[i].number = k
      OBVIOUS
    <3>1. CASE k = last + 1
      BY <1>2, <1>5, <3>1
    <3>2. CASE k \in (after + 1)..last
      BY <1>3, <2>2, <3>2
    <3>3. QED
      BY <1>3, <3>1, <3>2
  <2>5. \A i, j \in 1..(N + 1) :
          i < j /\ Numbered(t[i]) /\ Numbered(t[j]) => t[i].number < t[j].number
    <3> SUFFICES ASSUME NEW i \in 1..(N + 1), NEW j \in 1..(N + 1), i < j, Numbered(t[i]),
                        Numbered(t[j])
                 PROVE  t[i].number < t[j].number
      OBVIOUS
    <3>1. i \in 1..N /\ t[i] = s[i]
      BY <1>2
    <3>2. CASE j = N + 1
      BY <1>2, <1>3, <1>5, <3>1, <3>2
    <3>3. CASE j \in 1..N
      BY <1>2, <1>3, <3>1, <3>3
    <3>4. QED
      BY <1>2, <3>2, <3>3
  <2>6. QED
    BY <1>3, <2>3, <2>4, <2>5 DEF Carries
<1>6. QED
  BY <1>4, <1>5 DEF t, N

LEMMA CarriesBefore ==
  ASSUME NEW S, NEW s \in Seq(S), NEW m \in S, NEW first, NEW after, NEW last,
         NEW n \in 0..Len(s), Carries(s, n, first, after, last)
  PROVE  Carries(Append(s, m), n, first, after, last)
<1>1. Len(s) \in Nat /\ \A i \in 1..n : Append(s, m)[i] = s[i]
  BY AppendProperties, LenProperties
<1>2. QED
  BY <1>1 DEF Carries

LEMMA CarriesLess ==
  ASSUME NEW S, NEW s \in Seq(S), NEW first, NEW after, NEW last,
         NEW n \in 1..Len(s), Carries(s, n, first, after, last)
  PROVE  /\ ~Numbered(Head(s)) => Carries(Tail(s), n - 1, first, after, last)
         /\ Numbered(Head(s)) =>
              /\ Head(s).number = after + 1 /\ after < last
              /\ Head(s).kind = "dump" <=> Head(s).number = first
              /\ Carries(Tail(s), n - 1, first, after + 1, last)
<1>1. Len(s) \in Nat \ {0} /\ s # <<>> /\ n \in Nat \ {0}
  BY LenProperties, EmptySeq
<1>2. Head(s) = s[1] /\ \A i \in 1..(Len(s) - 1) : Tail(s)[i] = s[i + 1]
  BY <1>1, HeadTailProperties
<1> DEFINE t == Tail(s)
           h == Head(s)
<1> HIDE DEF t, h
<1>3. h = s[1] /\ \A i \in 1..(n - 1) : i + 1 \in 1..n /\ t[i] = s[i + 1]
  BY <1>1, <1>2 DEF t, h
<1>4. \A i \in 1..n : i # 1 => i - 1 \in 1..(n - 1) /\ t[i - 1] = s[i]
  <2> SUFFICES ASSUME NEW i \in 1..n, i # 1
               PROVE  i - 1 \in 1..(n - 1) /\ t[i - 1] = s[i]
    OBVIOUS
  <2>1. i - 1 \in 1..(n - 1) /\ (i - 1) + 1 = i
    BY <1>1
  <2>2. QED
    BY <1>3, <2>1
<1>5. /\ after \in Int /\ last \in Int /\ after <= last
      /\ \A i \in 1..n : Numbered(s[i]) => /\ s[i].number \in (after + 1)..last
                                           /\ s[i].kind = "dump" <=> s[i].number = first
      /\ \A k \in (after + 1)..last : \E i \in 1..n : Numbered(s[i]) /\ s[i].number = k
      /\ \A i, j \in 1..n : i < j /\ Numbered(s[i]) /\ Numbered(s[j]) => s[i].number < s[j].number
  BY DEF Carries
<1>6. \A i, j \in 1..(n - 1) : i < j /\ Numbered(t[i]) /\ Numbered(t[j]) => t[i].number < t[j].number
  <2> SUFFICES ASSUME NEW i \in 1..(n - 1), NEW j \in 1..(n - 1), i < j, Numbered(t[i]),
                      Numbered(t[j])
               PROVE  t[i].number < t[j].number
    OBVIOUS
  <2>1. i + 1 \in 1..n /\ j + 1 \in 1..n /\ i + 1 < j + 1 /\ t[i] = s[i + 1] /\ t[j] = s[j + 1]
    BY <1>1, <1>3
  <2>2. QED
    BY <1>5, <2>1
<1>7. ASSUME ~Numbered(h)
      PROVE  Carries(t, n - 1, first, after, last)
  <2>1. \A i \in 1..n : Numbered(s[i]) => i - 1 \in 1..(n - 1) /\ t[i - 1] = s[i]
    BY <1>3, <1>4, <1>7
  <2>2. \A k \in (after + 1)..last : \E i \in 1..(n - 1) : Numbered(t[i]) /\ t[i].number = k
    <3> SUFFICES ASSUME NEW k \in (after + 1)..last
                 PROVE  \E i \in 1..(n - 1) : Numbered(t[i]) /\ t[i].number = k
      OBVIOUS
    <3>1. PICK i \in 1..n : Numbered(s[i]) /\ s[i].number = k
      BY <1>5
    <3>2. i - 1 \in 1..(n - 1) /\ t[i - 1] = s[i]
      BY <2>1, <3>1
    <3>3. QED
      BY <3>1, <3>2
  <2>3. \A i \in 1..(n - 1) : Numbered(t[i]) => /\ t[i].number \in (after + 1)..last
                                                /\ t[i].kind = "dump" <=> t[i].number = first
    BY <1>3, <1>5
  <2>4. QED
    BY <1>5, <1>6, <2>2, <2>3 DEF Carries
<1>8. ASSUME Numbered(h)
      PROVE  /\ h.number = after + 1 /\ after < last
             /\ h.kind = "dump" <=> h.number = first
             /\ Carries(t, n - 1, first, after + 1, last)
  <2>1. h.number \in (after + 1)..last /\ (h.kind = "dump" <=> h.number = first)
    BY <1>1, <1>3, <1>5, <1>8
  <2>2. \A i \in 1..n : i # 1 /\ Numbered(s[i]) => h.number < s[i].number
    <3>1. 1 \in 1..n /\ \A i \in 1..n : i # 1 => 1 < i
      BY <1>1
    <3>2. QED
      BY <1>3, <1>5, <1>8, <3>1
  <2>3. h.number = after + 1
    <3>1. after + 1 \in (after + 1)..last
      BY <1>5, <2>1
    <3>2. PICK i \in 1..n : Numbered(s[i]) /\ s[i].number = after + 1
      BY <1>5, <3>1
    <3>3. QED
      BY <1>3, <1>5, <2>1, <2>2, <3>2
  <2>4. \A i \in 1..(n - 1) : Numbered(t[i]) => /\ t[i].number \in (after + 1 + 1)..last
                                                /\ t[i].kind = "dump" <=> t[i].number = first
    <3> SUFFICES ASSUME NEW i \in 1..(n - 1), Numbered(t[i])
                 PROVE  /\ t[i].number \in (after + 1 + 1)..last
                        /\ t[i].kind = "dump" <=> t[i].number = first
      OBVIOUS
    <3>1. i + 1 \in 1..n /\ i + 1 # 1 /\ t[i] = s[i + 1]
      BY <1>1, <1>3
    <3>2. t[i].number \in (after + 1)..last /\ (t[i].kind = "dump" <=> t[i].number = first)
      BY <1>5, <3>1
    <3>3. after + 1 < t[i].number
      BY <2>2, <2>3, <3>1
    <3>4. QED
      BY <1>5, <3>2, <3>3
  <2>5. \A k \in (after + 1 + 1)..last : \E i \in 1..(n - 1) : Numbered(t[i]) /\ t[i].number = k
    <3> SUFFICES ASSUME NEW k \in (after + 1 + 1)..last
                 PROVE  \E i \in 1..(n - 1) : Numbered(t[i]) /\ t[i].number = k
      OBVIOUS
    <3>1. k \in (after + 1)..last /\ k # after + 1
      BY <1>5
    <3>2. PICK i \in 1..n : Numbered(s[i]) /\ s[i].number = k
      BY <1>5, <3>1
    <3>3. i # 1
      BY <1>3, <2>3, <3>1, <3>2
    <3>4. QED
      BY <1>4, <3>2, <3>3
  <2>6. QED
    BY <1>5, <1>6, <2>1, <2>3, <2>4, <2>5 DEF Carries
<1>9. QED
  BY <1>7, <1>8 DEF t, h

\* Where nothing is carried, nothing is carried anywhere else either.
LEMMA CarriesNothing ==
  ASSUME NEW s, NEW n, NEW first, NEW after, NEW last, Carries(s, n, first, after, last),
         after = last, NEW other, NEW at \in Int
  PROVE  Carries(s, n, other, at, at)
<1>1. \A i \in 1..n : ~Numbered(s[i])
  BY DEF Carries
<1>2. QED
  BY <1>1 DEF Carries

\* No dump is left behind the one that was taken.
LEMMA CarriesNoDump ==
  ASSUME NEW s, NEW n, NEW first \in Int, NEW after, NEW last, Carries(s, n, first, after, last),
         first <= after, NEW other \in Int, other <= after
  PROVE  Carries(s, n, other, after, last)
<1>1. \A i \in 1..n : Numbered(s[i]) => s[i].number # first /\ s[i].number # other
  BY DEF Carries
<1>2. QED
  BY <1>1 DEF Carries

-----------------------------------------------------------------------------
(***************************************************************************)
(* The events on their way: in the socket, in the queue up to the end of   *)
(* the session, and posted to the loop while the session is served.        *)
(***************************************************************************)
Serving == handler \in {"off", "running"} \/ (handler = "cancelled" /\ writer = "running")

\* The number of the dump, for what is behind what the client has.
First(has) == IF phase = "listening" THEN has ELSE has + 1

InSocket(has, sent) == Carries(toClient, Len(toClient), First(has), has, sent)

\* n messages of the queue may still be written.
InQueue(has, sent, queued, n) ==
  Serving \/ writer = "running" =>
    /\ n \in 0..Len(queue) /\ \A i \in 1..n : queue[i].kind # "none"
    /\ Carries(queue, n, First(has), sent, queued)
    /\ IF Serving THEN n = Len(queue) ELSE n < Len(queue) /\ queue[n + 1].kind = "none"

OnLoop(has, queued) ==
  Serving =>
    IF subscribed
      THEN /\ Len(posted) = tick - queued /\ \A i \in DOMAIN posted : posted[i] = queued + i
           /\ phase = "listening" \/ has < queued
      ELSE posted = <<>> /\ has = queued /\ phase # "listening"

Stream(has, sent, queued, n) ==
  /\ phase = "listening" => has = mirror
  /\ InSocket(has, sent) /\ InQueue(has, sent, queued, n) /\ OnLoop(has, queued)

Flows == \E has, sent, queued \in Int, n \in Nat : Stream(has, sent, queued, n)

StreamInv == phase \in Early \cup {"listening"} => Flows

\* Once nothing is written any more, only what is in the socket counts.
LEMMA ClosedFlows ==
  ASSUME NEW has \in Int, NEW sent \in Int, (phase = "listening" => has = mirror)',
         InSocket(has, sent)', ~Serving', writer' # "running"
  PROVE  Flows'
<1>1. InQueue(has, sent, 0, 0)' /\ OnLoop(has, 0)'
  BY DEF InQueue, OnLoop
<1>2. Stream(has, sent, 0, 0)'
  BY <1>1 DEF Stream
<1>3. QED
  BY <1>2 DEF Flows

\* Steps that touch none of it, though they may end the session.
LEMMA SameFlows ==
  ASSUME NEW has \in Int, NEW sent \in Int, NEW queued \in Int, NEW n \in Nat,
         Stream(has, sent, queued, n),
         UNCHANGED <<toClient, queue, posted, tick, subscribed, mirror>>,
         phase' = phase \/ (phase # "listening" /\ phase' # "listening"),
         Serving' => Serving, writer' = "running" => writer = "running" /\ (Serving' <=> Serving)
  PROVE  Flows'
<1>1. (phase = "listening" => has = mirror)' /\ InSocket(has, sent)'
  BY DEF Stream, InSocket, First
<1>2. InQueue(has, sent, queued, n)' /\ OnLoop(has, queued)'
  BY DEF Stream, InQueue, OnLoop, First
<1>3. Stream(has, sent, queued, n)'
  BY <1>1, <1>2 DEF Stream
<1>4. QED
  BY <1>3 DEF Flows

\* One more message: it carries the next number if it carries one.
LEMMA SendFlows ==
  ASSUME TypeInv, NEW m \in ToClient, Send(m), m.kind # "none", handler # "off",
         UNCHANGED <<phase, mirror, toClient>>,
         NEW has \in Int, NEW sent \in Int, NEW queued \in Int, NEW n \in Nat, NEW last \in Int,
         phase = "listening" => has = mirror, InSocket(has, sent), InQueue(has, sent, queued, n),
         Serving => IF Numbered(m)
                      THEN /\ m.number = queued + 1 /\ last = queued + 1
                           /\ m.kind = "dump" <=> m.number = First(has)
                      ELSE last = queued,
         Serving => OnLoop(has, last)'
  PROVE  Flows'
<1>1. InSocket(has, sent)' /\ (phase = "listening" => has = mirror)'
  BY DEF InSocket, First
<1>2. /\ queue \in Seq(ToClient) /\ Len(queue) \in Nat
      /\ Append(queue, m) \in Seq(ToClient) /\ Len(Append(queue, m)) = Len(queue) + 1
      /\ \A i \in 1..Len(queue) : Append(queue, m)[i] = queue[i]
      /\ Append(queue, m)[Len(queue) + 1] = m
  BY AppendProperties, LenProperties DEF TypeInv, TypeOK
<1>3. CASE Len(queue) < QueueLimit
  <2>1. queue' = Append(queue, m) /\ UNCHANGED <<handler, writer>>
    BY <1>3 DEF Send
  <2>2. (Serving' <=> Serving) /\ First(has)' = First(has)
    BY <2>1 DEF Serving, First
  <2>3. CASE Serving
    <3>1. /\ n = Len(queue) /\ \A i \in 1..n : queue[i].kind # "none"
          /\ Carries(queue, Len(queue), First(has), sent, queued)
      BY <2>3 DEF InQueue
    <3>2. Carries(queue', n + 1, First(has), sent, last)
      BY <1>2, <2>1, <2>3, <3>1, CarriesMore
    <3>3. \A i \in 1..(n + 1) : queue'[i].kind # "none"
      BY <1>2, <2>1, <3>1
    <3>4. InQueue(has, sent, last, n + 1)'
      BY <1>2, <2>1, <2>2, <2>3, <3>1, <3>2, <3>3 DEF InQueue
    <3>5. Stream(has, sent, last, n + 1)'
      BY <1>1, <2>3, <3>4 DEF Stream
    <3>6. QED
      BY <3>5 DEF Flows
  <2>4. CASE ~Serving /\ writer = "running"
    <3>1. /\ n \in 0..Len(queue) /\ \A i \in 1..n : queue[i].kind # "none"
          /\ Carries(queue, n, First(has), sent, queued)
          /\ n < Len(queue) /\ queue[n + 1].kind = "none"
      BY <2>4 DEF InQueue
    <3>2. Carries(queue', n, First(has), sent, queued)
      BY <1>2, <2>1, <3>1, CarriesBefore
    <3>3. InQueue(has, sent, queued, n)'
      BY <1>2, <2>1, <2>2, <2>4, <3>1, <3>2 DEF InQueue
    <3>4. Stream(has, sent, queued, n)'
      BY <1>1, <2>2, <2>4, <3>3 DEF Stream, OnLoop
    <3>5. QED
      BY <3>4 DEF Flows
  <2>5. CASE ~Serving /\ writer # "running"
    BY <1>1, <2>1, <2>2, <2>5, ClosedFlows
  <2>6. QED
    BY <2>3, <2>4, <2>5
<1>4. CASE ~(Len(queue) < QueueLimit)
  <2>1. ~Serving' /\ writer' # "running"
    BY <1>4 DEF Send, Cancelled, Serving
  <2>2. QED
    BY <1>1, <2>1, ClosedFlows
<1>5. QED
  BY <1>3, <1>4

\* A message the client takes: what it has goes on by one if it carries a number.
LEMMA TakeFlows ==
  ASSUME TypeInv, NEW has \in Int, NEW sent \in Int, NEW queued \in Int, NEW n \in Nat,
         Stream(has, sent, queued, n),
         toClient # <<>>, toClient' = Tail(toClient),
         UNCHANGED <<handler, writer, queue, posted, tick, subscribed>>,
         IF Numbered(Head(toClient))
           THEN phase' = "listening" /\ mirror' = Head(toClient).number
           ELSE mirror' = mirror /\ (phase' = phase \/ (phase # "listening" /\ phase' # "listening"))
  PROVE  Flows'
<1>1. /\ toClient \in Seq(ToClient \ {None}) /\ Len(toClient) \in Nat \ {0}
      /\ Len(Tail(toClient)) = Len(toClient) - 1 /\ Len(toClient) \in 1..Len(toClient)
  BY HeadTailProperties, LenProperties, EmptySeq DEF TypeInv, TypeOK
<1>2. Serving' <=> Serving
  BY DEF Serving
<1>3. Carries(toClient, Len(toClient), First(has), has, sent)
  BY DEF Stream, InSocket
<1>4. CASE ~Numbered(Head(toClient))
  <2>1. Carries(toClient', Len(toClient'), First(has), has, sent)
    BY <1>1, <1>3, <1>4, CarriesLess
  <2>2. First(has)' = First(has)
    BY <1>4 DEF First
  <2>3. InSocket(has, sent)' /\ InQueue(has, sent, queued, n)' /\ OnLoop(has, queued)'
    BY <1>2, <1>4, <2>1, <2>2 DEF Stream, InSocket, InQueue, OnLoop
  <2>4. Stream(has, sent, queued, n)'
    BY <1>4, <2>3 DEF Stream
  <2>5. QED
    BY <2>4 DEF Flows
<1>5. CASE Numbered(Head(toClient))
  <2>1. /\ Head(toClient).number = has + 1 /\ has < sent
        /\ Carries(toClient', Len(toClient'), First(has), has + 1, sent)
    BY <1>1, <1>3, <1>5, CarriesLess
  <2>2. First(has) \in Int /\ First(has) <= has + 1 /\ First(has + 1)' = has + 1
    BY <1>5 DEF First
  <2>3. InSocket(has + 1, sent)'
    BY <2>1, <2>2, CarriesNoDump DEF InSocket
  <2>4. InQueue(has + 1, sent, queued, n)'
    <3> SUFFICES ASSUME Serving \/ writer = "running"
                 PROVE  InQueue(has + 1, sent, queued, n)'
      BY <1>2 DEF InQueue
    <3>1. Carries(queue, n, First(has), sent, queued)
      BY DEF Stream, InQueue
    <3>2. Carries(queue, n, has + 1, sent, queued)
      BY <2>1, <2>2, <3>1, CarriesNoDump
    <3>3. QED
      BY <1>2, <2>2, <3>2 DEF Stream, InQueue
  <2>5. OnLoop(has + 1, queued)'
    <3>1. Serving => subscribed
      BY <2>1 DEF Stream, InQueue, OnLoop, Carries
    <3>2. QED
      BY <1>2, <1>5, <3>1 DEF Stream, OnLoop
  <2>6. Stream(has + 1, sent, queued, n)'
    BY <1>5, <2>1, <2>3, <2>4, <2>5 DEF Stream
  <2>7. QED
    BY <2>6 DEF Flows
<1>6. QED
  BY <1>4, <1>5

LEMMA ServerFlows ==
  ASSUME TypeInv, NEW has \in Int, NEW sent \in Int, NEW queued \in Int, NEW n \in Nat,
         Stream(has, sent, queued, n), phase \in Early \cup {"listening"}, ServerStep
  PROVE  Flows'
<1>a. /\ queue \in Seq(ToClient) /\ Len(queue) \in Nat /\ posted \in Seq(1..MaxTicks)
      /\ toServer \in Seq(ToServer) /\ tick \in 0..MaxTicks
      /\ DOMAIN posted = 1..Len(posted) /\ Len(posted) \in Nat
      /\ handler = "off" => writer = "off" /\ queue = <<>> /\ posted = <<>> /\ tasks = {}
  BY LenProperties DEF TypeInv, TypeOK, IdleInv
<1>b. /\ phase = "listening" => has = mirror
      /\ InSocket(has, sent) /\ InQueue(has, sent, queued, n) /\ OnLoop(has, queued)
  BY DEF Stream
<1>1. CASE Accept
  <2>1. /\ handler = "off" /\ handler' = "running" /\ queue' = Append(queue, Info)
        /\ UNCHANGED <<tick, posted, subscribed, toClient, phase, mirror>>
    BY <1>1 DEF Accept, socket, client
  <2>2. Serving /\ Serving' /\ First(has)' = First(has)
    BY <2>1 DEF Serving, First
  <2>3. /\ n = Len(queue) /\ \A i \in 1..n : queue[i].kind # "none"
        /\ Carries(queue, Len(queue), First(has), sent, queued)
    BY <1>b, <2>2 DEF InQueue
  <2>4. Info \in ToClient /\ ~Numbered(Info) /\ Info.kind # "none"
    BY Messages DEF Info, Numbered
  <2>5. /\ Carries(queue', n + 1, First(has), sent, queued) /\ Len(queue') = n + 1
        /\ \A i \in 1..(n + 1) : queue'[i].kind # "none"
    <3>1. /\ Append(queue, Info) \in Seq(ToClient) /\ Len(Append(queue, Info)) = Len(queue) + 1
          /\ \A i \in 1..Len(queue) : Append(queue, Info)[i] = queue[i]
          /\ Append(queue, Info)[Len(queue) + 1] = Info
      BY <1>a, <2>4, AppendProperties
    <3>2. Carries(Append(queue, Info), Len(queue) + 1, First(has), sent, queued)
      BY <1>a, <2>3, <2>4, CarriesMore
    <3>3. \A i \in 1..(n + 1) : queue'[i].kind # "none"
      BY <1>a, <2>1, <2>3, <2>4, <3>1
    <3>4. QED
      BY <2>1, <2>3, <3>1, <3>2, <3>3
  <2>6. InQueue(has, sent, queued, n + 1)'
    BY <2>2, <2>5 DEF InQueue
  <2>7. InSocket(has, sent)' /\ OnLoop(has, queued)'
    BY <1>b, <2>1, <2>2 DEF InSocket, OnLoop
  <2>8. Stream(has, sent, queued, n + 1)'
    BY <1>b, <2>1, <2>6, <2>7 DEF Stream
  <2>9. QED
    BY <2>8 DEF Flows
<1>c. ASSUME NEW m \in ToClient, Send(m), m.kind # "none", ~Numbered(m), handler # "off",
             UNCHANGED <<phase, mirror, toClient, posted, tick, subscribed>>
      PROVE  Flows'
  <2>1. Serving => OnLoop(has, queued)'
    BY <1>b, <1>c DEF OnLoop
  <2>2. QED
    BY <1>b, <1>c, <2>1, SendFlows
<1>2. CASE Receive
  BY <1>2, SameFlows DEF Receive, Serving, client
<1>3. CASE ReceiveInvalid
  <2>1. Head(toServer).command \in Commands
    BY <1>3, <1>a, HeadTailProperties DEF ReceiveInvalid, ToServer, Listen, Command
  <2>2. Result(Head(toServer).command, "error") \in ToClient
        /\ Result(Head(toServer).command, "error").kind = "result"
    BY <2>1, Messages DEF Result
  <2>3. QED
    BY <1>3, <2>2, <1>c DEF ReceiveInvalid, client, Numbered
<1>4. CASE StartListening /\ subscribed
  <2>1. /\ handler = "running" /\ handler' = "cancelled"
        /\ UNCHANGED <<writer, toClient, queue, posted, tick, subscribed, mirror, phase>>
    BY <1>4 DEF StartListening, client
  <2>2. QED
    BY <2>1, SameFlows DEF Serving
<1>5. CASE StartListening /\ ~subscribed
  <2>1. /\ Send(Dump(tick)) /\ handler = "running" /\ subscribed'
        /\ UNCHANGED <<tick, posted, toClient, phase, mirror>>
    BY <1>5 DEF StartListening, client
  <2>2. Dump(tick) \in ToClient /\ Dump(tick).kind = "dump" /\ Dump(tick).number = tick
    BY <1>a, Messages DEF Dump
  <2>3. Serving /\ posted = <<>> /\ has = queued /\ phase # "listening"
    BY <1>b, <1>5, <2>1 DEF Serving, OnLoop
  <2>4. Carries(queue, n, First(has), sent, queued)
    BY <1>b, <2>3 DEF InQueue
  <2>5. has = sent /\ sent = queued
    BY <1>b, <2>3, <2>4 DEF InSocket, Carries
  <2>6. PICK now \in Int : now = tick
    BY <1>a
  <2>7. now - 1 \in Int /\ First(now - 1) = now /\ now = (now - 1) + 1
    BY <2>3 DEF First
  <2>8. InSocket(now - 1, now - 1)
    BY <1>b, <2>5, <2>7, CarriesNothing DEF InSocket
  <2>9. InQueue(now - 1, now - 1, now - 1, n)
    <3>1. Carries(queue, n, First(now - 1), now - 1, now - 1)
      BY <2>4, <2>5, <2>7, CarriesNothing
    <3>2. QED
      BY <1>b, <3>1 DEF InQueue
  <2>10. OnLoop(now - 1, now)'
    <3>1. Len(posted') = tick' - now /\ DOMAIN posted' = {}
      BY <1>a, <2>1, <2>3, <2>6
    <3>2. QED
      BY <2>1, <2>7, <3>1 DEF OnLoop
  <2>11. PICK m \in ToClient : m = Dump(now)
    BY <2>2, <2>6
  <2>12. /\ Send(m) /\ Numbered(m) /\ m.kind = "dump" /\ m.kind # "none" /\ handler # "off"
         /\ m.number = now
    BY <2>1, <2>2, <2>6, <2>11 DEF Numbered
  <2>13. IF Numbered(m)
           THEN /\ m.number = (now - 1) + 1 /\ now = (now - 1) + 1
                /\ m.kind = "dump" <=> m.number = First(now - 1)
           ELSE now = now - 1
    BY <2>7, <2>12
  <2>14. phase = "listening" => now - 1 = mirror
    BY <2>3
  <2>15. UNCHANGED <<phase, mirror, toClient>>
    BY <2>1
  <2>16. QED
    BY <2>7, <2>8, <2>9, <2>10, <2>12, <2>13, <2>14, <2>15, SendFlows
<1>6. ASSUME NEW c \in Commands, Finish(c)
      PROVE  Flows'
  <2>1. PICK outcome \in {"ok", "error"} : Send(Result(c, outcome))
    BY <1>6 DEF Finish
  <2>2. Result(c, outcome) \in ToClient /\ Result(c, outcome).kind = "result"
    BY Messages DEF Result
  <2>3. QED
    BY <1>6, <1>a, <2>1, <2>2, <1>c DEF Finish, socket, client, Numbered
<1>7. CASE HandleEvent
  <2>1. /\ posted # <<>> /\ posted' = Tail(posted) /\ Send(Event(Head(posted)))
        /\ UNCHANGED <<tick, subscribed, toClient, phase, mirror>>
    BY <1>7 DEF HandleEvent, socket, client
  <2>2. /\ Head(posted) \in 1..MaxTicks /\ Head(posted) = posted[1] /\ Len(posted) # 0
        /\ posted' \in Seq(1..MaxTicks) /\ Len(posted') = Len(posted) - 1
        /\ DOMAIN posted' = 1..(Len(posted) - 1)
        /\ \A i \in 1..(Len(posted) - 1) : posted'[i] = posted[i + 1]
    <3>1. Head(posted) \in 1..MaxTicks /\ Tail(posted) \in Seq(1..MaxTicks)
      BY <1>a, <2>1, HeadTailProperties
    <3>2. /\ Head(posted) = posted[1] /\ Len(Tail(posted)) = Len(posted) - 1 /\ Len(posted) # 0
          /\ \A i \in 1..(Len(posted) - 1) : Tail(posted)[i] = posted[i + 1]
      BY <1>a, <2>1, HeadTailProperties, EmptySeq
    <3>3. DOMAIN Tail(posted) = 1..(Len(posted) - 1)
      BY <3>1, <3>2, LenProperties
    <3>4. QED
      BY <2>1, <3>1, <3>2, <3>3
  <2>3. /\ Event(Head(posted)) \in ToClient /\ Event(Head(posted)).kind = "event"
        /\ Event(Head(posted)).number = Head(posted)
    BY <2>2, Messages DEF Event
  <2>4. handler # "off"
    BY <1>a, <2>1
  <2>5. Serving => subscribed /\ Head(posted) = queued + 1 /\ Head(posted) # First(has)
    <3> SUFFICES ASSUME Serving
                 PROVE  subscribed /\ Head(posted) = queued + 1 /\ Head(posted) # First(has)
      OBVIOUS
    <3>1. /\ subscribed /\ \A i \in DOMAIN posted : posted[i] = queued + i
          /\ phase = "listening" \/ has < queued
      BY <1>b, <2>1 DEF OnLoop
    <3>2. Head(posted) = queued + 1
      <4>1. 1 \in DOMAIN posted
        BY <1>a, <2>2
      <4>2. QED
        BY <2>2, <3>1, <4>1
    <3>3. has <= queued
      BY <1>b DEF InSocket, InQueue, Carries
    <3>4. QED
      BY <3>1, <3>2, <3>3 DEF First
  <2>6. Serving => OnLoop(has, queued + 1)'
    <3> SUFFICES ASSUME Serving
                 PROVE  /\ Len(posted') = tick - (queued + 1)
                        /\ \A i \in DOMAIN posted' : posted'[i] = (queued + 1) + i
                        /\ phase = "listening" \/ has < queued + 1
      BY <2>1, <2>5 DEF OnLoop
    <3>1. /\ Len(posted) = tick - queued /\ \A i \in DOMAIN posted : posted[i] = queued + i
          /\ phase = "listening" \/ has < queued
      BY <1>b, <2>5 DEF OnLoop
    <3>2. \A i \in DOMAIN posted' : posted'[i] = (queued + 1) + i
      <4> SUFFICES ASSUME NEW i \in DOMAIN posted'
                   PROVE  posted'[i] = (queued + 1) + i
        OBVIOUS
      <4>1. i \in Int /\ i + 1 \in DOMAIN posted /\ posted'[i] = posted[i + 1]
        BY <1>a, <2>2
      <4>2. posted[i + 1] = queued + (i + 1)
        BY <3>1, <4>1
      <4>3. QED
        BY <4>1, <4>2
    <3>3. QED
      BY <1>a, <2>2, <3>1, <3>2
  <2>7. QED
    BY <1>b, <2>1, <2>3, <2>4, <2>5, <2>6, SendFlows DEF Numbered
<1>8. CASE HandlerLeaves
  <2>1. /\ handler' = "closing" /\ UNCHANGED <<tick, posted, toClient, phase, mirror>>
        /\ handler = "cancelled" \/ handler = "running"
    BY <1>8 DEF HandlerLeaves, socket, client
  <2>2. ~Serving' /\ InSocket(has, sent)' /\ (phase = "listening" => has = mirror)' /\ OnLoop(has, queued)'
        /\ First(has)' = First(has)
    BY <1>b, <2>1 DEF Serving, InSocket, OnLoop, First
  <2>3. CASE writer' # "running"
    BY <2>2, <2>3, ClosedFlows
  <2>4. CASE writer' = "running"
    <3>1. queue' = Append(queue, None) /\ writer = "running"
      BY <1>8, <2>4 DEF HandlerLeaves, Cancelled
    <3>2. Serving
      BY <2>1, <3>1 DEF Serving
    <3>3. /\ n = Len(queue) /\ \A i \in 1..n : queue[i].kind # "none"
          /\ Carries(queue, n, First(has), sent, queued)
      BY <1>b, <3>2 DEF InQueue
    <3>4. /\ Len(queue') = n + 1 /\ \A i \in 1..n : queue'[i] = queue[i]
          /\ queue'[n + 1].kind = "none"
      BY <1>a, <3>1, <3>3, Messages, AppendProperties DEF None
    <3>5. Carries(queue', n, First(has), sent, queued)
      BY <1>a, <3>1, <3>3, Messages, CarriesBefore
    <3>6. InQueue(has, sent, queued, n)'
      BY <2>2, <3>3, <3>4, <3>5 DEF InQueue
    <3>7. Stream(has, sent, queued, n)'
      BY <2>2, <3>6 DEF Stream
    <3>8. QED
      BY <3>7 DEF Flows
  <2>5. QED
    BY <2>3, <2>4
<1>9. CASE HandlerCloses
  BY <1>9, SameFlows DEF HandlerCloses, Serving, client
<1>10. QED
  BY <1>1, <1>2, <1>3, <1>4, <1>5, <1>6, <1>7, <1>8, <1>9 DEF ServerStep

LEMMA WriteFlows ==
  ASSUME TypeInv, NEW has \in Int, NEW sent \in Int, NEW queued \in Int, NEW n \in Nat,
         Stream(has, sent, queued, n), Write
  PROVE  Flows'
<1>1. /\ queue \in Seq(ToClient) /\ toClient \in Seq(ToClient) /\ Len(queue) \in Nat \ {0}
      /\ writer = "running" /\ queue' = Tail(queue) /\ toClient' = Append(toClient, Head(queue))
      /\ UNCHANGED <<tick, posted, handler, writer, subscribed, phase, mirror>>
  BY LenProperties, EmptySeq DEF Write, client, TypeInv, TypeOK
<1>2. /\ Head(queue) = queue[1] /\ Head(queue) \in ToClient /\ Head(queue).kind # "none"
      /\ Len(queue') = Len(queue) - 1 /\ \A i \in 1..(Len(queue) - 1) : queue'[i] = queue[i + 1]
      /\ Len(toClient') = Len(toClient) + 1
  BY <1>1, Kinds, HeadTailProperties, EmptySeq, AppendProperties DEF Write
<1>3. /\ n \in 0..Len(queue) /\ \A i \in 1..n : queue[i].kind # "none"
      /\ Carries(queue, n, First(has), sent, queued)
      /\ IF Serving THEN n = Len(queue) ELSE n < Len(queue) /\ queue[n + 1].kind = "none"
  BY <1>1 DEF Stream, InQueue
<1>4. n \in 1..Len(queue)
  <2>1. n # 0
    <3> SUFFICES ASSUME n = 0 PROVE FALSE
      OBVIOUS
    <3>1. Len(queue) # 0 /\ n + 1 = 1
      BY <1>1
    <3>2. queue[1].kind = "none"
      BY <1>3, <3>1
    <3>3. QED
      BY <1>2, <3>2
  <2>2. QED
    BY <1>3, <2>1
<1>5. (Serving' <=> Serving) /\ First(has)' = First(has) /\ OnLoop(has, queued)'
  BY <1>1 DEF Stream, OnLoop, Serving, First
<1>6. /\ n - 1 \in 0..Len(queue') /\ \A i \in 1..(n - 1) : queue'[i].kind # "none"
      /\ IF Serving THEN n - 1 = Len(queue')
                    ELSE n - 1 < Len(queue') /\ queue'[n].kind = "none"
  <2>1. \A i \in 1..(n - 1) : i + 1 \in 1..n /\ queue'[i] = queue[i + 1]
    BY <1>1, <1>2, <1>4
  <2>2. n - 1 \in 0..Len(queue')
    BY <1>1, <1>2, <1>4
  <2>3. \A i \in 1..(n - 1) : queue'[i].kind # "none"
    BY <1>3, <2>1
  <2>4. CASE Serving
    BY <1>1, <1>2, <1>3, <2>2, <2>3, <2>4
  <2>5. CASE ~Serving
    <3>1. n \in 1..(Len(queue) - 1) /\ queue[n + 1].kind = "none"
      BY <1>1, <1>3, <1>4, <2>5
    <3>2. queue'[n] = queue[n + 1]
      BY <1>2, <3>1
    <3>3. QED
      BY <1>1, <1>2, <2>2, <2>3, <2>5, <3>1, <3>2
  <2>6. QED
    BY <2>4, <2>5
<1>7. ASSUME NEW k \in Int, Carries(toClient', Len(toClient'), First(has), has, k),
             Carries(queue', n - 1, First(has), k, queued)
      PROVE  Flows'
  <2>1. InSocket(has, k)' /\ InQueue(has, k, queued, n - 1)'
    BY <1>1, <1>4, <1>5, <1>6, <1>7 DEF InSocket, InQueue
  <2>2. Stream(has, k, queued, n - 1)'
    BY <1>1, <1>5, <2>1 DEF Stream
  <2>3. n - 1 \in Nat
    BY <1>4
  <2>4. QED
    BY <2>2, <2>3 DEF Flows
<1>8. Carries(toClient, Len(toClient), First(has), has, sent)
  BY DEF Stream, InSocket
<1>9. CASE Numbered(Head(queue))
  <2>1. /\ Head(queue).number = sent + 1
        /\ Head(queue).kind = "dump" <=> Head(queue).number = First(has)
        /\ Carries(queue', n - 1, First(has), sent + 1, queued)
    BY <1>1, <1>3, <1>4, <1>9, CarriesLess
  <2>2. Carries(toClient', Len(toClient'), First(has), has, sent + 1)
    BY <1>1, <1>2, <1>8, <1>9, <2>1, CarriesMore
  <2>3. QED
    BY <1>7, <2>1, <2>2
<1>10. CASE ~Numbered(Head(queue))
  <2>1. Carries(queue', n - 1, First(has), sent, queued)
    BY <1>1, <1>3, <1>4, <1>10, CarriesLess
  <2>2. Carries(toClient', Len(toClient'), First(has), has, sent)
    BY <1>1, <1>2, <1>8, <1>10, CarriesMore
  <2>3. QED
    BY <1>7, <2>1, <2>2
<1>11. QED
  BY <1>9, <1>10

LEMMA SignalFlows ==
  ASSUME TypeInv, NEW has \in Int, NEW sent \in Int, NEW queued \in Int, NEW n \in Nat,
         Stream(has, sent, queued, n), Signal
  PROVE  Flows'
<1>a. MaxTicks \in Nat
  BY SessionAssumption
<1>b. tick \in 0..MaxTicks /\ posted \in Seq(1..MaxTicks)
  BY DEF TypeInv, TypeOK
<1>c. /\ UNCHANGED <<handler, writer, subscribed, queue, toClient, phase, mirror>>
      /\ tick' = tick + 1 /\ tick < MaxTicks
      /\ posted' = IF subscribed THEN Append(posted, tick + 1) ELSE posted
  BY DEF Signal, socket, client
<1>1. /\ UNCHANGED <<handler, writer, subscribed, queue, toClient, phase, mirror>>
      /\ tick' = tick + 1 /\ tick \in Nat /\ tick + 1 \in 1..MaxTicks /\ posted \in Seq(1..MaxTicks)
      /\ posted' = IF subscribed THEN Append(posted, tick + 1) ELSE posted
  BY <1>a, <1>b, <1>c
<1>2. (Serving' <=> Serving) /\ First(has)' = First(has)
  BY <1>1 DEF Serving, First
<1>3. OnLoop(has, queued)'
  <2> SUFFICES ASSUME Serving PROVE OnLoop(has, queued)'
    BY <1>2 DEF OnLoop
  <2>1. CASE ~subscribed
    BY <1>1, <1>2, <2>1 DEF Stream, OnLoop
  <2>2. CASE subscribed
    <3>1. /\ Len(posted) = tick - queued /\ \A i \in DOMAIN posted : posted[i] = queued + i
          /\ phase = "listening" \/ has < queued
      BY <2>2 DEF Stream, OnLoop
    <3>2. tick + 1 \in 1..MaxTicks
      BY <1>1
    <3>3. /\ DOMAIN posted = 1..Len(posted) /\ DOMAIN posted' = 1..(Len(posted) + 1)
          /\ Len(posted) \in Nat /\ Len(posted') = Len(posted) + 1
          /\ \A i \in 1..Len(posted) : posted'[i] = posted[i]
          /\ posted'[Len(posted) + 1] = tick + 1
      BY <1>1, <2>2, <3>2, AppendProperties, LenProperties
    <3>4. \A i \in DOMAIN posted' : posted'[i] = queued + i
      <4> SUFFICES ASSUME NEW i \in 1..(Len(posted) + 1)
                   PROVE  posted'[i] = queued + i
        BY <3>3
      <4>1. CASE i = Len(posted) + 1
        BY <1>1, <3>1, <3>3, <4>1
      <4>2. CASE i \in 1..Len(posted)
        BY <3>1, <3>3, <4>2
      <4>3. QED
        BY <3>3, <4>1, <4>2
    <3>5. QED
      BY <1>1, <2>2, <3>1, <3>3, <3>4 DEF OnLoop
  <2>3. QED
    BY <2>1, <2>2
<1>4. InSocket(has, sent)' /\ InQueue(has, sent, queued, n)'
  BY <1>1, <1>2 DEF Stream, InSocket, InQueue
<1>5. Stream(has, sent, queued, n)'
  BY <1>1, <1>3, <1>4 DEF Stream
<1>6. QED
  BY <1>5 DEF Flows

\* What is taken next, of what is on its way.
LEMMA NextNumber ==
  ASSUME TypeInv, NEW has \in Int, NEW sent \in Int, NEW queued \in Int, NEW n \in Nat,
         Stream(has, sent, queued, n), toClient # <<>>, Numbered(NextMessage)
  PROVE  /\ NextMessage.number = has + 1
         /\ NextMessage.kind = "dump" <=> phase # "listening"
<1>1. toClient \in Seq(ToClient \ {None}) /\ Len(toClient) \in 1..Len(toClient)
  BY LenProperties, EmptySeq DEF TypeInv, TypeOK
<1>2. Carries(toClient, Len(toClient), First(has), has, sent)
  BY DEF Stream, InSocket
<1>3. /\ NextMessage.number = has + 1
      /\ NextMessage.kind = "dump" <=> NextMessage.number = First(has)
  BY <1>1, <1>2, CarriesLess DEF NextMessage
<1>4. QED
  BY <1>3 DEF First

LEMMA ClientFlows ==
  ASSUME TypeInv, StartInv, NEW has \in Int, NEW sent \in Int, NEW queued \in Int, NEW n \in Nat,
         Stream(has, sent, queued, n), phase' \in Early \cup {"listening"},
         ReceiveInfo \/ ReceiveDump \/ ReceiveEvent \/ ReceiveResult
  PROVE  Flows'
<1>1. /\ toClient # <<>> /\ toClient' = Tail(toClient)
      /\ UNCHANGED <<handler, writer, queue, posted, tick, subscribed>>
      /\ NextMessage = Head(toClient)
  BY DEF ReceiveInfo, ReceiveDump, ReceiveEvent, ReceiveResult, Take, NextMessage, side
<1>2. CASE ReceiveInfo
  <2>1. handler # "off"
    BY <1>1 DEF TypeInv, IdleInv
  <2>2. Informs(toClient)
    BY <1>1, <1>2, <2>1 DEF ReceiveInfo, StartInv
  <2>3. ~Numbered(Head(toClient))
    BY <2>2, TailInforms DEF Numbered, TypeInv, TypeOK
  <2>4. phase # "listening" /\ phase' # "listening" /\ mirror' = mirror
    BY <1>2 DEF ReceiveInfo
  <2>5. QED
    BY <1>1, <2>3, <2>4, TakeFlows
<1>3. CASE ReceiveDump
  <2>1. /\ NextMessage.kind = "dump" /\ phase' = "listening" /\ mirror' = NextMessage.number
    BY <1>3 DEF ReceiveDump, Early
  <2>2. Numbered(Head(toClient))
    BY <1>1, <2>1 DEF Numbered
  <2>3. QED
    BY <1>1, <2>1, <2>2, TakeFlows
<1>4. CASE ReceiveEvent
  <2>1. Numbered(Head(toClient)) /\ phase' = "listening" /\ mirror' = NextMessage.number
    BY <1>1, <1>4 DEF ReceiveEvent, Numbered
  <2>2. QED
    BY <1>1, <2>1, TakeFlows
<1>5. CASE ReceiveResult
  <2>1. ~Numbered(Head(toClient)) /\ phase' = phase /\ mirror' = mirror
    BY <1>1, <1>5 DEF ReceiveResult, Numbered
  <2>2. QED
    BY <1>1, <2>1, TakeFlows
<1>6. QED
  BY <1>2, <1>3, <1>4, <1>5

LEMMA StreamStep ==
  ASSUME TypeInv, StartInv, StreamInv, [Next]_vars
  PROVE  StreamInv'
<1> SUFFICES ASSUME phase' \in Early \cup {"listening"} PROVE Flows'
  BY DEF StreamInv
<1>1. CASE InfoLost \/ ConnectAgain \/ LoseConnection \/ Quit
  BY <1>1 DEF InfoLost, ConnectAgain, LoseConnection, Quit, Disconnect, StartInv, Early
<1>2. CASE ServerStep \/ WriterStep \/ Signal \/ Stop \/ Drop \/ UNCHANGED vars
             \/ \E c \in Commands : SendCommand(c) \/ TaskCancelled(c)
  <2>1. phase' = phase
    <3>1. CASE ServerStep
      BY <3>1 DEF ServerStep, Accept, Receive, ReceiveInvalid, StartListening, Finish, HandleEvent,
                  HandlerLeaves, HandlerCloses, socket, client
    <3>2. CASE WriterStep \/ Signal \/ Stop \/ Drop \/ UNCHANGED vars
                 \/ \E c \in Commands : SendCommand(c) \/ TaskCancelled(c)
      BY <3>2 DEF WriterStep, Write, WriterEnds, Signal, Stop, Drop, SendCommand, TaskCancelled,
                  vars, socket, client
    <3>3. QED
      BY <1>2, <3>1, <3>2
  <2>2. PICK has, sent, queued \in Int, n \in Nat : Stream(has, sent, queued, n)
    BY <2>1 DEF StreamInv, Flows
  <2>3. CASE ServerStep
    BY <2>1, <2>2, <2>3, ServerFlows
  <2>4. CASE Write
    BY <2>2, <2>4, WriteFlows
  <2>5. CASE Signal
    BY <2>2, <2>5, SignalFlows
  <2>6. CASE WriterEnds \/ Stop \/ Drop \/ UNCHANGED vars
               \/ \E c \in Commands : SendCommand(c) \/ TaskCancelled(c)
    <3>1. UNCHANGED <<toClient, queue, posted, tick, subscribed, mirror>>
      BY <2>6 DEF WriterEnds, Stop, Drop, SendCommand, TaskCancelled, vars, side, socket, client
    <3>2. (Serving' => Serving) /\ (writer' = "running" => writer = "running" /\ (Serving' <=> Serving))
      BY <2>6 DEF WriterEnds, Stop, Drop, SendCommand, TaskCancelled, vars, side, Serving, Cancelled
    <3>3. QED
      BY <2>1, <2>2, <3>1, <3>2, SameFlows
  <2>7. QED
    BY <1>2, <2>3, <2>4, <2>5, <2>6 DEF WriterStep
<1>3. CASE ReceiveInfo \/ ReceiveDump \/ ReceiveEvent \/ ReceiveResult
  <2>1. phase \in Early \cup {"listening"}
    BY <1>3 DEF ReceiveInfo, ReceiveDump, ReceiveEvent, ReceiveResult, Early
  <2>2. PICK has, sent, queued \in Int, n \in Nat : Stream(has, sent, queued, n)
    BY <2>1 DEF StreamInv, Flows
  <2>3. QED
    BY <1>3, <2>2, ClientFlows
<1>4. CASE Connect \/ AskToListen
  <2>1. phase \in Early /\ phase # "listening" /\ phase' # "listening"
        /\ UNCHANGED <<toClient, queue, posted, tick, subscribed, mirror, handler, writer>>
    BY <1>4 DEF Connect, AskToListen, Early, side
  <2>2. Serving' <=> Serving
    BY <2>1 DEF Serving
  <2>3. PICK has, sent, queued \in Int, n \in Nat : Stream(has, sent, queued, n)
    BY <2>1 DEF StreamInv, Flows
  <2>4. QED
    BY <2>1, <2>2, <2>3, SameFlows
<1>5. QED
  BY <1>1, <1>2, <1>3, <1>4 DEF Next, ClientStep

-----------------------------------------------------------------------------
(***************************************************************************)
(* The session's properties.                                               *)
(***************************************************************************)
Inv == TypeInv /\ StartInv /\ HurriedInv /\ StreamInv

LEMMA Start == Init => Inv
<1> SUFFICES ASSUME Init PROVE Inv
  OBVIOUS
<1>1. /\ toClient = <<>> /\ toServer = <<>> /\ queue = <<>> /\ posted = <<>>
      /\ Len(toClient) = 0 /\ Len(queue) = 0 /\ DOMAIN toClient = {} /\ DOMAIN queue = {}
      /\ DOMAIN toServer = {}
  BY DEF Init
<1>2. StartInv /\ HurriedInv
  BY <1>1 DEF Init, StartInv, HurriedInv, Lacks
<1>3. InSocket(0, 0) /\ InQueue(0, 0, 0, 0) /\ OnLoop(0, 0)
  BY <1>1 DEF Init, InSocket, InQueue, OnLoop, Carries
<1>4. Stream(0, 0, 0, 0)
  BY <1>3 DEF Init, Stream
<1>5. StreamInv
  BY <1>4 DEF StreamInv, Flows
<1>6. QED
  BY <1>2, <1>5, TypeStart DEF Inv

\* The message taken for the dump is the dump, unless a command was sent.
LEMMA DumpIsFirst ==
  ASSUME Inv, ReceiveDump
  PROVE  phase' # "confused" \/ hurried
<1> SUFFICES ASSUME ~hurried PROVE NextMessage.kind = "dump"
  BY DEF ReceiveDump
<1>1. toClient # <<>> /\ toClient \in Seq(ToClient \ {None}) /\ phase = "dump"
  BY DEF ReceiveDump, Inv, TypeInv, TypeOK
<1>2. Lacks(toClient, "info") /\ Lacks(toClient, "result")
  BY <1>1 DEF Inv, StartInv, HurriedInv, Early
<1>3. /\ NextMessage \in ToClient \ {None}
      /\ NextMessage.kind # "info" /\ NextMessage.kind # "result"
  BY <1>1, <1>2, TailLacks, HeadTailProperties DEF NextMessage
<1>4. Numbered(NextMessage)
  BY <1>3, Kinds DEF Numbered
<1>5. PICK has, sent, queued \in Int, n \in Nat : Stream(has, sent, queued, n)
  BY <1>1 DEF Inv, StreamInv, Flows, Early
<1>6. QED
  BY <1>1, <1>4, <1>5, NextNumber DEF Inv

LEMMA Step == Inv /\ [Next]_vars => Inv'
<1> SUFFICES ASSUME Inv, [Next]_vars PROVE Inv'
  OBVIOUS
<1>1. TypeInv' /\ StartInv' /\ StreamInv'
  BY TypeStep, StartStep, StreamStep DEF Inv
<1>2. HurriedInv'
  BY HurriedStep, DumpIsFirst DEF Inv
<1>3. QED
  BY <1>1, <1>2 DEF Inv

\* Past the dump, what is carried are events.
LEMMA CarriedRun ==
  ASSUME NEW S, NEW s \in Seq(S), NEW first \in Int, NEW after, NEW last,
         Carries(s, Len(s), first, after, last), first <= after
  PROVE  Run(s, after, last)
<1> DEFINE events == {i \in DOMAIN s : s[i].kind = "event"}
<1>1. DOMAIN s = 1..Len(s)
  BY LenProperties
<1>2. /\ after \in Int /\ last \in Int
      /\ \A i \in 1..Len(s) : Numbered(s[i]) => /\ s[i].number \in (after + 1)..last
                                                /\ s[i].kind = "dump" <=> s[i].number = first
      /\ \A k \in (after + 1)..last : \E i \in 1..Len(s) : Numbered(s[i]) /\ s[i].number = k
      /\ \A i, j \in 1..Len(s) : i < j /\ Numbered(s[i]) /\ Numbered(s[j]) => s[i].number < s[j].number
  BY DEF Carries
<1>3. \A i \in 1..Len(s) : Numbered(s[i]) <=> s[i].kind = "event"
  BY <1>2 DEF Numbered
<1>4. {s[i].number : i \in events} = (after + 1)..last
  <2>1. \A i \in events : s[i].number \in (after + 1)..last
    BY <1>1, <1>2, <1>3
  <2>2. \A k \in (after + 1)..last : \E i \in events : s[i].number = k
    BY <1>1, <1>2, <1>3
  <2> HIDE DEF events
  <2>3. QED
    BY <2>1, <2>2
<1>5. \A i, j \in events : i < j => s[i].number < s[j].number
  BY <1>1, <1>2, <1>3
<1>6. QED
  BY <1>4, <1>5 DEF Run

LEMMA Missed == Inv => NothingMissed
<1> SUFFICES ASSUME Inv PROVE NothingMissed
  OBVIOUS
<1>1. phase = "confused" => hurried
  BY DEF Inv, HurriedInv
<1>2. ASSUME phase = "listening", handler = "running"
      PROVE  \E sent, queued \in mirror..tick :
               /\ Run(toClient, mirror, sent) /\ Run(queue, sent, queued)
               /\ posted = [i \in 1..(tick - queued) |-> queued + i]
  <2>1. PICK has, sent, queued \in Int, n \in Nat : Stream(has, sent, queued, n)
    BY <1>2 DEF Inv, StreamInv, Flows
  <2>2. /\ toClient \in Seq(ToClient \ {None}) /\ queue \in Seq(ToClient)
        /\ posted \in Seq(1..MaxTicks) /\ mirror \in 0..MaxTicks /\ tick \in 0..MaxTicks
    BY DEF Inv, TypeInv, TypeOK
  <2>3. Serving /\ has = mirror /\ First(has) = mirror
    BY <1>2, <2>1 DEF Stream, Serving, First
  <2>4. /\ Carries(toClient, Len(toClient), mirror, mirror, sent)
        /\ Carries(queue, Len(queue), mirror, sent, queued)
    BY <2>1, <2>3 DEF Stream, InSocket, InQueue
  <2>5. mirror <= sent /\ sent <= queued
    BY <2>4 DEF Carries
  <2>6. Run(toClient, mirror, sent) /\ Run(queue, sent, queued)
    BY <2>2, <2>4, <2>5, CarriedRun
  <2>7. Len(posted) = tick - queued /\ \A i \in DOMAIN posted : posted[i] = queued + i
    BY <1>2, <2>1, <2>3 DEF Stream, OnLoop
  <2>8. /\ Len(posted) \in Nat /\ DOMAIN posted = 1..Len(posted)
        /\ posted = [i \in 1..Len(posted) |-> posted[i]]
    BY <2>2, LenProperties
  <2>9. posted = [i \in 1..(tick - queued) |-> queued + i]
    BY <2>7, <2>8
  <2>10. sent \in mirror..tick /\ queued \in mirror..tick
    BY <2>2, <2>5, <2>7, <2>8
  <2>11. QED
    BY <2>6, <2>9, <2>10
<1>3. QED
  BY <1>1, <1>2 DEF NothingMissed

\* A client that is served misses no event: what it has, what is in the socket,
\* what is queued and what is posted are the events signalled so far, each once
\* and in their order; and it takes nothing else for the dump unless it hurried.
THEOREM NothingIsMissed == Spec => []NothingMissed
<1>1. QED
  BY Start, Step, Missed, PTL DEF Spec

-----------------------------------------------------------------------------
(***************************************************************************)
(* The refinement: the session is a stream of events.                      *)
(***************************************************************************)
\* Nothing is sent, and nothing is applied, before it was signalled.
Old(t) == {m \in ToClient : Numbered(m) => m.number <= t}

PastInv ==
  /\ mirror \in 0..tick /\ posted \in Seq(1..tick)
  /\ queue \in Seq(Old(tick)) /\ toClient \in Seq(Old(tick))

LEMMA OldMessages ==
  ASSUME NEW t \in 0..MaxTicks
  PROVE  /\ None \in Old(t) /\ Info \in Old(t) /\ Dump(t) \in Old(t)
         /\ \A k \in 1..t : Event(k) \in Old(t)
         /\ \A c \in Commands, o \in {"ok", "error"} : Result(c, o) \in Old(t)
<1>1. MaxTicks \in Nat
  BY SessionAssumption
<1>2. /\ ~Numbered(None) /\ ~Numbered(Info) /\ Dump(t).number = t
      /\ \A k \in 1..t : Event(k).number = k
      /\ \A c \in Commands, o \in {"ok", "error"} : ~Numbered(Result(c, o))
  BY DEF Numbered, None, Info, Dump, Event, Result
<1>3. \A k \in 1..t : k \in 1..MaxTicks /\ k <= t
  BY <1>1
<1>4. QED
  BY <1>2, <1>3, Messages DEF Old

LEMMA SendsOld ==
  ASSUME PastInv, NEW m \in Old(tick), Send(m)
  PROVE  queue' \in Seq(Old(tick))
<1>1. Append(queue, m) \in Seq(Old(tick))
  BY AppendProperties DEF PastInv
<1>2. QED
  BY <1>1 DEF Send, PastInv

LEMMA PastStep ==
  ASSUME TypeInv, PastInv, [Next]_vars
  PROVE  PastInv'
<1>0. /\ mirror \in 0..tick /\ posted \in Seq(1..tick) /\ tick \in 0..MaxTicks /\ MaxTicks \in Nat
      /\ queue \in Seq(Old(tick)) /\ toClient \in Seq(Old(tick))
  BY SessionAssumption DEF PastInv, TypeInv, TypeOK
<1>1. ASSUME UNCHANGED <<tick, mirror, toClient>>, posted' \in Seq(1..tick),
             queue' \in Seq(Old(tick))
      PROVE  PastInv'
  BY <1>0, <1>1 DEF PastInv
<1>2. ASSUME UNCHANGED <<tick, posted, queue>>, toClient # <<>>, toClient' = Tail(toClient),
             mirror' = mirror \/ (Numbered(NextMessage) /\ mirror' = NextMessage.number)
      PROVE  PastInv'
  <2>1. Tail(toClient) \in Seq(Old(tick)) /\ NextMessage \in Old(tick)
    BY <1>0, <1>2, HeadTailProperties DEF NextMessage
  <2>2. Numbered(NextMessage) => NextMessage.number \in 0..tick
    BY <1>0, <2>1, Kinds DEF Old, Numbered
  <2>3. QED
    BY <1>0, <1>2, <2>1, <2>2 DEF PastInv
<1>3. CASE Accept
  <2>1. Append(queue, Info) \in Seq(Old(tick))
    BY <1>0, OldMessages, AppendProperties
  <2>2. QED
    BY <1>0, <1>1, <1>3, <2>1 DEF Accept, socket, client
<1>4. CASE ReceiveInvalid
  <2>1. toServer \in Seq(ToServer) /\ toServer # <<>> /\ Head(toServer).kind = "command"
    BY <1>4 DEF ReceiveInvalid, TypeInv, TypeOK
  <2>2. Head(toServer) \in ToServer
    BY <2>1, HeadTailProperties
  <2>3. Head(toServer).command \in Commands
    BY <2>1, <2>2 DEF ToServer, Listen, Command
  <2>4. Result(Head(toServer).command, "error") \in Old(tick)
    BY <1>0, <2>3, OldMessages
  <2>5. QED
    BY <1>0, <1>1, <1>4, <2>4, SendsOld DEF ReceiveInvalid, client
<1>5. CASE StartListening
  <2>1. Dump(tick) \in Old(tick)
    BY <1>0, OldMessages
  <2>2. UNCHANGED <<tick, mirror, toClient, posted>> /\ (queue' = queue \/ Send(Dump(tick)))
    BY <1>5 DEF StartListening, client
  <2>3. QED
    BY <1>0, <1>1, <2>1, <2>2, SendsOld
<1>6. ASSUME NEW c \in Commands, Finish(c)
      PROVE  PastInv'
  <2>1. PICK o \in {"ok", "error"} : Send(Result(c, o))
    BY <1>6 DEF Finish
  <2>2. Result(c, o) \in Old(tick)
    BY <1>0, OldMessages
  <2>3. QED
    BY <1>0, <1>1, <1>6, <2>1, <2>2, SendsOld DEF Finish, socket, client
<1>7. CASE HandleEvent
  <2>1. Head(posted) \in 1..tick /\ Tail(posted) \in Seq(1..tick)
    BY <1>0, <1>7, HeadTailProperties DEF HandleEvent
  <2>2. Event(Head(posted)) \in Old(tick)
    BY <1>0, <2>1, OldMessages
  <2>3. QED
    BY <1>0, <1>1, <1>7, <2>1, <2>2, SendsOld DEF HandleEvent, socket, client
<1>8. CASE HandlerLeaves
  <2>1. Append(queue, None) \in Seq(Old(tick))
    BY <1>0, OldMessages, AppendProperties
  <2>2. QED
    BY <1>0, <1>1, <1>8, <2>1 DEF HandlerLeaves, socket, client
<1>9. CASE Write
  <2>1. Head(queue) \in Old(tick) /\ Tail(queue) \in Seq(Old(tick))
    BY <1>0, <1>9, HeadTailProperties DEF Write
  <2>2. Append(toClient, Head(queue)) \in Seq(Old(tick))
    BY <1>0, <2>1, AppendProperties
  <2>3. QED
    BY <1>0, <1>9, <2>1, <2>2 DEF Write, PastInv, client
<1>10. CASE Signal
  <2>1. /\ tick' = tick + 1 /\ UNCHANGED <<queue, toClient, mirror>>
        /\ posted' = IF subscribed THEN Append(posted, tick + 1) ELSE posted
    BY <1>10 DEF Signal, socket, client
  <2>2. Old(tick) \subseteq Old(tick + 1)
    <3>1. \A m \in ToClient : Numbered(m) => m.number \in Int
      BY <1>0, Kinds DEF Numbered
    <3>2. QED
      BY <1>0, <3>1 DEF Old
  <2>3. queue \in Seq(Old(tick + 1)) /\ toClient \in Seq(Old(tick + 1))
    BY <1>0, <2>2, SeqMonotonic
  <2>4. 1..tick \subseteq 1..(tick + 1) /\ tick + 1 \in 1..(tick + 1)
    BY <1>0
  <2>5. posted \in Seq(1..(tick + 1))
    BY <1>0, <2>4, SeqMonotonic
  <2>6. Append(posted, tick + 1) \in Seq(1..(tick + 1))
    BY <2>4, <2>5, AppendProperties
  <2>7. mirror \in 0..(tick + 1)
    BY <1>0
  <2>8. QED
    BY <2>1, <2>3, <2>5, <2>6, <2>7 DEF PastInv
<1>11. CASE ReceiveInfo \/ ReceiveDump \/ ReceiveEvent \/ ReceiveResult
  <2>1. /\ UNCHANGED <<tick, posted, queue>> /\ toClient # <<>> /\ toClient' = Tail(toClient)
    BY <1>11 DEF ReceiveInfo, ReceiveDump, ReceiveEvent, ReceiveResult, Take, side
  <2>2. mirror' = mirror \/ (Numbered(NextMessage) /\ mirror' = NextMessage.number)
    BY <1>11 DEF ReceiveInfo, ReceiveDump, ReceiveEvent, ReceiveResult, Numbered
  <2>3. QED
    BY <1>2, <2>1, <2>2
<1>12. CASE \/ Receive \/ HandlerCloses \/ WriterEnds \/ InfoLost \/ AskToListen \/ LoseConnection
            \/ Connect \/ ConnectAgain \/ Stop \/ Drop \/ Quit \/ UNCHANGED vars
            \/ \E c \in Commands : SendCommand(c) \/ TaskCancelled(c)
  <2>1. UNCHANGED <<tick, posted, queue, toClient, mirror>>
    BY <1>12 DEF Receive, HandlerCloses, WriterEnds, InfoLost, AskToListen, LoseConnection,
         Connect, ConnectAgain, Stop, Drop, Quit, SendCommand, TaskCancelled, vars, side, socket,
         client
  <2>2. QED
    BY <1>0, <1>1, <2>1
<1>13. QED
  BY <1>3, <1>4, <1>5, <1>6, <1>7, <1>8, <1>9, <1>10, <1>11, <1>12
     DEF Next, ServerStep, WriterStep, ClientStep

LEMMA PastStart == Init => PastInv
<1> SUFFICES ASSUME Init PROVE PastInv
  OBVIOUS
<1>1. \A S : <<>> \in Seq(S)
  OBVIOUS
<1>2. QED
  BY <1>1 DEF Init, PastInv

\* How far the stream is.
Stage == CASE phase = "listening" -> "listening"
           [] phase \in {"ended", "confused"} -> "over"
           [] OTHER -> "before"

LEMMA Stages ==
  /\ phase = "listening" => Stage = "listening"
  /\ phase \in {"ended", "confused"} => Stage = "over"
  /\ phase \notin {"listening", "ended", "confused"} => Stage = "before"
  BY DEF Stage

\* A step of the session is a step of the stream, or invisible there.
LEMMA StepStreams ==
  ASSUME Inv, PastInv, PastInv', [Next]_vars
  PROVE  [Events!Next]_(Events!esVars)
<1>0. mirror \in 0..tick /\ tick \in Nat /\ mirror' \in 0..tick'
  <2>1. tick \in 0..MaxTicks /\ MaxTicks \in Nat
    BY SessionAssumption DEF Inv, TypeInv, TypeOK
  <2>2. tick \in Nat
    BY <2>1
  <2>3. QED
    BY <2>2 DEF PastInv
<1>1. ASSUME UNCHANGED <<tick, mirror, phase>>
      PROVE  [Events!Next]_(Events!esVars)
  BY <1>1 DEF Events!esVars
<1>2. ASSUME UNCHANGED <<tick, mirror>>, Stage' = Stage
      PROVE  [Events!Next]_(Events!esVars)
  BY <1>2 DEF Events!esVars, Stage
<1>3. ASSUME UNCHANGED <<tick, mirror>>, Stage # "over", Stage' = "over"
      PROVE  [Events!Next]_(Events!esVars)
  BY <1>3 DEF Events!Next, Events!End, Stage
<1>4. CASE Signal
  <2>1. tick' = tick + 1 /\ mirror' = mirror /\ Stage' = Stage
    BY <1>4 DEF Signal, client, Stage
  <2>2. QED
    BY <2>1 DEF Events!Next, Events!Happen, Stage
<1>5. CASE ReceiveDump
  <2>1. tick' = tick /\ phase = "dump"
    BY <1>5 DEF ReceiveDump
  <2>2. CASE phase' = "confused"
    <3>1. mirror' = mirror
      BY <1>5, <2>2 DEF ReceiveDump
    <3>2. QED
      BY <1>3, <2>1, <2>2, <3>1, Stages DEF Stage
  <2>3. CASE phase' = "listening"
    <3>1. Stage = "before" /\ Stage' = "listening"
      BY <2>1, <2>3 DEF Stage
    <3>2. QED
      BY <1>0, <2>1, <3>1 DEF Events!Next, Events!Begin, Stage
  <2>4. QED
    BY <1>5, <2>2, <2>3 DEF ReceiveDump
<1>6. CASE ReceiveEvent
  <2>1. /\ tick' = tick /\ phase = "listening" /\ phase' = "listening"
        /\ toClient # <<>> /\ Numbered(NextMessage) /\ mirror' = NextMessage.number
    BY <1>6 DEF ReceiveEvent, Numbered
  <2>2. PICK has, sent, queued \in Int, n \in Nat : Stream(has, sent, queued, n)
    BY <2>1 DEF Inv, StreamInv, Flows
  <2>3. NextMessage.number = has + 1 /\ has = mirror
    BY <2>1, <2>2, NextNumber DEF Inv, Stream
  <2>4. mirror' = mirror + 1 /\ mirror < tick
    BY <1>0, <2>1, <2>3
  <2>5. Stage = "listening" /\ Stage' = "listening"
    BY <2>1 DEF Stage
  <2>6. QED
    BY <2>1, <2>4, <2>5 DEF Events!Next, Events!Tell, Stage
<1>7. CASE ReceiveInfo \/ InfoLost \/ AskToListen \/ Connect \/ ConnectAgain
  <2>1. /\ UNCHANGED <<tick, mirror>>
        /\ phase \notin {"listening", "ended", "confused"}
        /\ phase' \notin {"listening", "ended", "confused"}
    BY <1>7 DEF ReceiveInfo, InfoLost, AskToListen, Connect, ConnectAgain
  <2>2. Stage' = Stage
    BY <2>1 DEF Stage
  <2>3. QED
    BY <1>2, <2>1, <2>2
<1>8. CASE LoseConnection \/ Quit
  <2>1. UNCHANGED <<tick, mirror>> /\ phase' = "ended" /\ phase \notin {"ended", "confused"}
    BY <1>8 DEF LoseConnection, Quit, Disconnect
  <2>2. Stage # "over" /\ Stage' = "over"
    BY <2>1 DEF Stage
  <2>3. QED
    BY <1>3, <2>1, <2>2
<1>9. CASE \/ ServerStep \/ WriterStep \/ ReceiveResult \/ Stop \/ Drop \/ UNCHANGED vars
           \/ \E c \in Commands : SendCommand(c) \/ TaskCancelled(c)
  <2>1. UNCHANGED <<tick, mirror, phase>>
    BY <1>9 DEF ServerStep, Accept, Receive, ReceiveInvalid, StartListening, Finish, HandleEvent,
         HandlerLeaves, HandlerCloses, WriterStep, Write, WriterEnds, ReceiveResult, Stop, Drop,
         SendCommand, TaskCancelled, vars, client
  <2>2. QED
    BY <1>1, <2>1
<1>10. QED
  BY <1>4, <1>5, <1>6, <1>7, <1>8, <1>9 DEF Next, ClientStep

\* The session implements EventStream: it begins with a state the server has had,
\* no event is skipped and none applied twice or before it was signalled, also
\* while the session is torn down or the client no longer reads as fast as the
\* server writes, and nothing is applied afterwards.
THEOREM SessionIsAStream == Spec => ImplementsEventStream
<1>1. Init => Events!Init
  BY DEF Init, Events!Init
<1>2. Init => Inv /\ PastInv
  BY Start, PastStart
<1>3. Inv /\ PastInv /\ [Next]_vars => (Inv /\ PastInv)'
  BY Step, PastStep DEF Inv
<1>4. Inv /\ PastInv /\ (Inv /\ PastInv)' /\ [Next]_vars => [Events!Next]_(Events!esVars)
  BY StepStreams
<1>5. QED
  BY <1>1, <1>2, <1>3, <1>4, PTL DEF Spec, ImplementsEventStream, Events!Spec
=============================================================================
