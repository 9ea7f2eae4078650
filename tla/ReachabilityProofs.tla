------------------------- MODULE ReachabilityProofs -------------------------
(***************************************************************************)
(* What a reader that has registered can count on: the entry that POSTs    *)
(* find it by, and its channel.  And what a client can: a POST whose       *)
(* command takes no body ends in no exception.                             *)
(***************************************************************************)
EXTENDS MailboxProofs

-----------------------------------------------------------------------------
(* The registration of a reader, step by step. *)

\* Only a reply may lack the serial number.
NamedFrames ==
  \A c \in Ws : \A m \in Elements(up[c]) : m.kind # "ret" => m.sn = Device[c]

NamedCallback ==
  reactor.pc # "idle" /\ reactor.msg.kind # "ret"
    => reactor.msg.sn = Device[reactor.ws]

\* A frame is answered on a socket that is open, and sockets open once.
AnsweredOnOpen ==
  \A c \in Ws : acked[c] # {} => socket[c] \in {"open", "closed"}

\* The entry is made before the frame is answered.
EntryBeforeAnswer ==
  reactor.pc = "handle_reg" /\ reactor.msg.kind # "ret"
    => connections[Device[reactor.ws]] = reactor.ws

\* The registration of the socket has been answered, and its callback has only
\* the subscription left to make.
AboutToSubscribe(c) ==
  reactor.pc = "start" /\ reactor.ws = c /\ reactor.msg.kind = "reg"

\* From then on the handler has its channel.
ChannelAfterAnswer ==
  faults = 0 =>
    \A c \in Ws : "reg" \in acked[c] /\ socket[c] = "open" /\ ~AboutToSubscribe(c)
      => Device[c] \in subscribed_channels[c]

RegistrationInv ==
  /\ NamedFrames /\ NamedCallback /\ AnsweredOnOpen /\ EntryBeforeAnswer
  /\ ChannelAfterAnswer

\* The invariant holds at the start.
LEMMA RegistrationInit == Init => RegistrationInv
<1> SUFFICES ASSUME Init PROVE RegistrationInv
  OBVIOUS
<1>1. /\ \A c \in Ws : up[c] = <<>> /\ acked[c] = {}
      /\ reactor.pc = "idle"
  BY DEF Init, ConfigInit, HandlerInit, Idle
<1> QED
  BY <1>1, EmptyElements DEF RegistrationInv, NamedFrames, NamedCallback,
     AnsweredOnOpen, EntryBeforeAnswer, ChannelAfterAnswer

\* What touches none of it, but for a failure that is counted.
LEMMA RegistrationStutter ==
  ASSUME RegistrationInv, UNCHANGED <<connections, socket, up, reactor, acked>>,
         \/ UNCHANGED <<faults, subscribed_channels>>
         \/ faults' # 0
  PROVE  RegistrationInv'
<1>1. NamedFrames' /\ NamedCallback' /\ AnsweredOnOpen' /\ EntryBeforeAnswer'
  BY DEF RegistrationInv, NamedFrames, NamedCallback, AnsweredOnOpen,
         EntryBeforeAnswer
<1>2. ChannelAfterAnswer'
  BY DEF RegistrationInv, ChannelAfterAnswer, AboutToSubscribe
<1> QED
  BY <1>1, <1>2 DEF RegistrationInv

\* A socket that is dialled, accepted or opened has answered nothing yet.
LEMMA RegistrationOpens ==
  ASSUME TypeOK, RegistrationInv, NEW c \in Ws, NEW state,
         socket[c] \notin {"open", "closed"},
         socket' = [socket EXCEPT ![c] = state],
         UNCHANGED <<connections, up, reactor, acked, faults, subscribed_channels>>
  PROVE  RegistrationInv'
<1>1. acked[c] = {}
  BY DEF RegistrationInv, AnsweredOnOpen
<1>2. \A d \in Ws : d # c => socket'[d] = socket[d]
  BY TypeParts DEF SocketTypeOK
<1>3. NamedFrames' /\ NamedCallback' /\ EntryBeforeAnswer'
  BY DEF RegistrationInv, NamedFrames, NamedCallback, EntryBeforeAnswer
<1>4. AnsweredOnOpen'
  BY <1>1, <1>2 DEF RegistrationInv, AnsweredOnOpen
<1>5. ChannelAfterAnswer'
  BY <1>1, <1>2 DEF RegistrationInv, ChannelAfterAnswer, AboutToSubscribe
<1> QED
  BY <1>3, <1>4, <1>5 DEF RegistrationInv

\* A frame that arrives on a socket.
LEMMA RegistrationFrame ==
  ASSUME TypeOK, RegistrationInv, NEW c \in Ws, NEW m \in Message,
         m.kind # "ret" => m.sn = Device[c],
         up' = [up EXCEPT ![c] = Append(up[c], m)],
         UNCHANGED <<connections, socket, reactor, acked, faults,
                     subscribed_channels>>
  PROVE  RegistrationInv'
<1>1. up[c] \in Seq(Message)
  BY TypeParts DEF SocketTypeOK
<1>2. Elements(Append(up[c], m)) = Elements(up[c]) \cup {m}
  BY <1>1, AppendsOne
<1>3. \A d \in Ws : up'[d] = IF d = c THEN Append(up[c], m) ELSE up[d]
  BY TypeParts DEF SocketTypeOK
<1>4. NamedFrames'
  BY <1>2, <1>3 DEF RegistrationInv, NamedFrames
<1>5. NamedCallback' /\ AnsweredOnOpen' /\ EntryBeforeAnswer' /\ ChannelAfterAnswer'
  BY DEF RegistrationInv, NamedCallback, AnsweredOnOpen, EntryBeforeAnswer,
         ChannelAfterAnswer, AboutToSubscribe
<1> QED
  BY <1>4, <1>5 DEF RegistrationInv

\* The readers preserve the invariant.
LEMMA RegistrationReaders ==
  ASSUME TypeOK, RegistrationInv, NEW c \in Ws, Readers(c)
  PROVE  RegistrationInv'
<1>0. UNCHANGED <<connections, reactor, acked, faults, subscribed_channels>>
  BY ReadersFrame DEF handlerVars, subVars
<1>1. CASE Dial(c)
  <2>1. /\ socket[c] \notin {"open", "closed"} /\ UNCHANGED up
        /\ socket' = [socket EXCEPT ![c] = "connecting"]
    BY <1>1 DEF Dial
  <2> QED
    BY <1>0, <2>1, RegistrationOpens
<1>2. CASE Reply(c)
  <2>1. PICK sn \in {Device[c], Nil} :
          up' = [up EXCEPT ![c] =
                   Append(@, [kind |-> "ret", sn |-> sn, of |-> Head(down[c])])]
    BY <1>2 DEF Reply
  <2> DEFINE m == [kind |-> "ret", sn |-> sn, of |-> Head(down[c])]
  <2>2. m.kind = "ret" /\ up' = [up EXCEPT ![c] = Append(up[c], m)]
    BY <2>1
  <2>3. m \in Message
    BY <1>2, HeadTailProperties, TypeParts, ConfigAssumption
    DEF Reply, Message, SocketTypeOK, ConfigAssumption
  <2>4. UNCHANGED socket
    BY <1>2 DEF Reply
  <2> HIDE DEF m
  <2> QED
    BY <1>0, <2>2, <2>3, <2>4, RegistrationFrame
<1>3. ASSUME NEW kind \in {"reg", "sendlog"}, SendFrame(c, kind)
      PROVE  RegistrationInv'
  <2> DEFINE m == [kind |-> kind, sn |-> Device[c], of |-> Nil]
  <2>1. m.sn = Device[c] /\ up' = [up EXCEPT ![c] = Append(up[c], m)]
    BY <1>3 DEF SendFrame
  <2>2. m \in Message
    BY ConfigAssumption DEF Message, Command, ConfigAssumption
  <2>3. UNCHANGED socket
    BY <1>3 DEF SendFrame
  <2> HIDE DEF m
  <2> QED
    BY <1>0, <2>1, <2>2, <2>3, RegistrationFrame
<1> QED
  BY <1>1, <1>2, <1>3 DEF Readers

\* The callback takes a step that answers nothing and subscribes to nothing.
LEMMA RegistrationMoves ==
  ASSUME TypeOK, RegistrationInv, reactor.pc # "idle",
         UNCHANGED <<connections, socket, up, acked, subscribed_channels>>,
         NEW label, reactor' = [reactor EXCEPT !.pc = label],
         label # "handle_reg", reactor.pc # "start",
         UNCHANGED faults \/ faults' # 0
  PROVE  RegistrationInv'
<1>1. /\ reactor'.ws = reactor.ws /\ reactor'.msg = reactor.msg
      /\ reactor'.pc = label
  BY BusyReactor, TypeParts DEF Busy
<1>2. NamedFrames' /\ NamedCallback' /\ AnsweredOnOpen' /\ EntryBeforeAnswer'
  BY <1>1 DEF RegistrationInv, NamedFrames, NamedCallback, AnsweredOnOpen,
              EntryBeforeAnswer
<1>3. ChannelAfterAnswer'
  BY <1>1 DEF RegistrationInv, ChannelAfterAnswer, AboutToSubscribe
<1> QED
  BY <1>2, <1>3 DEF RegistrationInv

\* The callback ends with nothing left to subscribe to.
LEMMA RegistrationIdle ==
  ASSUME RegistrationInv, reactor' = Idle, reactor.pc # "start",
         UNCHANGED <<connections, socket, up, acked, subscribed_channels>>,
         UNCHANGED faults \/ faults' # 0
  PROVE  RegistrationInv'
<1>1. reactor'.pc = "idle"
  BY DEF Idle
<1> QED
  BY <1>1 DEF RegistrationInv, NamedFrames, NamedCallback, AnsweredOnOpen,
              EntryBeforeAnswer, ChannelAfterAnswer, AboutToSubscribe

\* The callback answers the frame.
LEMMA RegistrationAnswers ==
  ASSUME TypeOK, RegistryInv, RegistrationInv, HandleReg
  PROVE  RegistrationInv'
<1>1. /\ reactor.pc = "handle_reg" /\ reactor.ws \in Ws /\ reactor.msg \in Message
      /\ reactor'.ws = reactor.ws /\ reactor'.msg = reactor.msg
      /\ reactor'.pc = (IF reactor.msg.kind = "sendlog" THEN "publish" ELSE "start")
  BY BusyReactor, TypeParts DEF HandleReg, GoTo, Busy
<1>2. UNCHANGED <<connections, socket, up, faults, subscribed_channels>>
  BY DEF HandleReg, configVars, socketVars, subVars
<1>3. \A c \in Ws : acked'[c] =
        IF c = reactor.ws
        THEN acked[c] \cup ({reactor.msg.kind} \cap {"reg", "sendlog"})
        ELSE acked[c]
  BY TypeParts DEF HandleReg, HandlerTypeOK
<1>4. socket[reactor.ws] = "open"
  BY <1>1 DEF RegistryInv, CallbackOnOpenSocket
<1>5. NamedFrames' /\ NamedCallback'
  BY <1>1, <1>2 DEF RegistrationInv, NamedFrames, NamedCallback
<1>6. AnsweredOnOpen'
  BY <1>2, <1>3, <1>4 DEF RegistrationInv, AnsweredOnOpen
<1>7. EntryBeforeAnswer'
  BY <1>1 DEF EntryBeforeAnswer
<1>8. ASSUME NEW c \in Ws, faults' = 0, "reg" \in acked'[c], socket'[c] = "open",
             ~AboutToSubscribe(c)'
      PROVE  Device[c] \in subscribed_channels'[c]
  <2>1. CASE "reg" \in acked[c]
    BY <1>1, <1>2, <1>8, <2>1 DEF RegistrationInv, ChannelAfterAnswer,
                                  AboutToSubscribe
  <2>2. CASE "reg" \notin acked[c]
    <3>1. c = reactor.ws /\ reactor.msg.kind = "reg"
      BY <1>3, <1>8, <2>2
    <3> QED
      BY <1>1, <1>8, <3>1 DEF AboutToSubscribe
  <2> QED
    BY <2>1, <2>2
<1>9. ChannelAfterAnswer'
  BY <1>8 DEF ChannelAfterAnswer
<1> QED
  BY <1>5, <1>6, <1>7, <1>9 DEF RegistrationInv

\* The callback makes the subscription.
LEMMA RegistrationSubscribes ==
  ASSUME TypeOK, RegistrationInv, StartSubscriber
  PROVE  RegistrationInv'
<1>1. /\ reactor.pc = "start" /\ reactor.ws \in Ws /\ reactor'.pc = "idle"
  BY BusyReactor, TypeParts DEF StartSubscriber, Idle
<1>2. UNCHANGED <<connections, socket, up, faults, acked>>
  BY DEF StartSubscriber, configVars, socketVars
<1>3. \A c \in Ws : subscribed_channels'[c] =
        IF c = reactor.ws THEN subscribed_channels[c] \cup {reactor.msg.sn}
        ELSE subscribed_channels[c]
  BY TypeParts DEF StartSubscriber, Subscriptions!Subscribe, HandlerTypeOK,
                   Subscriptions!SubTypeOK
<1>4. /\ NamedFrames' /\ NamedCallback' /\ AnsweredOnOpen' /\ EntryBeforeAnswer'
  BY <1>1, <1>2 DEF RegistrationInv, NamedFrames, NamedCallback, AnsweredOnOpen,
                    EntryBeforeAnswer
<1>5. ASSUME NEW c \in Ws, faults' = 0, "reg" \in acked'[c], socket'[c] = "open"
      PROVE  Device[c] \in subscribed_channels'[c]
  <2>1. CASE AboutToSubscribe(c)
    BY <1>1, <1>3, <2>1 DEF AboutToSubscribe, RegistrationInv, NamedCallback
  <2>2. CASE ~AboutToSubscribe(c)
    BY <1>2, <1>3, <1>5, <2>2 DEF RegistrationInv, ChannelAfterAnswer
  <2> QED
    BY <2>1, <2>2
<1>6. ChannelAfterAnswer'
  BY <1>5 DEF ChannelAfterAnswer
<1> QED
  BY <1>4, <1>6 DEF RegistrationInv

\* The callback makes the entry.
LEMMA RegistrationEnters ==
  ASSUME TypeOK, RegistrationInv, Register
  PROVE  RegistrationInv'
<1>1. /\ reactor.pc = "register" /\ reactor.ws \in Ws /\ reactor.msg.sn \in SN
      /\ reactor'.ws = reactor.ws /\ reactor'.msg = reactor.msg
      /\ reactor'.pc = "handle_reg"
  BY BusyReactor, TypeParts DEF Register, GoTo, Busy
<1>2. /\ UNCHANGED <<socket, up, faults, acked, subscribed_channels>>
      /\ connections' = [connections EXCEPT ![reactor.msg.sn] = reactor.ws]
  BY DEF Register, socketVars, subVars
<1>3. /\ NamedFrames' /\ NamedCallback' /\ AnsweredOnOpen'
  BY <1>1, <1>2 DEF RegistrationInv, NamedFrames, NamedCallback, AnsweredOnOpen
<1>4. EntryBeforeAnswer'
  BY <1>1, <1>2, TypeParts DEF RegistrationInv, NamedCallback, RegistryTypeOK,
                               EntryBeforeAnswer
<1>5. ChannelAfterAnswer'
  BY <1>1, <1>2 DEF RegistrationInv, ChannelAfterAnswer, AboutToSubscribe
<1> QED
  BY <1>3, <1>4, <1>5 DEF RegistrationInv

\* The callback reads a frame.
LEMMA RegistrationReads ==
  ASSUME TypeOK, RegistrationInv, NEW c \in Ws, OnMessage(c)
  PROVE  RegistrationInv'
<1>1. /\ reactor.pc = "idle" /\ up[c] \in Seq(Message) /\ up[c] # <<>>
      /\ UNCHANGED <<connections, socket, faults, acked, subscribed_channels>>
  BY TypeParts DEF OnMessage, Idle, SocketTypeOK, subVars
<1>2. PICK m \in Message : m = Head(up[c]) /\ m \in Elements(up[c])
                           /\ Elements(Tail(up[c])) \subseteq Elements(up[c])
  BY <1>1, TakesHead
<1>3. /\ reactor'.ws = c /\ reactor'.msg = m
      /\ reactor'.pc = (IF m.sn # Nil THEN "lpush" ELSE "handle_reg")
  BY <1>2 DEF OnMessage
<1>4. \A d \in Ws : up'[d] = IF d = c THEN Tail(up[c]) ELSE up[d]
  BY TypeParts DEF OnMessage, SocketTypeOK
<1>5. m.kind # "ret" => m.sn = Device[c] /\ m.sn # Nil
  BY <1>2, ConfigAssumption DEF RegistrationInv, NamedFrames, ConfigAssumption
<1>6. NamedFrames'
  BY <1>2, <1>4 DEF RegistrationInv, NamedFrames
<1>7. NamedCallback' /\ EntryBeforeAnswer'
  BY <1>3, <1>5 DEF NamedCallback, EntryBeforeAnswer
<1>8. AnsweredOnOpen' /\ ChannelAfterAnswer'
  BY <1>1, <1>3 DEF RegistrationInv, AnsweredOnOpen, ChannelAfterAnswer,
                    AboutToSubscribe
<1> QED
  BY <1>6, <1>7, <1>8 DEF RegistrationInv

\* A socket closes.
LEMMA RegistrationCloses ==
  ASSUME TypeOK, RegistrationInv, NEW c \in Ws, OnClose(c)
  PROVE  RegistrationInv'
<1>1. /\ reactor.pc = "idle" /\ UNCHANGED <<reactor, faults, acked, subscribed_channels>>
  BY DEF OnClose, Idle, handlerVars, subVars
<1>2. \A d \in Ws : /\ up'[d] = IF d = c THEN <<>> ELSE up[d]
                    /\ socket'[d] = IF d = c THEN "closed" ELSE socket[d]
  BY TypeParts DEF OnClose, SocketTypeOK
<1>3. NamedFrames'
  BY <1>2, EmptyElements DEF RegistrationInv, NamedFrames
<1>4. NamedCallback' /\ EntryBeforeAnswer' /\ AnsweredOnOpen' /\ ChannelAfterAnswer'
  BY <1>1, <1>2 DEF RegistrationInv, NamedCallback, EntryBeforeAnswer,
                    AnsweredOnOpen, ChannelAfterAnswer, AboutToSubscribe
<1> QED
  BY <1>3, <1>4 DEF RegistrationInv

\* The callbacks preserve the invariant.
LEMMA RegistrationReactor ==
  ASSUME TypeOK, RegistryInv, RegistrationInv, Reactor
  PROVE  RegistrationInv'
<1>1. ASSUME NEW c \in Ws, OnOpen(c)
      PROVE  RegistrationInv'
  <2>1. /\ socket[c] \notin {"open", "closed"}
        /\ socket' = [socket EXCEPT ![c] = "open"]
        /\ UNCHANGED <<connections, up, reactor, acked, faults, subscribed_channels>>
    BY <1>1 DEF OnOpen, handlerVars, subVars
  <2> QED
    BY <2>1, RegistrationOpens
<1>2. CASE PushResponse \/ DeleteResponses
  <2>1. /\ reactor.pc \in {"lpush", "del"}
        /\ \E label \in {"del", "register"} : reactor' = [reactor EXCEPT !.pc = label]
        /\ UNCHANGED <<connections, socket, up, acked, subscribed_channels, faults>>
    BY <1>2 DEF PushResponse, DeleteResponses, GoTo, socketVars, subVars
  <2> QED
    BY <2>1, RegistrationMoves
<1>3. CASE PublishLog \/ RedisCommandRaises
  <2>1. /\ reactor.pc # "start" /\ reactor' = Idle
        /\ UNCHANGED <<connections, socket, up, acked, subscribed_channels>>
        /\ UNCHANGED faults \/ faults' = faults + 1
    BY <1>3 DEF PublishLog, RedisCommandRaises, configVars, socketVars, subVars,
                Fault
  <2>2. UNCHANGED faults \/ faults' # 0
    BY <2>1, TypeParts DEF RegistryTypeOK
  <2> QED
    BY <2>1, <2>2, RegistrationIdle
<1> QED
  BY <1>1, <1>2, <1>3, RegistrationReads, RegistrationEnters, RegistrationAnswers,
     RegistrationSubscribes, RegistrationCloses DEF Reactor

\* Every step preserves the invariant.
LEMMA RegistrationNext ==
  ASSUME TypeOK, RegistryInv, RegistrationInv, [Next]_vars
  PROVE  RegistrationInv'
<1>0. faults \in Nat
  BY TypeParts DEF RegistryTypeOK
<1>1. CASE UNCHANGED vars
  BY <1>1, RegistrationStutter DEF vars, configVars, socketVars, handlerVars,
                                   subVars
<1>2. ASSUME NEW c \in Ws, NEW s \in SN \cup {Nil}, Subscribers(c, s)
      PROVE  RegistrationInv'
  <2>1. /\ UNCHANGED <<connections, socket, up, reactor, acked>>
        /\ faults' \in {faults, faults + 1}
    BY <1>2, SubscribersFrame
  <2>2. faults' = faults => UNCHANGED subscribed_channels
    BY <1>0, <1>2 DEF Subscribers, SubscriberForwards, SubscriberDiscards,
         SubscriberReconnects, SubscriberEnds, Subscriptions!Forward,
         Subscriptions!Discard, Fault
  <2> QED
    BY <1>0, <2>1, <2>2, RegistrationStutter
<1>3. CASE Publisher
  BY <1>3, PublisherFrame, RegistrationStutter DEF configVars, socketVars
<1>4. CASE Pool
  <2>1. /\ UNCHANGED <<connections, up, reactor, acked, subscribed_channels>>
        /\ faults' \in {faults, faults + 1}
    BY <1>4, PoolFrame DEF handlerVars, subVars
  <2>2. \/ UNCHANGED socket
        \/ \E c \in Ws : GetChat(c)
    BY <1>4 DEF Pool, PostChat, Lookup, SendCommand, WsSend, Blpop, Response,
                Timeout, BlpopRaises, configVars, socketVars
  <2>3. CASE UNCHANGED socket
    BY <1>0, <2>1, <2>3, RegistrationStutter
  <2>4. ASSUME NEW c \in Ws, GetChat(c)
        PROVE  RegistrationInv'
    <3>1. /\ socket[c] \notin {"open", "closed"} /\ UNCHANGED faults
          /\ socket' = [socket EXCEPT ![c] = "accepted"]
      BY <2>4 DEF GetChat
    <3> QED
      BY <2>1, <3>1, RegistrationOpens
  <2> QED
    BY <2>2, <2>3, <2>4
<1>5. CASE Crash
  <2>1. /\ UNCHANGED acked /\ reactor'.pc = "idle"
        /\ \A c \in Ws : up'[c] = <<>> /\ socket'[c] # "open"
        /\ \A c \in Ws : socket[c] = "closed" => socket'[c] = "closed"
        /\ \A c \in Ws : socket[c] = "open" => socket'[c] = "closed"
    BY <1>5 DEF Crash, Idle
  <2> QED
    BY <2>1, EmptyElements DEF RegistrationInv, NamedFrames, NamedCallback,
       AnsweredOnOpen, EntryBeforeAnswer, ChannelAfterAnswer
<1> QED
  BY <1>1, <1>2, <1>3, <1>4, <1>5, RegistrationReaders, RegistrationReactor
  DEF Next

\* The invariant holds in every reachable state.
LEMMA RegistrationAlways == Spec => []RegistrationInv
BY RegistrationInit, RegistrationNext, RegistryAlways, TypeCorrect, PTL DEF Spec

\* As long as Redis raises no error, a reader whose registration has been dealt
\* with has its channel until its socket closes, whatever the other readers and
\* the requests do and however often the process was restarted before.
THEOREM RegisteredAreSubscribed == Spec => []RegisteredReaderSubscribed
<1>1. RegistrationInv => RegisteredReaderSubscribed
  BY DEF RegistrationInv, ChannelAfterAnswer, AboutToSubscribe,
         RegisteredReaderSubscribed
<1> QED
  BY <1>1, RegistrationAlways, PTL

-----------------------------------------------------------------------------
(* The entry of a registered reader. *)

InUse == {"connecting", "accepted", "open"}

\* A reader that waits for its old socket to close has one in use at a time.
SingleSocket ==
  \A c, d \in Ws : Device[c] = Device[d] /\ socket[c] \in InUse /\ socket[d] \in InUse
    => c = d

ReachableInv == SingleSocket /\ AckedReaderReachable

\* What does not touch the sockets, the entries or the answers.
LEMMA ReachableStutter ==
  ASSUME ReachableInv, UNCHANGED <<connections, socket, acked>>
  PROVE  ReachableInv'
BY DEF ReachableInv, SingleSocket, AckedReaderReachable

\* A socket in use moves on.
LEMMA ReachableMovesOn ==
  ASSUME RegistrationInv, ReachableInv, NEW c \in Ws,
         socket[c] \in {"connecting", "accepted"},
         \A d \in Ws \ {c} : socket'[d] = socket[d],
         UNCHANGED <<connections, acked>>
  PROVE  ReachableInv'
<1>1. acked[c] = {}
  BY DEF RegistrationInv, AnsweredOnOpen
<1>2. SingleSocket'
  BY DEF ReachableInv, SingleSocket, InUse
<1>3. AckedReaderReachable'
  BY <1>1 DEF ReachableInv, AckedReaderReachable
<1> QED
  BY <1>2, <1>3 DEF ReachableInv

\* Every step preserves the invariant.
LEMMA ReachableNext ==
  ASSUME ~Overlap, TypeOK, RegistryInv, RegistrationInv, ReachableInv, [Next]_vars
  PROVE  ReachableInv'
<1>1. CASE UNCHANGED vars
  BY <1>1, ReachableStutter DEF vars, configVars, socketVars, handlerVars
<1>2. ASSUME NEW c \in Ws, Readers(c)
      PROVE  ReachableInv'
  <2>1. UNCHANGED <<connections, acked>>
    BY <1>2, ReadersFrame DEF handlerVars
  <2>2. CASE Dial(c)
    <3>1. /\ socket[c] = "none"
          /\ \A d \in Ws : socket'[d] = IF d = c THEN "connecting" ELSE socket[d]
          /\ \A d \in Ws : Device[d] = Device[c] => socket[d] \notin InUse
      BY <2>2, TypeParts DEF Dial, SocketTypeOK, InUse
    <3>2. SingleSocket'
      BY <3>1 DEF ReachableInv, SingleSocket
    <3>3. AckedReaderReachable'
      BY <2>1, <3>1 DEF ReachableInv, AckedReaderReachable
    <3> QED
      BY <3>2, <3>3 DEF ReachableInv
  <2>3. CASE ~Dial(c)
    <3>1. UNCHANGED socket
      BY <1>2, <2>3 DEF Readers, Reply, SendFrame
    <3> QED
      BY <2>1, <3>1, ReachableStutter
  <2> QED
    BY <2>2, <2>3
<1>3. ASSUME NEW c \in Ws, NEW s \in SN \cup {Nil}, Subscribers(c, s)
      PROVE  ReachableInv'
  BY <1>3, SubscribersFrame, ReachableStutter
<1>4. CASE Publisher
  BY <1>4, PublisherFrame, ReachableStutter DEF configVars, socketVars
<1>5. CASE Pool
  <2>1. UNCHANGED <<connections, acked>>
    BY <1>5, PoolFrame DEF handlerVars
  <2>2. \/ UNCHANGED socket
        \/ \E c \in Ws : GetChat(c)
    BY <1>5 DEF Pool, PostChat, Lookup, SendCommand, WsSend, Blpop, Response,
                Timeout, BlpopRaises, configVars, socketVars
  <2>3. ASSUME NEW c \in Ws, GetChat(c)
        PROVE  ReachableInv'
    <3>1. /\ socket[c] \in {"connecting", "accepted"}
          /\ \A d \in Ws \ {c} : socket'[d] = socket[d]
      BY <2>3, TypeParts DEF GetChat, SocketTypeOK
    <3> QED
      BY <2>1, <3>1, ReachableMovesOn
  <2> QED
    BY <2>1, <2>2, <2>3, ReachableStutter
<1>6. CASE Crash
  <2>1. \A c \in Ws : socket'[c] \notin InUse
    BY <1>6 DEF Crash, InUse
  <2> QED
    BY <2>1 DEF ReachableInv, SingleSocket, AckedReaderReachable, InUse
<1>7. ASSUME NEW c \in Ws, OnOpen(c)
      PROVE  ReachableInv'
  <2>1. /\ socket[c] \in {"connecting", "accepted"}
        /\ \A d \in Ws \ {c} : socket'[d] = socket[d]
        /\ UNCHANGED <<connections, acked>>
    BY <1>7, TypeParts DEF OnOpen, handlerVars, SocketTypeOK
  <2> QED
    BY <2>1, ReachableMovesOn
<1>8. CASE Register
  <2>1. /\ reactor.pc # "idle" /\ reactor.ws \in Ws /\ reactor.msg.sn \in SN
        /\ UNCHANGED <<socket, acked>>
        /\ \A s \in SN : connections'[s] =
             IF s = reactor.msg.sn THEN reactor.ws ELSE connections[s]
    BY <1>8, BusyReactor, TypeParts DEF Register, socketVars, RegistryTypeOK
  <2>2. socket[reactor.ws] = "open" /\ reactor.msg.sn = Device[reactor.ws]
    BY <2>1, ConfigAssumption DEF RegistryInv, CallbackOnOpenSocket,
                                  ConfigAssumption
  <2>3. \A c \in Ws : socket[c] = "open" /\ Device[c] = reactor.msg.sn
          => c = reactor.ws
    BY <2>1, <2>2 DEF ReachableInv, SingleSocket, InUse
  <2>4. SingleSocket'
    BY <2>1 DEF ReachableInv, SingleSocket
  <2>5. AckedReaderReachable'
    BY <2>1, <2>3, ConfigAssumption DEF ReachableInv, AckedReaderReachable,
                                        ConfigAssumption
  <2> QED
    BY <2>4, <2>5 DEF ReachableInv
<1>9. CASE HandleReg
  <2>1. /\ reactor.pc = "handle_reg" /\ reactor.ws \in Ws
        /\ UNCHANGED <<connections, socket>>
        /\ \A c \in Ws : acked'[c] =
             IF c = reactor.ws
             THEN acked[c] \cup ({reactor.msg.kind} \cap {"reg", "sendlog"})
             ELSE acked[c]
    BY <1>9, BusyReactor, TypeParts DEF HandleReg, configVars, socketVars,
                                        HandlerTypeOK
  <2>2. SingleSocket'
    BY <2>1 DEF ReachableInv, SingleSocket
  <2>3. AckedReaderReachable'
    BY <2>1 DEF ReachableInv, AckedReaderReachable, RegistrationInv,
                EntryBeforeAnswer
  <2> QED
    BY <2>2, <2>3 DEF ReachableInv
<1>10. ASSUME NEW c \in Ws, OnClose(c)
       PROVE  ReachableInv'
  <2>1. /\ UNCHANGED acked
        /\ \A d \in Ws : socket'[d] = IF d = c THEN "closed" ELSE socket[d]
        /\ \A s \in SN : connections[s] # c => connections'[s] = connections[s]
    BY <1>10, TypeParts DEF OnClose, handlerVars, SocketTypeOK, RegistryTypeOK,
                            KeysOf
  <2>2. SingleSocket'
    BY <2>1 DEF ReachableInv, SingleSocket, InUse
  <2>3. AckedReaderReachable'
    BY <2>1, ConfigAssumption DEF ReachableInv, AckedReaderReachable,
                                  ConfigAssumption
  <2> QED
    BY <2>2, <2>3 DEF ReachableInv
<1>11. CASE Reactor
  <2>1. \/ UNCHANGED <<connections, socket, acked>>
        \/ Register \/ HandleReg
        \/ \E c \in Ws : OnOpen(c) \/ OnClose(c)
    BY <1>11 DEF Reactor, OnMessage, PushResponse, DeleteResponses, PublishLog,
                 StartSubscriber, RedisCommandRaises, configVars, socketVars
  <2> QED
    BY <1>7, <1>8, <1>9, <1>10, <2>1, ReachableStutter
<1> QED
  BY <1>1, <1>2, <1>3, <1>4, <1>5, <1>6, <1>11 DEF Next

\* A reader that was told `result: true' and is still there is found by every
\* POST, on that very socket, if readers wait for an old socket to close before
\* they dial again; overlapping_sockets shows that without this they are not.
THEOREM AckedAreReachable ==
  ASSUME ~Overlap
  PROVE  Spec => []AckedReaderReachable
<1>1. Init => ReachableInv
  <2> SUFFICES ASSUME Init PROVE ReachableInv
    OBVIOUS
  <2>1. \A c \in Ws : socket[c] = "none"
    BY DEF Init, ConfigInit
  <2> QED
    BY <2>1 DEF ReachableInv, SingleSocket, AckedReaderReachable, InUse
<1>2. TypeOK /\ RegistryInv /\ RegistrationInv /\ ReachableInv /\ [Next]_vars
        => ReachableInv'
  BY ReachableNext
<1>3. ReachableInv => AckedReaderReachable
  BY DEF ReachableInv
<1> QED
  BY <1>1, <1>2, <1>3, RegistrationAlways, RegistryAlways, TypeCorrect, PTL DEF Spec

-----------------------------------------------------------------------------
(* The commands that take no body. *)

\* A request that has not arrived has not been answered; one that has is a POST.
Arrived ==
  \A r \in Requests : IF http[r] = "new" THEN status[r] = 0 ELSE post[r] \in Posts

\* A POST of such a command has one item without arguments, and only a failure of
\* Redis ends it in an exception.
BodylessItem ==
  \A r \in Requests : http[r] # "new" /\ post[r].command \in commands_without_body
    => args[r] = <<0>> /\ (status[r] = 500 => faults # 0)

BodylessInv == Arrived /\ BodylessItem

\* server.rb's list and the lambdas of Sender agree.
LEMMA BodylessArity ==
  ASSUME NEW command \in commands_without_body
  PROVE  ~BadArity(command, 0)
BY DEF commands_without_body, BadArity, Unknown, COMMANDS, Cmd

\* A step in which no request arrives and none ends in an exception, unless a
\* Redis command raised.
Quietly ==
  /\ UNCHANGED <<post, args>>
  /\ faults # 0 => faults' # 0
  /\ \A r \in Requests :
       /\ http'[r] = "new" <=> http[r] = "new"
       /\ status'[r] # status[r] => http[r] # "new" /\ (status'[r] = 200 \/ faults' # 0)

\* Such a step preserves the invariant.
LEMMA BodylessStep ==
  ASSUME BodylessInv, Quietly
  PROVE  BodylessInv'
BY DEF BodylessInv, Arrived, BodylessItem, Quietly

\* The threads of the pool preserve the invariant.
LEMMA BodylessPool ==
  ASSUME TypeOK, BodylessInv, Pool
  PROVE  BodylessInv'
<1>0. /\ http \in [Requests -> {"new", "lookup", "send", "blpop", "blocked", "done",
                                "lost"}]
      /\ post \in [Requests -> Posts \cup {Nil}] /\ args \in [Requests -> Seq(Nat)]
      /\ status \in [Requests -> {0, 200, 400, 500}] /\ faults \in Nat
  BY TypeParts, ServerParts DEF RegistryTypeOK
<1>1. ASSUME NEW c \in Ws, GetChat(c)
      PROVE  BodylessInv'
  BY <1>1, BodylessStep DEF GetChat, serverVars, Quietly
<1>2. ASSUME NEW r \in Requests, NEW p \in Posts, PostChat(r, p)
      PROVE  BodylessInv'
  <2>1. /\ UNCHANGED faults /\ http[r] = "new" /\ http'[r] # "new"
        /\ post'[r] = p
        /\ \A q \in Requests \ {r} : /\ http'[q] = http[q] /\ post'[q] = post[q]
                                     /\ args'[q] = args[q] /\ status'[q] = status[q]
    BY <1>0, <1>2 DEF PostChat, configVars
  <2>2. Arrived'
    BY <2>1 DEF BodylessInv, Arrived
  <2>3. ASSUME p.command \in commands_without_body
        PROVE  args'[r] = <<0>> /\ status'[r] = 0
    <3>1. EarlyStatus(p) = 0 /\ Items(p) = <<0>>
      BY <2>3 DEF EarlyStatus, Items
    <3>2. args' = [args EXCEPT ![r] = Items(p)] /\ UNCHANGED status
      BY <1>2, <3>1 DEF PostChat
    <3> QED
      BY <1>0, <2>1, <3>1, <3>2 DEF BodylessInv, Arrived
  <2>4. BodylessItem'
    BY <2>1, <2>3 DEF BodylessInv, BodylessItem
  <2> QED
    BY <2>2, <2>4 DEF BodylessInv
<1>3. ASSUME NEW r \in Requests, NEW result, NextItem(r, result), http[r] # "new",
             UNCHANGED faults
      PROVE  BodylessInv'
  <2>1. Quietly
    BY <1>0, <1>3 DEF NextItem, Quietly
  <2> QED
    BY <2>1, BodylessStep
<1>4. ASSUME NEW r \in Requests, Lookup(r)
      PROVE  BodylessInv'
  <2>1. CASE connections[post[r].channel] = Nil
    BY <1>3, <1>4, <2>1 DEF Lookup, configVars
  <2>2. CASE connections[post[r].channel] # Nil
    <3>1. /\ UNCHANGED <<post, args, status, faults>> /\ http[r] = "lookup"
          /\ http' = [http EXCEPT ![r] = "send"]
      BY <1>4, <2>2 DEF Lookup, configVars
    <3> QED
      BY <1>0, <3>1, BodylessStep DEF Quietly
  <2> QED
    BY <2>1, <2>2
<1>5. ASSUME NEW r \in Requests, SendCommand(r)
      PROVE  BodylessInv'
  <2>0. http[r] = "send" /\ UNCHANGED faults
    BY <1>5 DEF SendCommand
  <2>1. CASE ~BadArity(post[r].command, args[r][item[r]])
    <3>1. /\ UNCHANGED <<post, args, status>>
          /\ http' = [http EXCEPT ![r] = "blpop"]
      BY <1>5, <2>1 DEF SendCommand
    <3> QED
      BY <1>0, <2>0, <3>1, BodylessStep DEF Quietly
  <2>2. CASE BadArity(post[r].command, args[r][item[r]])
    <3>1. /\ UNCHANGED <<post, args>>
          /\ http' = [http EXCEPT ![r] = "done"]
          /\ status' = [status EXCEPT ![r] = 500]
      BY <1>5, <2>2 DEF SendCommand, Raises
    <3>2. item[r] \in 1..Len(args[r])
      BY <2>0, TypeParts, ServerParts, ZenonT(30) DEF ProgressOK
    <3>3. post[r].command \notin commands_without_body
      <4>1. SUFFICES ASSUME post[r].command \in commands_without_body
                     PROVE  FALSE
        OBVIOUS
      <4>2. args[r] = <<0>>
        BY <2>0, <4>1 DEF BodylessInv, BodylessItem
      <4>3. args[r][item[r]] = 0
        BY <3>2, <4>2
      <4> QED
        BY <2>2, <4>1, <4>3, BodylessArity
    <3>4. Arrived'
      BY <1>0, <2>0, <3>1 DEF BodylessInv, Arrived
    <3>5. BodylessItem'
      BY <1>0, <2>0, <3>1, <3>3 DEF BodylessInv, BodylessItem
    <3> QED
      BY <3>4, <3>5 DEF BodylessInv
  <2> QED
    BY <2>1, <2>2
<1>6. ASSUME NEW r \in Requests, Blpop(r)
      PROVE  BodylessInv'
  <2>1. /\ UNCHANGED <<post, args, status, faults>> /\ http[r] = "blpop"
        /\ http' = [http EXCEPT ![r] = "blocked"]
    BY <1>6 DEF Blpop
  <2> QED
    BY <1>0, <2>1, BodylessStep DEF Quietly
<1>7. ASSUME NEW r \in Requests, Response(r)
      PROVE  BodylessInv'
  BY <1>3, <1>7 DEF Response
<1>8. ASSUME NEW r \in Requests, Timeout(r)
      PROVE  BodylessInv'
  BY <1>3, <1>8 DEF Timeout
<1>9. ASSUME NEW r \in Requests, BlpopRaises(r)
      PROVE  BodylessInv'
  <2>1. /\ UNCHANGED <<post, args>> /\ http[r] # "new" /\ faults' = faults + 1
        /\ http' = [http EXCEPT ![r] = "done"]
        /\ status' = [status EXCEPT ![r] = 500]
    BY <1>9 DEF BlpopRaises, Raises, Fault
  <2>2. faults' # 0
    BY <1>0, <2>1
  <2> QED
    BY <1>0, <2>1, <2>2, BodylessStep DEF Quietly
<1> QED
  BY <1>1, <1>2, <1>4, <1>5, <1>6, <1>7, <1>8, <1>9 DEF Pool

\* Every step preserves the invariant.
LEMMA BodylessNext ==
  ASSUME TypeOK, BodylessInv, [Next]_vars
  PROVE  BodylessInv'
<1>0. faults \in Nat /\ (faults' \in {faults, faults + 1} /\ faults # 0 => faults' # 0)
  BY TypeParts DEF RegistryTypeOK
<1>1. ASSUME UNCHANGED serverVars, faults' \in {faults, faults + 1}
      PROVE  BodylessInv'
  BY <1>0, <1>1, BodylessStep DEF serverVars, Quietly
<1>2. CASE UNCHANGED vars
  BY <1>1, <1>2 DEF vars, configVars
<1>3. ASSUME NEW c \in Ws, Readers(c)
      PROVE  BodylessInv'
  BY <1>1, <1>3, ReadersFrame
<1>4. ASSUME NEW c \in Ws, NEW s \in SN \cup {Nil}, Subscribers(c, s)
      PROVE  BodylessInv'
  BY <1>1, <1>4, SubscribersFrame
<1>5. CASE Publisher
  BY <1>1, <1>5, PublisherFrame DEF configVars
<1>6. CASE Reactor
  <2>1. faults' \in {faults, faults + 1}
    BY <1>6 DEF Reactor, OnOpen, OnMessage, PushResponse, DeleteResponses,
       Register, HandleReg, PublishLog, StartSubscriber, RedisCommandRaises,
       OnClose, configVars, Fault
  <2> QED
    BY <1>1, <1>6, <2>1, ReactorFrame
<1>7. CASE Crash
  <2>1. /\ UNCHANGED <<post, args, status, faults>>
        /\ \A r \in Requests : http'[r] = "new" <=> http[r] = "new"
    BY <1>7 DEF Crash, Active
  <2> QED
    BY <2>1, BodylessStep DEF Quietly
<1> QED
  BY <1>2, <1>3, <1>4, <1>5, <1>6, <1>7, BodylessPool DEF Next

\* A POST of a command that takes no body ends in an exception only when a Redis
\* command raised, for every body a client may send along and wherever the reader
\* or the process went meanwhile.
THEOREM BodylessIsSafe == Spec => []BodylessNeverRaises
<1>1. Init => BodylessInv
  <2> SUFFICES ASSUME Init PROVE BodylessInv
    OBVIOUS
  <2>1. \A r \in Requests : http[r] = "new" /\ status[r] = 0
    BY DEF Init, ServerInit
  <2> QED
    BY <2>1 DEF BodylessInv, Arrived, BodylessItem
<1>2. BodylessInv => BodylessNeverRaises
  BY DEF BodylessInv, Arrived, BodylessItem, BodylessNeverRaises
<1> QED
  BY <1>1, <1>2, BodylessNext, TypeCorrect, PTL DEF Spec

=============================================================================
