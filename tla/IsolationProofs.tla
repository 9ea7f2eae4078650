--------------------------- MODULE IsolationProofs --------------------------
(***************************************************************************)
(* CONNECTIONS leads to live sockets of the right reader, and commands and *)
(* subscriptions stay with the reader they are for: proofs for any number  *)
(* of readers, sockets and requests.                                       *)
(***************************************************************************)
EXTENDS GatewayProofs

-----------------------------------------------------------------------------
(* The elements of a sequence that grew or lost its head. *)

\* The elements after an append are the old ones and the new one.
LEMMA AppendElements ==
  ASSUME NEW S, NEW seq \in Seq(S), NEW e
  PROVE  \A i \in 1..Len(Append(seq, e)) :
           \/ Append(seq, e)[i] = e
           \/ \E j \in 1..Len(seq) : Append(seq, e)[i] = seq[j]
OBVIOUS

\* The head and the elements of the tail are elements.
LEMMA TailElements ==
  ASSUME NEW S, NEW seq \in Seq(S), seq # <<>>
  PROVE  /\ \E j \in 1..Len(seq) : Head(seq) = seq[j]
         /\ \A i \in 1..Len(Tail(seq)) :
              \E j \in 1..Len(seq) : Tail(seq)[i] = seq[j]
OBVIOUS

-----------------------------------------------------------------------------
(* The inductive invariant behind RegistryLive. *)

\* A frame on a socket comes from the reader that opened the socket.
FramesOfReader ==
  \A c \in Ws : \A i \in 1..Len(up[c]) : up[c][i].sn \in {Device[c], Nil}

\* The socket of a callback in progress is open: :close comes after it.
CallbackOnOpenSocket ==
  reactor.pc # "idle" => /\ socket[reactor.ws] = "open"
                         /\ reactor.msg.sn \in {Device[reactor.ws], Nil}

RegistryInv == RegistryLive /\ FramesOfReader /\ CallbackOnOpenSocket

\* What does not touch the entries, the sockets, the frames or the reactor.
LEMMA RegistryStutter ==
  ASSUME RegistryInv, UNCHANGED <<connections, socket, up, reactor>>
  PROVE  RegistryInv'
BY DEF RegistryInv, RegistryLive, FramesOfReader, CallbackOnOpenSocket

\* The invariant holds at the start.
LEMMA RegistryInit == Init => RegistryInv
<1> SUFFICES ASSUME Init PROVE RegistryInv
  OBVIOUS
<1>1. RegistryLive
  BY DEF Init, ConfigInit, RegistryLive
<1>2. FramesOfReader
  BY DEF Init, ConfigInit, FramesOfReader
<1>3. CallbackOnOpenSocket
  BY DEF Init, HandlerInit, Idle, CallbackOnOpenSocket
<1> QED
  BY <1>1, <1>2, <1>3 DEF RegistryInv

\* A socket that changes state, other than by closing, was not open before.
LEMMA SocketOpens ==
  ASSUME TypeOK, RegistryInv, NEW c \in Ws, socket[c] # "open",
         NEW state, socket' = [socket EXCEPT ![c] = state],
         UNCHANGED <<connections, up, reactor>>
  PROVE  RegistryInv'
<1> USE TypeParts
<1>1. RegistryLive'
  BY DEF RegistryInv, RegistryLive, SocketTypeOK, RegistryTypeOK
<1>2. FramesOfReader'
  BY DEF RegistryInv, FramesOfReader
<1>3. CallbackOnOpenSocket'
  BY BusyReactor DEF RegistryInv, CallbackOnOpenSocket, SocketTypeOK
<1> QED
  BY <1>1, <1>2, <1>3 DEF RegistryInv

\* A reader's frame carries the reader's serial number, or none.
LEMMA FrameArrives ==
  ASSUME TypeOK, RegistryInv, NEW c \in Ws, NEW m \in Message,
         m.sn \in {Device[c], Nil},
         up' = [up EXCEPT ![c] = Append(up[c], m)],
         UNCHANGED <<connections, socket, reactor>>
  PROVE  RegistryInv'
<1>1. ASSUME NEW i \in 1..Len(Append(up[c], m))
      PROVE  Append(up[c], m)[i].sn \in {Device[c], Nil}
  <2>1. up[c] \in Seq(Message)
    BY TypeParts DEF SocketTypeOK
  <2>2. \/ Append(up[c], m)[i] = m
        \/ \E j \in 1..Len(up[c]) : Append(up[c], m)[i] = up[c][j]
    BY <2>1, AppendElements
  <2>3. \A j \in 1..Len(up[c]) : up[c][j].sn \in {Device[c], Nil}
    BY DEF RegistryInv, FramesOfReader
  <2> QED
    BY <2>2, <2>3
<1>2. FramesOfReader'
  BY <1>1, TypeParts DEF RegistryInv, FramesOfReader, SocketTypeOK
<1>3. RegistryLive' /\ CallbackOnOpenSocket'
  BY DEF RegistryInv, RegistryLive, CallbackOnOpenSocket
<1> QED
  BY <1>2, <1>3 DEF RegistryInv

\* The readers preserve the invariant.
LEMMA RegistryReaders ==
  ASSUME TypeOK, RegistryInv, NEW c \in Ws, Readers(c)
  PROVE  RegistryInv'
<1>1. CASE Dial(c)
  BY <1>1, SocketOpens DEF Dial, handlerVars
<1>2. CASE Reply(c)
  <2>1. PICK sn \in {Device[c], Nil} :
          up' = [up EXCEPT ![c] =
                   Append(@, [kind |-> "ret", sn |-> sn, of |-> Head(down[c])])]
    BY <1>2 DEF Reply
  <2> DEFINE m == [kind |-> "ret", sn |-> sn, of |-> Head(down[c])]
  <2>2. m.sn \in {Device[c], Nil} /\ up' = [up EXCEPT ![c] = Append(up[c], m)]
    BY <2>1
  <2>3. m \in Message
    BY <1>2, HeadTailProperties, TypeParts, ConfigAssumption
    DEF Reply, Message, SocketTypeOK, ConfigAssumption
  <2>4. UNCHANGED <<connections, socket, reactor>>
    BY <1>2 DEF Reply, handlerVars
  <2> HIDE DEF m
  <2> QED
    BY <2>2, <2>3, <2>4, FrameArrives
<1>3. ASSUME NEW kind \in {"reg", "sendlog"}, SendFrame(c, kind)
      PROVE  RegistryInv'
  <2> DEFINE m == [kind |-> kind, sn |-> Device[c], of |-> Nil]
  <2>1. m.sn \in {Device[c], Nil} /\ up' = [up EXCEPT ![c] = Append(up[c], m)]
    BY <1>3 DEF SendFrame
  <2>2. m \in Message
    BY ConfigAssumption DEF Message, Command, ConfigAssumption
  <2>3. UNCHANGED <<connections, socket, reactor>>
    BY <1>3 DEF SendFrame, handlerVars
  <2> HIDE DEF m
  <2> QED
    BY <2>1, <2>2, <2>3, FrameArrives
<1> QED
  BY <1>1, <1>2, <1>3 DEF Readers

\* The callbacks preserve the invariant.
LEMMA RegistryReactor ==
  ASSUME TypeOK, RegistryInv, Reactor
  PROVE  RegistryInv'
<1> USE TypeParts, ConfigAssumption
<1>0. Idle.pc = "idle"
  BY DEF Idle
<1>a. ASSUME UNCHANGED <<connections, socket, up>>, reactor' = Idle
      PROVE  RegistryInv'
  BY <1>0, <1>a DEF RegistryInv, RegistryLive, FramesOfReader,
                    CallbackOnOpenSocket
<1>b. ASSUME UNCHANGED <<connections, socket, up>>, reactor.pc # "idle",
             NEW label, reactor' = [reactor EXCEPT !.pc = label]
      PROVE  RegistryInv'
  <2>1. reactor'.ws = reactor.ws /\ reactor'.msg = reactor.msg
    BY <1>b, BusyReactor DEF Busy
  <2>2. CallbackOnOpenSocket'
    BY <1>b, <2>1 DEF RegistryInv, CallbackOnOpenSocket
  <2> QED
    BY <1>b, <2>2 DEF RegistryInv, RegistryLive, FramesOfReader
<1>1. ASSUME NEW c \in Ws, OnOpen(c)
      PROVE  RegistryInv'
  BY <1>1, SocketOpens DEF OnOpen, handlerVars
<1>2. ASSUME NEW c \in Ws, OnMessage(c)
      PROVE  RegistryInv'
  <2>1. up[c] \in Seq(Message) /\ up[c] # <<>>
    BY <1>2 DEF OnMessage, SocketTypeOK
  <2>2. /\ Head(up[c]).sn \in {Device[c], Nil}
        /\ \A i \in 1..Len(Tail(up[c])) : Tail(up[c])[i].sn \in {Device[c], Nil}
    BY <2>1, TailElements DEF RegistryInv, FramesOfReader
  <2>3. FramesOfReader'
    BY <1>2, <2>2 DEF OnMessage, RegistryInv, FramesOfReader, SocketTypeOK
  <2>4. CallbackOnOpenSocket'
    BY <1>2, <2>2 DEF OnMessage, CallbackOnOpenSocket
  <2>5. RegistryLive'
    BY <1>2 DEF OnMessage, RegistryInv, RegistryLive
  <2> QED
    BY <2>3, <2>4, <2>5 DEF RegistryInv
<1>3. CASE PushResponse
  BY <1>3, <1>b DEF PushResponse, GoTo, socketVars
<1>4. CASE DeleteResponses
  BY <1>4, <1>b DEF DeleteResponses, GoTo, socketVars
<1>5. CASE Register
  <2>1. /\ reactor.pc # "idle" /\ reactor.ws \in Ws /\ reactor.msg.sn \in SN
        /\ reactor.ws # Nil
        /\ reactor'.ws = reactor.ws /\ reactor'.msg = reactor.msg
    BY <1>5, BusyReactor DEF Register, GoTo, Busy, ConfigAssumption
  <2>2. /\ socket[reactor.ws] = "open"
        /\ reactor.msg.sn = Device[reactor.ws]
    BY <2>1 DEF RegistryInv, CallbackOnOpenSocket, ConfigAssumption
  <2>3. RegistryLive'
    BY <1>5, <2>1, <2>2 DEF Register, RegistryInv, RegistryLive, RegistryTypeOK,
                            socketVars
  <2>4. FramesOfReader' /\ CallbackOnOpenSocket'
    BY <1>5, <2>1, <2>2 DEF Register, RegistryInv, FramesOfReader,
                            CallbackOnOpenSocket, socketVars
  <2> QED
    BY <2>3, <2>4 DEF RegistryInv
<1>6. CASE HandleReg
  <2>1. /\ reactor.pc # "idle"
        /\ \E label : reactor' = [reactor EXCEPT !.pc = label]
        /\ UNCHANGED <<connections, socket, up>>
    BY <1>6 DEF HandleReg, GoTo, configVars, socketVars
  <2> QED
    BY <2>1, <1>b
<1>7. CASE PublishLog
  BY <1>7, <1>a DEF PublishLog, configVars, socketVars
<1>8. CASE StartSubscriber
  BY <1>8, <1>a DEF StartSubscriber, configVars, socketVars
<1>9. CASE RedisCommandRaises
  BY <1>9, <1>a DEF RedisCommandRaises, socketVars
<1>10. ASSUME NEW c \in Ws, OnClose(c)
       PROVE  RegistryInv'
  <2>1. \A s \in SN : connections[s] = c => s = Device[c]
    BY DEF RegistryInv, RegistryLive, ConfigAssumption
  <2>2. \A s \in SN : connections'[s] # c
    BY <1>10, <2>1 DEF OnClose, KeysOf, RegistryTypeOK, ConfigAssumption
  <2>3. \A s \in SN : connections'[s] \in {connections[s], Nil}
    BY <1>10 DEF OnClose, RegistryTypeOK
  <2>4. RegistryLive'
    BY <1>10, <2>2, <2>3 DEF OnClose, RegistryInv, RegistryLive, SocketTypeOK,
                             RegistryTypeOK
  <2>5. FramesOfReader'
    BY <1>10 DEF OnClose, RegistryInv, FramesOfReader, SocketTypeOK
  <2>6. CallbackOnOpenSocket'
    BY <1>10, <1>0 DEF OnClose, handlerVars, CallbackOnOpenSocket
  <2> QED
    BY <2>4, <2>5, <2>6 DEF RegistryInv
<1> QED
  BY <1>1, <1>2, <1>3, <1>4, <1>5, <1>6, <1>7, <1>8, <1>9, <1>10 DEF Reactor

\* The threads of the pool and the subscription threads change no entry, and no
\* socket except for one they accept.
LEMMA RegistryThreads ==
  ASSUME TypeOK, RegistryInv,
         \/ Pool
         \/ \E c \in Ws, s \in SN \cup {Nil} : Subscribers(c, s)
         \/ Publisher
  PROVE  RegistryInv'
<1>1. ASSUME NEW c \in Ws, GetChat(c), UNCHANGED notPool
      PROVE  RegistryInv'
  BY <1>1, SocketOpens DEF GetChat, notPool, handlerVars
<1>2. CASE /\ \/ \E r \in Requests :
                   \/ \E p \in Posts : PostChat(r, p)
                   \/ Lookup(r) \/ SendCommand(r) \/ Blpop(r)
                   \/ Response(r) \/ Timeout(r) \/ BlpopRaises(r)
           /\ UNCHANGED notPool
  <2>1. UNCHANGED <<connections, socket, up, reactor>>
    BY <1>2 DEF PostChat, Lookup, SendCommand, WsSend, Blpop, Response, Timeout,
                BlpopRaises, notPool, configVars, socketVars, handlerVars
  <2> QED
    BY <2>1, RegistryStutter
<1>3. ASSUME NEW c \in Ws, NEW s \in SN \cup {Nil}, Subscribers(c, s)
      PROVE  RegistryInv'
  <2>1. UNCHANGED <<connections, socket, up, reactor>>
    BY <1>3 DEF Subscribers, SubscriberForwards, SubscriberDiscards,
                SubscriberReconnects, SubscriberEnds, WsSend, configVars,
                socketVars
  <2> QED
    BY <2>1, RegistryStutter
<1>4. CASE Publisher
  <2>1. UNCHANGED <<connections, socket, up, reactor>>
    BY <1>4 DEF Publisher, PublishCommand, configVars, socketVars
  <2> QED
    BY <2>1, RegistryStutter
<1> QED
  BY <1>1, <1>2, <1>3, <1>4 DEF Pool

\* A restarted process knows no socket.
LEMMA RegistryCrash ==
  ASSUME Crash
  PROVE  RegistryInv'
<1>1. RegistryLive'
  BY DEF Crash, RegistryLive
<1>2. FramesOfReader'
  BY DEF Crash, FramesOfReader
<1>3. CallbackOnOpenSocket'
  BY DEF Crash, Idle, CallbackOnOpenSocket
<1> QED
  BY <1>1, <1>2, <1>3 DEF RegistryInv

\* Every step preserves the invariant.
LEMMA RegistryNext ==
  ASSUME TypeOK, RegistryInv, [Next]_vars
  PROVE  RegistryInv'
<1>1. CASE UNCHANGED vars
  BY <1>1, RegistryStutter DEF vars, configVars, socketVars, handlerVars
<1>2. CASE Next
  BY <1>2, RegistryReaders, RegistryReactor, RegistryThreads, RegistryCrash
  DEF Next
<1> QED
  BY <1>1, <1>2

\* The invariant holds in every reachable state.
LEMMA RegistryAlways == Spec => []RegistryInv
BY RegistryInit, RegistryNext, TypeCorrect, PTL DEF Spec

\* CONNECTIONS never leads a POST to a closed socket or to another reader.
THEOREM RegistryIsLive == Spec => []RegistryLive
<1>1. RegistryInv => RegistryLive
  BY DEF RegistryInv
<1> QED
  BY <1>1, RegistryAlways, PTL

-----------------------------------------------------------------------------
\* The late :close of an older socket takes no other socket's entry away.
THEOREM EntryOutlives == Spec => EntryOutlivesOtherSockets
<1> DEFINE Step == \A s \in SN : connections[s] # Nil /\ connections'[s] = Nil
                                  => socket'[connections[s]] = "closed"
<1>1. ASSUME TypeOK, RegistryInv, [Next]_vars
      PROVE  [Step]_vars
  <2> USE <1>1, TypeParts, ConfigAssumption
  <2>1. CASE UNCHANGED connections
    BY <2>1
  <2>2. ASSUME NEW c \in Ws, OnClose(c)
        PROVE  Step
    <3>1. socket'[c] = "closed"
      BY <2>2 DEF OnClose, SocketTypeOK
    <3>2. ASSUME NEW s \in SN, connections[s] # Nil, connections'[s] = Nil
          PROVE  connections[s] = c
      BY <2>2, <3>2 DEF OnClose, KeysOf, RegistryTypeOK
    <3> QED
      BY <3>1, <3>2
  <2>3. CASE Register
    <3>1. reactor.ws # Nil
      <4>1. reactor.pc # "idle"
        BY <2>3 DEF Register
      <4> QED
        BY <4>1, BusyReactor DEF ConfigAssumption
    <3>2. \A s \in SN : connections'[s] \in {connections[s], reactor.ws}
      BY <2>3 DEF Register, RegistryTypeOK
    <3> QED
      BY <3>1, <3>2
  <2>4. ASSUME NEW c \in Ws, Readers(c)
        PROVE  UNCHANGED connections
    BY <2>4 DEF Readers, Dial, Reply, SendFrame
  <2>5. CASE Reactor
    <3>1. \/ UNCHANGED connections \/ Register \/ \E c \in Ws : OnClose(c)
      BY <2>5 DEF Reactor, OnOpen, OnMessage, PushResponse, DeleteResponses,
                  HandleReg, PublishLog, StartSubscriber, RedisCommandRaises,
                  configVars
    <3> QED
      BY <3>1, <2>1, <2>2, <2>3
  <2>6. ASSUME NEW c \in Ws, NEW s \in SN \cup {Nil}, Subscribers(c, s)
        PROVE  UNCHANGED connections
    BY <2>6 DEF Subscribers, SubscriberForwards, SubscriberDiscards,
                SubscriberReconnects, SubscriberEnds, configVars
  <2>7. CASE Pool
    BY <2>7 DEF Pool, GetChat, PostChat, Lookup, SendCommand, Blpop, Response,
                Timeout, BlpopRaises, configVars
  <2>8. CASE Publisher
    BY <2>8 DEF Publisher, PublishCommand, configVars
  <2>9. CASE Crash
    <3>1. ASSUME NEW s \in SN, connections[s] # Nil
          PROVE  socket'[connections[s]] = "closed"
      <4>1. connections[s] \in Ws /\ socket[connections[s]] = "open"
        BY <3>1 DEF RegistryInv, RegistryLive, RegistryTypeOK
      <4> QED
        BY <2>9, <4>1 DEF Crash
    <3> QED
      BY <3>1
  <2> QED
    BY <2>1, <2>4, <2>5, <2>6, <2>7, <2>8, <2>9 DEF Next, vars, configVars
<1> QED
  BY <1>1, RegistryAlways, TypeCorrect, PTL DEF Spec, EntryOutlivesOtherSockets

-----------------------------------------------------------------------------
(* Channels are exclusive. *)

\* A handler subscribes to the channel of its own reader, or to none for a frame
\* without `sn'.
ExclusiveChannels ==
  \A c \in Ws : subscribed_channels[c] \subseteq {Device[c], Nil}

\* What a subscription has received was published on its channel, which is the
\* one of the handler's reader.
MailOfReader ==
  \A c \in Ws : \A s \in SN : \A i \in 1..Len(inbox[c][s]) :
    s = Device[c] /\ published[inbox[c][s][i]] = s

ChannelInv == ExclusiveChannels /\ MailOfReader

\* What does not touch the subscriptions.
LEMMA ChannelStutter ==
  ASSUME ChannelInv, UNCHANGED subVars
  PROVE  ChannelInv'
BY DEF ChannelInv, ExclusiveChannels, MailOfReader, subVars

\* The invariant holds at the start.
LEMMA ChannelInit == Init => ChannelInv
<1> SUFFICES ASSUME Init PROVE ChannelInv
  OBVIOUS
<1>1. ExclusiveChannels
  BY DEF Init, HandlerInit, Subscriptions!SubInit, ExclusiveChannels
<1>2. MailOfReader
  BY DEF Init, HandlerInit, Subscriptions!SubInit, Subscriptions!NoMail,
         MailOfReader
<1> QED
  BY <1>1, <1>2 DEF ChannelInv

\* Who deals with mail, or loses it, has no other mail afterwards.
LEMMA MailShrinks ==
  ASSUME ChannelInv, UNCHANGED published,
         \A c \in Ws : subscribed_channels'[c] \subseteq subscribed_channels[c],
         \A c \in Ws : \A s \in SN : \A i \in 1..Len(inbox'[c][s]) :
           \E j \in 1..Len(inbox[c][s]) : inbox'[c][s][i] = inbox[c][s][j]
  PROVE  ChannelInv'
<1>1. ExclusiveChannels'
  BY DEF ChannelInv, ExclusiveChannels
<1>2. MailOfReader'
  BY DEF ChannelInv, MailOfReader
<1> QED
  BY <1>1, <1>2 DEF ChannelInv

\* A message taken out of a mailbox.
LEMMA MailTaken ==
  ASSUME TypeOK, ChannelInv, NEW c \in Ws, NEW s \in SN, inbox[c][s] # <<>>,
         inbox' = [inbox EXCEPT ![c][s] = Tail(inbox[c][s])],
         UNCHANGED <<published, subscribed_channels>>
  PROVE  ChannelInv'
<1>1. inbox \in [Ws -> [SN -> Seq(1..MaxPublish)]]
  BY TypeParts DEF HandlerTypeOK, Subscriptions!SubTypeOK
<1>2. \A i \in 1..Len(Tail(inbox[c][s])) :
        \E j \in 1..Len(inbox[c][s]) : Tail(inbox[c][s])[i] = inbox[c][s][j]
  BY <1>1, TailElements
<1>3. \A d \in Ws : \A k \in SN :
        inbox'[d][k] = IF d = c /\ k = s THEN Tail(inbox[c][s]) ELSE inbox[d][k]
  BY <1>1
<1>4. \A d \in Ws : \A k \in SN : \A i \in 1..Len(inbox'[d][k]) :
        \E j \in 1..Len(inbox[d][k]) : inbox'[d][k][i] = inbox[d][k][j]
  BY <1>2, <1>3
<1> QED
  BY <1>4, MailShrinks

\* A subscription that loses its mail, and perhaps its key.
LEMMA MailLost ==
  ASSUME TypeOK, ChannelInv, NEW c \in Ws, NEW s \in SN \cup {Nil},
         inbox' = [inbox EXCEPT ![c] = Subscriptions!Without(inbox[c], s)],
         \A d \in Ws : subscribed_channels'[d] \subseteq subscribed_channels[d],
         UNCHANGED published
  PROVE  ChannelInv'
<1>1. inbox \in [Ws -> [SN -> Seq(1..MaxPublish)]]
  BY TypeParts DEF HandlerTypeOK, Subscriptions!SubTypeOK
<1>2. \A d \in Ws : \A k \in SN :
        inbox'[d][k] = IF d = c /\ k = s THEN <<>> ELSE inbox[d][k]
  BY <1>1 DEF Subscriptions!Without
<1>3. \A d \in Ws : \A k \in SN : \A i \in 1..Len(inbox'[d][k]) :
        \E j \in 1..Len(inbox[d][k]) : inbox'[d][k][i] = inbox[d][k][j]
  BY <1>2
<1> QED
  BY <1>3, MailShrinks

\* The subscription threads only take from their mail.
LEMMA ChannelSubscribers ==
  ASSUME TypeOK, ChannelInv, NEW c \in Ws, NEW s \in SN \cup {Nil},
         Subscribers(c, s)
  PROVE  ChannelInv'
<1>1. CASE s # Nil /\ SubscriberForwards(c, s)
  BY <1>1, MailTaken DEF SubscriberForwards, Subscriptions!Forward
<1>2. CASE s # Nil /\ SubscriberDiscards(c, s)
  BY <1>2, MailTaken DEF SubscriberDiscards, Subscriptions!Discard
<1>3. CASE SubscriberReconnects(c, s)
  BY <1>3, MailLost DEF SubscriberReconnects, Subscriptions!Reconnect
<1>4. CASE SubscriberEnds(c, s)
  <2>1. subscribed_channels' = [subscribed_channels EXCEPT ![c] = @ \ {s}]
    BY <1>4 DEF SubscriberEnds, Subscriptions!End
  <2>2. \A d \in Ws : subscribed_channels'[d] \subseteq subscribed_channels[d]
    BY <2>1, TypeParts DEF HandlerTypeOK, Subscriptions!SubTypeOK
  <2> QED
    BY <1>4, <2>2, MailLost DEF SubscriberEnds, Subscriptions!End
<1> QED
  BY <1>1, <1>2, <1>3, <1>4 DEF Subscribers

\* A message only reaches handlers of the reader it was published for.
LEMMA ChannelPublisher ==
  ASSUME TypeOK, ChannelInv, Publisher
  PROVE  ChannelInv'
<1> USE ConfigAssumption DEF ConfigAssumption
<1>1. PICK m \in 1..MaxPublish, s \in SN : PublishCommand(m, s)
  BY DEF Publisher
<1>2. /\ published[m] = Nil
      /\ published' = [published EXCEPT ![m] = s]
      /\ UNCHANGED subscribed_channels
  BY <1>1 DEF PublishCommand, Subscriptions!Publish
<1>3. PICK receivers \in SUBSET {h \in Ws : s \in subscribed_channels[h]} :
        inbox' = [h \in Ws |-> IF h \in receivers
                               THEN [inbox[h] EXCEPT ![s] = Append(@, m)]
                               ELSE inbox[h]]
  BY <1>1 DEF PublishCommand, Subscriptions!Publish
<1>4. /\ published \in [1..MaxPublish -> SN \cup {Nil}]
      /\ inbox \in [Ws -> [SN -> Seq(1..MaxPublish)]]
  BY TypeParts DEF HandlerTypeOK, Subscriptions!SubTypeOK
<1>5. ASSUME NEW c \in Ws, NEW k \in SN, NEW i \in 1..Len(inbox'[c][k])
      PROVE  k = Device[c] /\ published'[inbox'[c][k][i]] = k
  <2>1. ASSUME NEW j \in 1..Len(inbox[c][k]), inbox'[c][k][i] = inbox[c][k][j]
        PROVE  k = Device[c] /\ published'[inbox'[c][k][i]] = k
    <3>1. k = Device[c] /\ published[inbox[c][k][j]] = k
      BY DEF ChannelInv, MailOfReader
    <3>2. inbox[c][k][j] \in 1..MaxPublish
      <4>1. inbox[c][k] \in Seq(1..MaxPublish)
        BY <1>4
      <4> QED
        BY <4>1, ElementOfSeq
    <3>3. inbox[c][k][j] # m
      BY <1>2, <3>1
    <3> QED
      BY <1>2, <1>4, <2>1, <3>1, <3>2, <3>3
  <2>2. CASE inbox'[c][k] = inbox[c][k]
    BY <2>1, <2>2
  <2>3. CASE /\ c \in receivers /\ k = s
             /\ inbox'[c][k] = Append(inbox[c][k], m)
    <3>1. k = Device[c]
      BY <2>3 DEF ChannelInv, ExclusiveChannels
    <3>2. \/ inbox'[c][k][i] = m
          \/ \E j \in 1..Len(inbox[c][k]) : inbox'[c][k][i] = inbox[c][k][j]
      BY <1>4, <2>3, AppendElements
    <3>3. CASE inbox'[c][k][i] = m
      BY <1>2, <1>4, <2>3, <3>1, <3>3
    <3> QED
      BY <2>1, <3>2, <3>3
  <2> QED
    BY <1>3, <1>4, <2>2, <2>3
<1>6. MailOfReader'
  BY <1>5 DEF MailOfReader
<1>7. ExclusiveChannels'
  BY <1>2 DEF ChannelInv, ExclusiveChannels
<1> QED
  BY <1>6, <1>7 DEF ChannelInv

\* A handler subscribes to the channel its reader's frame names.
LEMMA ChannelStart ==
  ASSUME TypeOK, RegistryInv, ChannelInv, StartSubscriber
  PROVE  ChannelInv'
<1>1. /\ reactor.pc # "idle"
      /\ subscribed_channels' = [subscribed_channels EXCEPT
                                   ![reactor.ws] = @ \cup {reactor.msg.sn}]
      /\ UNCHANGED <<published, inbox>>
  BY DEF StartSubscriber, Subscriptions!Subscribe
<1>2. reactor.msg.sn \in {Device[reactor.ws], Nil}
  BY <1>1 DEF RegistryInv, CallbackOnOpenSocket
<1>3. ExclusiveChannels'
  BY <1>1, <1>2, TypeParts DEF ChannelInv, ExclusiveChannels, HandlerTypeOK,
                              Subscriptions!SubTypeOK
<1>4. MailOfReader'
  BY <1>1 DEF ChannelInv, MailOfReader
<1> QED
  BY <1>3, <1>4 DEF ChannelInv

\* Every step preserves the invariant.
LEMMA ChannelNext ==
  ASSUME TypeOK, RegistryInv, ChannelInv, [Next]_vars
  PROVE  ChannelInv'
<1>1. CASE UNCHANGED vars
  BY <1>1, ChannelStutter DEF vars, handlerVars
<1>2. ASSUME NEW c \in Ws, Readers(c)
      PROVE  ChannelInv'
  BY <1>2, ChannelStutter DEF Readers, Dial, Reply, SendFrame, handlerVars
<1>3. CASE Reactor
  <2>1. UNCHANGED subVars \/ StartSubscriber
    BY <1>3 DEF Reactor, OnOpen, OnMessage, PushResponse, DeleteResponses,
                Register, HandleReg, PublishLog, RedisCommandRaises, OnClose,
                handlerVars
  <2> QED
    BY <2>1, ChannelStutter, ChannelStart
<1>4. CASE Pool
  BY <1>4, ChannelStutter DEF Pool, notPool, handlerVars
<1>5. CASE Crash
  <2>1. ExclusiveChannels'
    BY <1>5 DEF Crash, ExclusiveChannels
  <2>2. MailOfReader'
    BY <1>5 DEF Crash, MailOfReader, Subscriptions!NoMail
  <2> QED
    BY <2>1, <2>2 DEF ChannelInv
<1> QED
  BY <1>1, <1>2, <1>3, <1>4, <1>5, ChannelSubscribers, ChannelPublisher DEF Next

\* The invariant holds in every reachable state.
LEMMA ChannelAlways == Spec => []ChannelInv
BY ChannelInit, ChannelNext, RegistryAlways, TypeCorrect, PTL DEF Spec

-----------------------------------------------------------------------------
(* Commands stay with their reader. *)

\* Between the lookup and the send a request holds a socket of its reader.
HoldsReadersSocket ==
  \A r \in Requests : http[r] = "send"
    => conn[r] \in Ws /\ Device[conn[r]] = post[r].channel

\* A command was sent for a request that has arrived, to a socket of the reader
\* the request names, or came over the channel of that reader.
ForReader(command, c) ==
  IF command[1] = Nil
  THEN command[2] \in 1..MaxPublish /\ published[command[2]] = Device[c]
  ELSE http[command[1]] # "new" /\ post[command[1]].channel = Device[c]

CommandsOfReader ==
  \A c \in Ws : \A i \in 1..Len(down[c]) : ForReader(down[c][i], c)

CommandInv == HoldsReadersSocket /\ CommandsOfReader

\* A request that has arrived neither goes back nor changes, and a message is
\* published once.
Monotone ==
  /\ \A r \in Requests : http[r] # "new" => http'[r] # "new" /\ post'[r] = post[r]
  /\ \A m \in 1..MaxPublish : published[m] # Nil => published'[m] = published[m]

\* A step whose commands on the wire are old ones, or new ones for the reader.
LEMMA CommandStep ==
  ASSUME TypeOK, CommandInv, Monotone, HoldsReadersSocket',
         \A c \in Ws : \A i \in 1..Len(down'[c]) :
           \/ \E j \in 1..Len(down[c]) : down'[c][i] = down[c][j]
           \/ ForReader(down[c][i], c)'
  PROVE  CommandInv'
<1>1. ASSUME NEW c \in Ws, NEW i \in 1..Len(down'[c]), NEW j \in 1..Len(down[c]),
             down'[c][i] = down[c][j]
      PROVE  ForReader(down[c][i], c)'
  <2>1. down[c][j] \in Command
    BY TypeParts DEF SocketTypeOK
  <2>2. ForReader(down[c][j], c)
    BY DEF CommandInv, CommandsOfReader
  <2>3. PICK command \in Command : command = down[c][j]
    BY <2>1
  <2>4. ForReader(command, c)
    BY <2>2, <2>3
  <2>5. CASE command[1] = Nil
    <3>1. published[command[2]] # Nil
      BY <2>4, <2>5, ConfigAssumption DEF ForReader, ConfigAssumption
    <3> QED
      BY <1>1, <2>3, <2>4, <2>5, <3>1 DEF ForReader, Monotone
  <2>6. CASE command[1] \in Requests
    <3>1. command[1] # Nil
      BY <2>6, ConfigAssumption DEF ConfigAssumption
    <3> QED
      BY <1>1, <2>3, <2>4, <2>6, <3>1 DEF ForReader, Monotone
  <2> QED
    BY <2>5, <2>6 DEF Command
<1>2. CommandsOfReader'
  BY <1>1 DEF CommandsOfReader
<1> QED
  BY <1>2 DEF CommandInv

\* A step that leaves the commands on the wire alone.
LEMMA CommandStutter ==
  ASSUME TypeOK, CommandInv, Monotone, UNCHANGED down,
         \A r \in Requests :
           http'[r] = "send" => http[r] = "send" /\ UNCHANGED <<conn, post>>
  PROVE  CommandInv'
<1>1. HoldsReadersSocket'
  BY DEF CommandInv, HoldsReadersSocket
<1> QED
  BY <1>1, CommandStep

\* A command added on a socket is for the reader of the socket.
LEMMA CommandSent ==
  ASSUME TypeOK, CommandInv, Monotone, HoldsReadersSocket',
         NEW c \in Ws, NEW command \in Command, WsSend(c, command),
         ForReader(command, c)'
  PROVE  CommandInv'
<1>1. ASSUME NEW d \in Ws, NEW i \in 1..Len(down'[d])
      PROVE  \/ \E j \in 1..Len(down[d]) : down'[d][i] = down[d][j]
             \/ ForReader(down[d][i], d)'
  <2>1. CASE down'[d] = down[d]
    BY <2>1
  <2>2. CASE d = c /\ down'[d] = Append(down[d], command)
    <3>1. down[d] \in Seq(Command)
      BY TypeParts DEF SocketTypeOK
    <3>2. \/ down'[d][i] = command
          \/ \E j \in 1..Len(down[d]) : down'[d][i] = down[d][j]
      BY <2>2, <3>1, AppendElements
    <3> QED
      BY <2>2, <3>2 DEF ForReader
  <2> QED
    BY <2>1, <2>2, TypeParts DEF WsSend, SocketTypeOK
<1> QED
  BY <1>1, CommandStep

\* The invariant holds at the start.
LEMMA CommandInit == Init => CommandInv
BY DEF Init, ConfigInit, ServerInit, CommandInv, HoldsReadersSocket,
       CommandsOfReader

\* What the threads outside the pool do.
LEMMA CommandOthers ==
  ASSUME TypeOK, ChannelInv, CommandInv, UNCHANGED serverVars,
         \/ \E c \in Ws : Readers(c)
         \/ Reactor
         \/ \E c \in Ws, s \in SN \cup {Nil} : Subscribers(c, s)
         \/ Publisher
  PROVE  CommandInv'
<1>1. Monotone
  <2>1. UNCHANGED published \/ Publisher
    BY DEF Readers, Dial, Reply, SendFrame, Reactor, OnOpen, OnMessage,
           PushResponse, DeleteResponses, Register, HandleReg, PublishLog,
           StartSubscriber, RedisCommandRaises, OnClose, Subscribers,
           SubscriberForwards, SubscriberDiscards, SubscriberReconnects,
           SubscriberEnds, Subscriptions!Subscribe, Subscriptions!Forward,
           Subscriptions!Discard, Subscriptions!Reconnect, Subscriptions!End,
           handlerVars, subVars
  <2>2. ASSUME NEW m \in 1..MaxPublish, published[m] # Nil
        PROVE  published'[m] = published[m]
    <3>1. published \in [1..MaxPublish -> SN \cup {Nil}]
      BY TypeParts DEF HandlerTypeOK, Subscriptions!SubTypeOK
    <3> QED
      BY <2>1, <2>2, <3>1 DEF Publisher, PublishCommand, Subscriptions!Publish
  <2> QED
    BY <2>2 DEF Monotone, serverVars
<1>2. HoldsReadersSocket'
  BY DEF CommandInv, HoldsReadersSocket, serverVars
<1>3. ASSUME UNCHANGED down
      PROVE  CommandInv'
  BY <1>1, <1>2, <1>3, CommandStep
<1>4. ASSUME NEW c \in Ws, Reply(c)
      PROVE  CommandInv'
  <2>1. down[c] \in Seq(Command) /\ down[c] # <<>>
    BY <1>4, TypeParts DEF Reply, SocketTypeOK
  <2>2. \A d \in Ws : down'[d] = IF d = c THEN Tail(down[c]) ELSE down[d]
    BY <1>4, TypeParts DEF Reply, SocketTypeOK
  <2>3. \A i \in 1..Len(Tail(down[c])) :
          \E j \in 1..Len(down[c]) : Tail(down[c])[i] = down[c][j]
    BY <2>1, TailElements
  <2>4. \A d \in Ws : \A i \in 1..Len(down'[d]) :
          \E j \in 1..Len(down[d]) : down'[d][i] = down[d][j]
    BY <2>2, <2>3
  <2> QED
    BY <1>1, <1>2, <2>4, CommandStep
<1>5. ASSUME NEW c \in Ws, OnClose(c)
      PROVE  CommandInv'
  <2>1. \A d \in Ws : down'[d] = IF d = c THEN <<>> ELSE down[d]
    BY <1>5, TypeParts DEF OnClose, SocketTypeOK
  <2>2. \A d \in Ws : \A i \in 1..Len(down'[d]) :
          \E j \in 1..Len(down[d]) : down'[d][i] = down[d][j]
    BY <2>1
  <2> QED
    BY <1>1, <1>2, <2>2, CommandStep
<1>6. ASSUME NEW c \in Ws, NEW s \in SN, SubscriberForwards(c, s)
      PROVE  CommandInv'
  <2>1. inbox[c][s] \in Seq(1..MaxPublish) /\ inbox[c][s] # <<>>
    BY <1>6, TypeParts DEF SubscriberForwards, Subscriptions!Forward,
                           HandlerTypeOK, Subscriptions!SubTypeOK
  <2>2. PICK m \in 1..MaxPublish : m = Head(inbox[c][s])
    BY <2>1, HeadTailProperties
  <2>3. published[m] = Device[c]
    BY <2>1, <2>2, TailElements DEF ChannelInv, MailOfReader
  <2>4. <<Nil, m>> \in Command
    BY <2>2, HandlerAssumption DEF Command, HandlerAssumption
  <2>5. WsSend(c, <<Nil, m>>) /\ UNCHANGED published
    BY <1>6, <2>2 DEF SubscriberForwards, Subscriptions!Forward
  <2>6. ForReader(<<Nil, m>>, c)'
    BY <2>2, <2>3, <2>5 DEF ForReader
  <2> QED
    BY <1>1, <1>2, <2>4, <2>5, <2>6, CommandSent
<1>7. ASSUME NEW c \in Ws, Readers(c)
      PROVE  UNCHANGED down \/ Reply(c)
  BY <1>7 DEF Readers, Dial, SendFrame
<1>8. CASE Reactor
  <2>1. UNCHANGED down \/ \E c \in Ws : OnClose(c)
    BY <1>8 DEF Reactor, OnOpen, OnMessage, PushResponse, DeleteResponses,
                Register, HandleReg, PublishLog, StartSubscriber,
                RedisCommandRaises, configVars, socketVars
  <2> QED
    BY <2>1, <1>3, <1>5
<1>9. ASSUME NEW c \in Ws, NEW s \in SN \cup {Nil}, Subscribers(c, s)
      PROVE  UNCHANGED down \/ (s \in SN /\ SubscriberForwards(c, s))
  BY <1>9 DEF Subscribers, SubscriberDiscards, SubscriberReconnects,
              SubscriberEnds, configVars, socketVars
<1>10. CASE Publisher
  <2>1. UNCHANGED down
    BY <1>10 DEF Publisher, PublishCommand, configVars, socketVars
  <2> QED
    BY <2>1, <1>3
<1> QED
  BY <1>3, <1>4, <1>6, <1>7, <1>8, <1>9, <1>10

\* What the threads of the pool do: the lookup relies on RegistryLive.
LEMMA CommandPool ==
  ASSUME TypeOK, RegistryLive, CommandInv, Pool
  PROVE  CommandInv'
<1> USE TypeParts, ServerParts
<1>0. UNCHANGED published
  BY DEF Pool, notPool, handlerVars, subVars
<1>1. ASSUME NEW c \in Ws, GetChat(c), UNCHANGED notPool
      PROVE  CommandInv'
  BY <1>0, <1>1, CommandStutter DEF GetChat, serverVars, Monotone
<1>2. ASSUME NEW r \in Requests, NEW p \in Posts, PostChat(r, p)
      PROVE  CommandInv'
  <2>1. /\ http[r] = "new" /\ post' = [post EXCEPT ![r] = p]
        /\ \E label \in {"lookup", "done"} : http' = [http EXCEPT ![r] = label]
        /\ UNCHANGED <<down, conn>>
    BY <1>2 DEF PostChat, configVars, socketVars
  <2>2. Monotone
    BY <1>0, <2>1 DEF Monotone
  <2>3. HoldsReadersSocket'
    BY <2>1 DEF CommandInv, HoldsReadersSocket
  <2> QED
    BY <2>1, <2>2, <2>3, CommandStep
<1>3. ASSUME NEW r \in Requests, http[r] # "new",
             NEW label \in {"lookup", "blpop", "blocked", "done"},
             http' = [http EXCEPT ![r] = label], UNCHANGED <<post, conn, down>>
      PROVE  CommandInv'
  BY <1>0, <1>3, CommandStutter DEF Monotone
<1>4. ASSUME NEW r \in Requests, Lookup(r)
      PROVE  CommandInv'
  <2>1. http[r] = "lookup" /\ post[r] # Nil /\ UNCHANGED <<post, down>>
    BY <1>4 DEF Lookup, NextItem, ProgressOK, configVars, socketVars
  <2>2. CASE connections[post[r].channel] = Nil
    <3>1. /\ \E label \in {"lookup", "done"} : http' = [http EXCEPT ![r] = label]
          /\ UNCHANGED conn
      BY <1>4, <2>2 DEF Lookup, NextItem
    <3> QED
      BY <2>1, <3>1, <1>3
  <2>3. CASE connections[post[r].channel] # Nil
    <3>1. /\ conn' = [conn EXCEPT ![r] = connections[post[r].channel]]
          /\ http' = [http EXCEPT ![r] = "send"]
      BY <1>4, <2>3 DEF Lookup
    <3>2. post[r].channel \in SN
      BY <2>1, PostChannel
    <3>3. /\ connections[post[r].channel] \in Ws
          /\ Device[connections[post[r].channel]] = post[r].channel
      BY <2>3, <3>2 DEF RegistryLive, RegistryTypeOK
    <3>4. Monotone
      BY <1>0, <2>1, <3>1 DEF Monotone
    <3>5. HoldsReadersSocket'
      BY <2>1, <3>1, <3>3 DEF CommandInv, HoldsReadersSocket
    <3> QED
      BY <2>1, <3>4, <3>5, CommandStep
  <2> QED
    BY <2>2, <2>3
<1>5. ASSUME NEW r \in Requests, SendCommand(r)
      PROVE  CommandInv'
  <2>1. http[r] = "send" /\ UNCHANGED <<post, conn>>
    BY <1>5 DEF SendCommand, Raises
  <2>2. CASE UNCHANGED socketVars
    <3>1. /\ UNCHANGED down
          /\ \E label \in {"blpop", "done"} : http' = [http EXCEPT ![r] = label]
      BY <1>5, <2>2 DEF SendCommand, Raises, socketVars
    <3> QED
      BY <2>1, <3>1, <1>3, ZenonT(30)
  <2>3. CASE /\ WsSend(conn[r], <<r, item[r]>>)
             /\ http' = [http EXCEPT ![r] = "blpop"]
    <3>1. conn[r] \in Ws /\ Device[conn[r]] = post[r].channel
      BY <2>1 DEF CommandInv, HoldsReadersSocket
    <3>2. <<r, item[r]>> \in Command /\ <<r, item[r]>>[1] = r /\ r # Nil
      BY ConfigAssumption DEF Command, ConfigAssumption
    <3>3. Monotone
      BY <1>0, <2>1, <2>3 DEF Monotone
    <3>4. HoldsReadersSocket'
      BY <2>1, <2>3 DEF CommandInv, HoldsReadersSocket
    <3>5. PICK c \in Ws, command \in Command :
            c = conn[r] /\ command = <<r, item[r]>>
      BY <3>1, <3>2
    <3>6. ForReader(command, c)'
      BY <2>1, <2>3, <3>1, <3>2, <3>5 DEF ForReader
    <3> QED
      BY <2>3, <3>3, <3>4, <3>5, <3>6, CommandSent
  <2> QED
    BY <1>5, <2>2, <2>3 DEF SendCommand
<1>6. ASSUME NEW r \in Requests,
             Blpop(r) \/ Response(r) \/ Timeout(r) \/ BlpopRaises(r)
      PROVE  CommandInv'
  <2>1. /\ http[r] # "new"
        /\ \E label \in {"lookup", "blocked", "done"} :
             http' = [http EXCEPT ![r] = label]
        /\ UNCHANGED <<post, conn, down>>
    BY <1>6 DEF Blpop, Response, Timeout, BlpopRaises, NextItem, Raises,
                socketVars
  <2> QED
    BY <2>1, <1>3, ZenonT(30)
<1> QED
  BY <1>1, <1>2, <1>4, <1>5, <1>6 DEF Pool

\* Every step preserves the invariant.
LEMMA CommandNext ==
  ASSUME TypeOK, RegistryLive, ChannelInv, CommandInv, [Next]_vars
  PROVE  CommandInv'
<1>1. CASE UNCHANGED vars
  BY <1>1, CommandStutter DEF vars, configVars, socketVars, serverVars,
                              handlerVars, subVars, Monotone
<1>2. CASE Pool
  BY <1>2, CommandPool
<1>3. CASE \/ \E c \in Ws : Readers(c)
           \/ Reactor
           \/ \E c \in Ws, s \in SN \cup {Nil} : Subscribers(c, s)
           \/ Publisher
  <2>1. UNCHANGED serverVars
    BY <1>3 DEF Readers, Dial, Reply, SendFrame, Reactor, Subscribers, Publisher,
                notReactor
  <2> QED
    BY <1>3, <2>1, CommandOthers
<1>4. CASE Crash
  <2>1. \A r \in Requests : http'[r] \in {http[r], "lost"} /\ http'[r] # "send"
    BY <1>4 DEF Crash, Active
  <2>2. HoldsReadersSocket'
    BY <2>1 DEF HoldsReadersSocket
  <2>3. CommandsOfReader'
    BY <1>4 DEF Crash, CommandsOfReader
  <2> QED
    BY <2>2, <2>3 DEF CommandInv
<1> QED
  BY <1>1, <1>2, <1>3, <1>4 DEF Next

\* The invariant holds in every reachable state.
LEMMA CommandAlways == Spec => []CommandInv
BY CommandInit, CommandNext, RegistryIsLive, ChannelAlways, TypeCorrect, PTL
DEF Spec

\* A command sent for a POST only ever waits on a socket of the reader the POST
\* named, whatever happened between the lookup and the send, and one that came
\* over PUB/SUB on a socket of the reader whose channel it was published on.
THEOREM CommandsReachTheirReader == Spec => []CommandReachesItsReader
<1>1. CommandInv => CommandReachesItsReader
  BY DEF CommandInv, CommandsOfReader, ForReader, CommandReachesItsReader
<1> QED
  BY <1>1, CommandAlways, PTL
=============================================================================
