--------------------------- MODULE GatewayProofs ----------------------------
(***************************************************************************)
(* Proofs about Gateway, for any number of readers, sockets and requests.  *)
(***************************************************************************)
EXTENDS Gateway, SequenceTheorems, TLAPS

-----------------------------------------------------------------------------
(* What the Redis and Faye operators do to the types of their state. *)

RedisTypeOK ==
  /\ lists \in [SN -> Seq(Message)]
  /\ blocked \in [SN -> Seq(Requests)]
  /\ reply \in [Requests -> Message \cup {Nil}]

\* lpush keeps the types of the lists, the waiting clients and the replies.
LEMMA LPUSHType ==
  ASSUME RedisTypeOK, NEW s \in SN, NEW m \in Message, LPUSH(s, m)
  PROVE  RedisTypeOK'
<1>1. CASE blocked[s] = <<>>
  <2>1. <<m>> \in Seq(Message)
    OBVIOUS
  <2>2. <<m>> \o lists[s] \in Seq(Message)
    BY <2>1, ConcatProperties DEF RedisTypeOK
  <2> QED
    BY <1>1, <2>2 DEF RedisTypeOK, LPUSH
<1>2. CASE blocked[s] # <<>>
  <2>1. Head(blocked[s]) \in Requests /\ Tail(blocked[s]) \in Seq(Requests)
    BY <1>2, HeadTailProperties DEF RedisTypeOK
  <2> QED
    BY <1>2, <2>1 DEF RedisTypeOK, LPUSH
<1> QED
  BY <1>1, <1>2

\* del keeps the types.
LEMMA DELType ==
  ASSUME RedisTypeOK, NEW s \in SN, DEL(s)
  PROVE  RedisTypeOK'
BY DEF RedisTypeOK, DEL

\* blpop keeps the types.
LEMMA BLPOPType ==
  ASSUME RedisTypeOK, NEW r \in Requests, NEW s \in SN, BLPOP(r, s)
  PROVE  RedisTypeOK'
<1>1. CASE lists[s] = <<>>
  <2>1. Append(blocked[s], r) \in Seq(Requests)
    BY DEF RedisTypeOK
  <2> QED
    BY <1>1, <2>1 DEF RedisTypeOK, BLPOP
<1>2. CASE lists[s] # <<>>
  <2>1. Head(lists[s]) \in Message /\ Tail(lists[s]) \in Seq(Message)
    BY <1>2, HeadTailProperties DEF RedisTypeOK
  <2> QED
    BY <1>2, <2>1 DEF RedisTypeOK, BLPOP
<1> QED
  BY <1>1, <1>2

\* A sequence without one of its elements is a sequence.
LEMMA RemoveType ==
  ASSUME NEW S, NEW seq \in Seq(S), NEW i \in 1..Len(seq)
  PROVE  SubSeq(seq, 1, i - 1) \o SubSeq(seq, i + 1, Len(seq)) \in Seq(S)
<1>1. \A j \in 1..(i - 1) : seq[j] \in S
  OBVIOUS
<1>2. \A j \in (i + 1)..Len(seq) : seq[j] \in S
  OBVIOUS
<1>3. SubSeq(seq, 1, i - 1) \in Seq(S)
  BY <1>1, SubSeqProperties
<1>4. SubSeq(seq, i + 1, Len(seq)) \in Seq(S)
  BY <1>2, SubSeqProperties
<1> QED
  BY <1>3, <1>4, ConcatProperties

\* A client that Redis forgets leaves the types alone.
LEMMA UnblockType ==
  ASSUME RedisTypeOK, NEW r \in Requests, NEW s \in SN, Unblock(r, s)
  PROVE  RedisTypeOK'
<1>1. PICK i \in 1..Len(blocked[s]) :
        blocked' = [blocked EXCEPT ![s] = SubSeq(@, 1, i - 1)
                                            \o SubSeq(@, i + 1, Len(@))]
  BY DEF Unblock
<1>2. blocked[s] \in Seq(Requests)
  BY DEF RedisTypeOK
<1>3. SubSeq(blocked[s], 1, i - 1) \o SubSeq(blocked[s], i + 1, Len(blocked[s]))
        \in Seq(Requests)
  BY <1>2, RemoveType
<1> QED
  BY <1>1, <1>3 DEF RedisTypeOK, Unblock

\* ws.send appends a command or does nothing.
LEMMA WsSendType ==
  ASSUME down \in [Ws -> Seq(Command)], NEW c, NEW command \in Command,
         WsSend(c, command)
  PROVE  down' \in [Ws -> Seq(Command)]
<1>1. CASE c \in Ws
  BY <1>1 DEF WsSend
<1>2. CASE c \notin Ws
  BY <1>2 DEF WsSend
<1> QED
  BY <1>1, <1>2

-----------------------------------------------------------------------------
(* Type correctness, one lemma for each of the threads. *)

EnvTypeOK ==
  /\ dialled \in [SN -> Ws \cup {Nil}]
  /\ frames \in [Ws -> Nat]
  /\ executed \in [Requests \cup {Nil} -> Seq(Nat)]
  /\ crashes \in Nat

SocketTypeOK ==
  /\ socket \in [Ws -> {"none", "connecting", "accepted", "open", "closed"}]
  /\ up \in [Ws -> Seq(Message)]
  /\ down \in [Ws -> Seq(Command)]

RegistryTypeOK ==
  /\ connections \in [SN -> Ws \cup {Nil}]
  /\ ws_keys \subseteq Ws
  /\ faults \in Nat

\* The type invariant in the groups of variables the actions leave alone.
LEMMA TypeParts ==
  /\ TypeOK <=> /\ RegistryTypeOK /\ SocketTypeOK /\ RedisTypeOK
                /\ HandlerTypeOK /\ ServerTypeOK /\ EnvTypeOK
  /\ TypeOK' <=> /\ RegistryTypeOK' /\ SocketTypeOK' /\ RedisTypeOK'
                 /\ HandlerTypeOK' /\ ServerTypeOK' /\ EnvTypeOK'
BY DEF TypeOK, ConfigTypeOK, RegistryTypeOK, SocketTypeOK, RedisTypeOK,
       EnvTypeOK

\* The subscriptions keep their types while nothing touches them.
LEMMA SubscriptionStutter ==
  ASSUME Subscriptions!SubTypeOK, UNCHANGED subVars
  PROVE  Subscriptions!SubTypeOK'
BY DEF Subscriptions!SubTypeOK, subVars

\* The groups that a step does not touch keep their types.
LEMMA TypeStutter ==
  ASSUME TypeOK
  PROVE  /\ UNCHANGED <<connections, ws_keys, faults>> => RegistryTypeOK'
         /\ UNCHANGED socketVars => SocketTypeOK'
         /\ UNCHANGED redisVars => RedisTypeOK'
         /\ UNCHANGED handlerVars => HandlerTypeOK'
         /\ UNCHANGED serverVars => ServerTypeOK'
         /\ UNCHANGED envVars => EnvTypeOK'
<1> USE TypeParts
<1>1. UNCHANGED <<connections, ws_keys, faults>> => RegistryTypeOK'
  BY DEF RegistryTypeOK
<1>2. UNCHANGED socketVars => SocketTypeOK'
  BY DEF SocketTypeOK, socketVars
<1>3. UNCHANGED redisVars => RedisTypeOK'
  BY DEF RedisTypeOK, redisVars
<1>4. UNCHANGED handlerVars => HandlerTypeOK'
  BY SubscriptionStutter DEF HandlerTypeOK, handlerVars
<1>5. UNCHANGED serverVars => ServerTypeOK'
  BY DEF ServerTypeOK, serverVars
<1>6. UNCHANGED envVars => EnvTypeOK'
  BY DEF EnvTypeOK, envVars
<1> QED
  BY <1>1, <1>2, <1>3, <1>4, <1>5, <1>6

\* The readers send well-formed frames.
LEMMA ReadersType ==
  ASSUME TypeOK, NEW c \in Ws, Readers(c)
  PROVE  TypeOK'
<1> USE TypeParts, TypeStutter, ConfigAssumption
<1>0. Device[c] \in SN
  BY DEF ConfigAssumption
<1>1. CASE Dial(c)
  <2>1. SocketTypeOK'
    BY <1>1 DEF Dial, SocketTypeOK
  <2>2. EnvTypeOK'
    BY <1>1, <1>0 DEF Dial, EnvTypeOK
  <2> QED
    BY <1>1, <2>1, <2>2 DEF Dial
<1>2. CASE Reply(c)
  <2>1. PICK sn \in {Device[c], Nil} :
          up' = [up EXCEPT ![c] =
                   Append(@, [kind |-> "ret", sn |-> sn, of |-> Head(down[c])])]
    BY <1>2 DEF Reply
  <2>2. Head(down[c]) \in Command /\ Tail(down[c]) \in Seq(Command)
    BY <1>2, HeadTailProperties DEF Reply, SocketTypeOK
  <2>3. [kind |-> "ret", sn |-> sn, of |-> Head(down[c])] \in Message
    BY <2>2, <1>0 DEF Message
  <2>4. up' \in [Ws -> Seq(Message)]
    BY <2>1, <2>3 DEF SocketTypeOK
  <2>5. SocketTypeOK'
    BY <1>2, <2>2, <2>4 DEF Reply, SocketTypeOK
  <2>6. EnvTypeOK'
    BY <1>2, <2>2, SMTT(30) DEF Reply, EnvTypeOK, Command
  <2> QED
    BY <1>2, <2>5, <2>6 DEF Reply
<1>3. ASSUME NEW kind \in {"reg", "sendlog"}, SendFrame(c, kind)
      PROVE  TypeOK'
  <2>1. [kind |-> kind, sn |-> Device[c], of |-> Nil] \in Message
    BY <1>0 DEF Message, Command
  <2>2. SocketTypeOK'
    BY <1>3, <2>1 DEF SendFrame, SocketTypeOK
  <2>3. EnvTypeOK'
    BY <1>3 DEF SendFrame, EnvTypeOK
  <2> QED
    BY <1>3, <2>2, <2>3 DEF SendFrame
<1> QED
  BY <1>1, <1>2, <1>3 DEF Readers

\* A callback in progress is one of a web socket, at a message.
LEMMA BusyReactor ==
  ASSUME HandlerTypeOK, reactor.pc # "idle"
  PROVE  /\ reactor \in Busy
         /\ reactor.ws \in Ws
         /\ reactor.msg \in Message
         /\ \A label \in {"lpush", "del", "register", "handle_reg", "publish",
                           "start"} :
              [reactor EXCEPT !.pc = label] \in Busy
         /\ reactor.msg.of \in Command \cup {Nil}
         /\ reactor.pc \in {"lpush", "del", "register"} => reactor.msg.sn \in SN
<1>1. reactor # Idle
  BY DEF Idle
<1> QED
  BY <1>1 DEF HandlerTypeOK, Busy, Message

\* The callbacks of the reactor keep the types.
LEMMA ReactorType ==
  ASSUME TypeOK, Reactor
  PROVE  TypeOK'
<1> USE TypeParts, TypeStutter, SubscriptionStutter, ConfigAssumption
<1>0. Idle \in Busy \cup {Idle} /\ Idle.pc = "idle"
  BY DEF Idle
<1>1. ASSUME NEW c \in Ws, OnOpen(c), UNCHANGED notReactor
      PROVE  TypeOK'
  <2>1. SocketTypeOK'
    BY <1>1 DEF OnOpen, SocketTypeOK
  <2>2. RegistryTypeOK'
    BY <1>1 DEF OnOpen, RegistryTypeOK
  <2> QED
    BY <1>1, <2>1, <2>2 DEF OnOpen, notReactor
<1>2. ASSUME NEW c \in Ws, OnMessage(c), UNCHANGED notReactor
      PROVE  TypeOK'
  <2>1. Head(up[c]) \in Message /\ Tail(up[c]) \in Seq(Message)
    BY <1>2, HeadTailProperties DEF OnMessage, SocketTypeOK
  <2>2. SocketTypeOK'
    BY <1>2, <2>1 DEF OnMessage, SocketTypeOK
  <2>3. reactor' \in Busy
    BY <1>2, <2>1 DEF OnMessage, Busy
  <2>4. reactor'.pc \in {"lpush", "del", "register"} => reactor'.msg.sn # Nil
    BY <1>2 DEF OnMessage
  <2>5. HandlerTypeOK'
    BY <1>2, <2>3, <2>4 DEF OnMessage, HandlerTypeOK
  <2> QED
    BY <1>2, <2>2, <2>5 DEF OnMessage, notReactor
<1>3. CASE PushResponse /\ UNCHANGED notReactor
  <2>1. reactor.pc # "idle" /\ reactor.pc = "lpush"
    BY <1>3 DEF PushResponse
  <2>2. RedisTypeOK'
    BY <1>3, <2>1, BusyReactor, LPUSHType DEF PushResponse
  <2>3. reactor' \in Busy /\ reactor'.pc = "del" /\ reactor'.msg = reactor.msg
    BY <1>3, <2>1, BusyReactor DEF PushResponse, GoTo, Busy
  <2>4. heard' \subseteq Command
    BY <1>3, <2>1, BusyReactor DEF PushResponse, HandlerTypeOK
  <2>5. HandlerTypeOK'
    BY <1>3, <2>1, <2>3, <2>4 DEF PushResponse, HandlerTypeOK
  <2> QED
    BY <1>3, <2>2, <2>5 DEF PushResponse, notReactor
<1>4. CASE DeleteResponses /\ UNCHANGED notReactor
  <2>1. reactor.pc # "idle" /\ reactor.pc = "del"
    BY <1>4 DEF DeleteResponses
  <2>2. RedisTypeOK'
    BY <1>4, <2>1, BusyReactor, DELType DEF DeleteResponses
  <2>3. reactor' \in Busy /\ reactor'.pc = "register" /\ reactor'.msg = reactor.msg
    BY <1>4, <2>1, BusyReactor DEF DeleteResponses, GoTo, Busy
  <2>4. HandlerTypeOK'
    BY <1>4, <2>1, <2>3 DEF DeleteResponses, HandlerTypeOK
  <2> QED
    BY <1>4, <2>2, <2>4 DEF DeleteResponses, notReactor
<1>5. CASE Register /\ UNCHANGED notReactor
  <2>1. reactor.pc # "idle"
    BY <1>5 DEF Register
  <2>2. RegistryTypeOK'
    BY <1>5, <2>1, BusyReactor DEF Register, RegistryTypeOK
  <2>3. reactor' \in Busy /\ reactor'.pc = "handle_reg"
    BY <1>5, <2>1, BusyReactor DEF Register, GoTo, Busy
  <2>4. HandlerTypeOK'
    BY <1>5, <2>3 DEF Register, HandlerTypeOK
  <2> QED
    BY <1>5, <2>2, <2>4 DEF Register, notReactor
<1>6. CASE HandleReg /\ UNCHANGED notReactor
  <2>1. reactor.pc # "idle"
    BY <1>6 DEF HandleReg
  <2>2. reactor' \in Busy /\ reactor'.pc \in {"publish", "start"}
    BY <1>6, <2>1, BusyReactor DEF HandleReg, GoTo, Busy
  <2>3. acked' \in [Ws -> SUBSET {"reg", "sendlog"}]
    BY <1>6 DEF HandleReg, HandlerTypeOK
  <2>4. logs' \in [acked: Nat, published: Nat]
    BY <1>6 DEF HandleReg, HandlerTypeOK
  <2>5. HandlerTypeOK'
    BY <1>6, <2>2, <2>3, <2>4 DEF HandleReg, HandlerTypeOK
  <2> QED
    BY <1>6, <2>5 DEF HandleReg, notReactor, configVars
<1>7. CASE PublishLog /\ UNCHANGED notReactor
  <2>1. logs' \in [acked: Nat, published: Nat]
    BY <1>7 DEF PublishLog, HandlerTypeOK
  <2>2. HandlerTypeOK'
    BY <1>7, <1>0, <2>1 DEF PublishLog, HandlerTypeOK
  <2> QED
    BY <1>7, <2>2 DEF PublishLog, notReactor, configVars
<1>8. CASE StartSubscriber /\ UNCHANGED notReactor
  <2>1. reactor.msg.sn \in SN \cup {Nil}
    BY <1>8, BusyReactor DEF StartSubscriber, Message
  <2>2. Subscriptions!SubTypeOK'
    BY <1>8, <2>1 DEF StartSubscriber, HandlerTypeOK, Subscriptions!SubTypeOK,
                      Subscriptions!Subscribe
  <2>3. HandlerTypeOK'
    BY <1>8, <1>0, <2>2 DEF StartSubscriber, HandlerTypeOK
  <2> QED
    BY <1>8, <2>3 DEF StartSubscriber, notReactor, configVars
<1>9. CASE RedisCommandRaises /\ UNCHANGED notReactor
  <2>1. RegistryTypeOK'
    BY <1>9 DEF RedisCommandRaises, Fault, RegistryTypeOK
  <2>2. HandlerTypeOK'
    BY <1>9, <1>0 DEF RedisCommandRaises, HandlerTypeOK
  <2> QED
    BY <1>9, <2>1, <2>2 DEF RedisCommandRaises, notReactor
<1>10. ASSUME NEW c \in Ws, OnClose(c), UNCHANGED notReactor
       PROVE  TypeOK'
  <2>1. SocketTypeOK'
    BY <1>10 DEF OnClose, SocketTypeOK
  <2>2. RegistryTypeOK'
    BY <1>10 DEF OnClose, RegistryTypeOK
  <2> QED
    BY <1>10, <2>1, <2>2 DEF OnClose, notReactor
<1> QED
  BY <1>1, <1>2, <1>3, <1>4, <1>5, <1>6, <1>7, <1>8, <1>9, <1>10 DEF Reactor

\* Mail that loses its head, or all of it on one channel, is mail.
LEMMA MailType ==
  ASSUME Subscriptions!SubTypeOK, NEW c \in Ws, NEW s \in SN \cup {Nil}
  PROVE  /\ [inbox EXCEPT ![c] = Subscriptions!Without(inbox[c], s)]
              \in [Ws -> [SN -> Seq(1..MaxPublish)]]
         /\ s \in SN /\ inbox[c][s] # <<>>
              => /\ Head(inbox[c][s]) \in 1..MaxPublish
                 /\ [inbox EXCEPT ![c][s] = Tail(inbox[c][s])]
                      \in [Ws -> [SN -> Seq(1..MaxPublish)]]
<1>0. inbox \in [Ws -> [SN -> Seq(1..MaxPublish)]]
  BY DEF Subscriptions!SubTypeOK
<1>1. <<>> \in Seq(1..MaxPublish)
  OBVIOUS
<1>2. Subscriptions!Without(inbox[c], s) \in [SN -> Seq(1..MaxPublish)]
  BY <1>0, <1>1 DEF Subscriptions!Without
<1>3. ASSUME s \in SN, inbox[c][s] # <<>>
      PROVE  /\ Head(inbox[c][s]) \in 1..MaxPublish
             /\ [inbox[c] EXCEPT ![s] = Tail(inbox[c][s])]
                  \in [SN -> Seq(1..MaxPublish)]
  <2>1. inbox[c][s] \in Seq(1..MaxPublish)
    BY <1>0, <1>3
  <2>2. /\ Head(inbox[c][s]) \in 1..MaxPublish
        /\ Tail(inbox[c][s]) \in Seq(1..MaxPublish)
    BY <1>3, <2>1, HeadTailProperties
  <2> QED
    BY <1>0, <2>2
<1> QED
  BY <1>0, <1>2, <1>3

\* The subscription threads keep the types.
LEMMA SubscribersType ==
  ASSUME TypeOK, NEW c \in Ws, NEW s \in SN \cup {Nil}, Subscribers(c, s)
  PROVE  TypeOK'
<1> USE TypeParts, TypeStutter, MailType
<1>1. CASE s # Nil /\ SubscriberForwards(c, s) /\ UNCHANGED notReactor
  <2>1. s \in SN /\ inbox[c][s] # <<>>
    BY <1>1 DEF SubscriberForwards, Subscriptions!Forward
  <2>2. Head(inbox[c][s]) \in 1..MaxPublish
    BY <2>1 DEF HandlerTypeOK
  <2>3. <<Nil, Head(inbox[c][s])>> \in Command
    BY <2>2, HandlerAssumption DEF Command, HandlerAssumption
  <2>4. SocketTypeOK'
    BY <1>1, <2>3, WsSendType DEF SubscriberForwards, WsSend, SocketTypeOK
  <2>5. Subscriptions!SubTypeOK'
    BY <1>1, <2>1, <2>2 DEF SubscriberForwards, HandlerTypeOK,
                      Subscriptions!Forward, Subscriptions!SubTypeOK
  <2>6. HandlerTypeOK'
    BY <1>1, <2>5 DEF SubscriberForwards, HandlerTypeOK
  <2> QED
    BY <1>1, <2>4, <2>6 DEF SubscriberForwards, notReactor
<1>2. CASE s # Nil /\ SubscriberDiscards(c, s) /\ UNCHANGED notReactor
  <2>1. s \in SN /\ inbox[c][s] # <<>>
    BY <1>2 DEF SubscriberDiscards, Subscriptions!Discard
  <2>2. Subscriptions!SubTypeOK'
    BY <1>2, <2>1 DEF SubscriberDiscards, HandlerTypeOK,
                      Subscriptions!Discard, Subscriptions!SubTypeOK
  <2>3. HandlerTypeOK'
    BY <1>2, <2>2 DEF SubscriberDiscards, HandlerTypeOK
  <2> QED
    BY <1>2, <2>3 DEF SubscriberDiscards, notReactor, configVars
<1>3. CASE s # Nil /\ SubscriberReconnects(c, s) /\ UNCHANGED notReactor
  <2>1. RegistryTypeOK'
    BY <1>3 DEF SubscriberReconnects, Fault, RegistryTypeOK
  <2>2. Subscriptions!SubTypeOK'
    BY <1>3 DEF SubscriberReconnects, HandlerTypeOK,
                Subscriptions!Reconnect, Subscriptions!SubTypeOK
  <2>3. HandlerTypeOK'
    BY <1>3, <2>2 DEF SubscriberReconnects, HandlerTypeOK
  <2> QED
    BY <1>3, <2>1, <2>3 DEF SubscriberReconnects, notReactor
<1>4. CASE SubscriberEnds(c, s) /\ UNCHANGED notReactor
  <2>1. RegistryTypeOK'
    BY <1>4 DEF SubscriberEnds, Fault, RegistryTypeOK
  <2>2. Subscriptions!SubTypeOK'
    BY <1>4 DEF SubscriberEnds, HandlerTypeOK,
                Subscriptions!End, Subscriptions!SubTypeOK
  <2>3. HandlerTypeOK'
    BY <1>4, <2>2 DEF SubscriberEnds, HandlerTypeOK
  <2> QED
    BY <1>4, <2>1, <2>3 DEF SubscriberEnds, notReactor
<1> QED
  BY <1>1, <1>2, <1>3, <1>4 DEF Subscribers

\* A published message keeps the types.
LEMMA PublisherType ==
  ASSUME TypeOK, Publisher
  PROVE  TypeOK'
<1> USE TypeParts, TypeStutter
<1>1. PICK m \in 1..MaxPublish, s \in SN :
        PublishCommand(m, s) /\ UNCHANGED notReactor
  BY DEF Publisher
<1>2. PICK receivers \in SUBSET {h \in Ws : s \in subscribed_channels[h]} :
        inbox' = [h \in Ws |-> IF h \in receivers
                               THEN [inbox[h] EXCEPT ![s] = Append(@, m)]
                               ELSE inbox[h]]
  BY <1>1 DEF PublishCommand, Subscriptions!Publish
<1>3. inbox \in [Ws -> [SN -> Seq(1..MaxPublish)]]
  BY DEF HandlerTypeOK, Subscriptions!SubTypeOK
<1>4. \A h \in Ws : [inbox[h] EXCEPT ![s] = Append(@, m)]
                      \in [SN -> Seq(1..MaxPublish)]
  BY <1>3
<1>5. inbox' \in [Ws -> [SN -> Seq(1..MaxPublish)]]
  BY <1>2, <1>3, <1>4
<1>6. Subscriptions!SubTypeOK'
  BY <1>1, <1>5 DEF PublishCommand, HandlerTypeOK, Subscriptions!Publish,
                    Subscriptions!SubTypeOK
<1>7. HandlerTypeOK'
  BY <1>1, <1>6 DEF PublishCommand, HandlerTypeOK
<1> QED
  BY <1>1, <1>7 DEF PublishCommand, notReactor, configVars

-----------------------------------------------------------------------------
\* The walk through the items of a request stays within its body.
ProgressOK ==
  \A r \in Requests :
    /\ http[r] = "new" => item[r] = 1
    /\ http[r] \notin {"new", "done", "lost"}
         => post[r] # Nil /\ item[r] \in 1..Len(args[r])

\* The variables of the requests, one by one.
LEMMA ServerParts ==
  /\ ServerTypeOK <=>
       /\ http \in [Requests -> {"new", "lookup", "send", "blpop", "blocked",
                                 "done", "lost"}]
       /\ post \in [Requests -> Posts \cup {Nil}]
       /\ args \in [Requests -> Seq(Nat)]
       /\ item \in [Requests -> Nat \ {0}]
       /\ conn \in [Requests -> Ws \cup {Nil}]
       /\ responses \in [Requests -> Seq(Message \cup Failure)]
       /\ status \in [Requests -> {0, 200, 400, 500}]
       /\ ProgressOK
  /\ ServerTypeOK' <=>
       /\ http' \in [Requests -> {"new", "lookup", "send", "blpop", "blocked",
                                  "done", "lost"}]
       /\ post' \in [Requests -> Posts \cup {Nil}]
       /\ args' \in [Requests -> Seq(Nat)]
       /\ item' \in [Requests -> Nat \ {0}]
       /\ conn' \in [Requests -> Ws \cup {Nil}]
       /\ responses' \in [Requests -> Seq(Message \cup Failure)]
       /\ status' \in [Requests -> {0, 200, 400, 500}]
       /\ ProgressOK'
BY DEF ServerTypeOK, ProgressOK

\* The items of a request that is not answered at once are at least one.
LEMMA ItemsType ==
  ASSUME NEW p \in Posts, EarlyStatus(p) = 0
  PROVE  Items(p) \in Seq(Nat) /\ Len(Items(p)) \in Nat \ {0}
<1>1. p.args \in Seq(Nat)
  BY ServerAssumption DEF ServerAssumption, Post
<1>2. CASE p.command \in commands_without_body
  <2>1. Items(p) = <<0>>
    BY <1>2 DEF Items
  <2> QED
    BY <2>1
<1>3. CASE p.command \notin commands_without_body
  <2>1. p.args # <<>>
    BY <1>3 DEF EarlyStatus
  <2>2. Items(p) = p.args
    BY <1>3 DEF Items
  <2> QED
    BY <1>1, <2>1, <2>2, EmptySeq, LenProperties
<1> QED
  BY <1>2, <1>3

\* A request is answered at once with 400 or 500.
LEMMA EarlyStatusType ==
  ASSUME NEW p \in Posts
  PROVE  EarlyStatus(p) \in {0, 400, 500}
BY DEF EarlyStatus

\* An arriving request keeps the types.
LEMMA PostChatType ==
  ASSUME TypeOK, NEW r \in Requests, NEW p \in Posts, PostChat(r, p),
         UNCHANGED notPool
  PROVE  TypeOK'
<1> USE TypeParts, TypeStutter, ServerParts
<1>1. CASE EarlyStatus(p) = 0
  <2>1. Items(p) \in Seq(Nat) /\ Len(Items(p)) \in Nat \ {0}
    BY <1>1, ItemsType
  <2>2. /\ args' = [args EXCEPT ![r] = Items(p)]
        /\ http' = [http EXCEPT ![r] = "lookup"]
        /\ post' = [post EXCEPT ![r] = p]
        /\ UNCHANGED <<item, conn, responses, status>>
        /\ http[r] = "new"
    BY <1>1 DEF PostChat
  <2>3. p # Nil
    BY ServerAssumption DEF ServerAssumption
  <2>4. ProgressOK'
    BY <2>1, <2>2, <2>3 DEF ProgressOK
  <2>5. ServerTypeOK'
    BY <2>1, <2>2, <2>4
  <2> QED
    BY <2>5 DEF PostChat, notPool, configVars
<1>2. CASE EarlyStatus(p) # 0
  <2>1. /\ status' = [status EXCEPT ![r] = EarlyStatus(p)]
        /\ http' = [http EXCEPT ![r] = "done"]
        /\ post' = [post EXCEPT ![r] = p]
        /\ UNCHANGED <<args, item, conn, responses>>
    BY <1>2 DEF PostChat
  <2>2. ProgressOK'
    BY <2>1 DEF ProgressOK
  <2>3. ServerTypeOK'
    BY <2>1, <2>2, EarlyStatusType
  <2> QED
    BY <2>3 DEF PostChat, notPool, configVars
<1> QED
  BY <1>1, <1>2

\* Going on to the next item, or to the answer, keeps the types.
LEMMA NextItemType ==
  ASSUME ServerTypeOK, NEW r \in Requests, NEW result \in Message \cup Failure,
         http[r] \notin {"new", "done", "lost"}, NextItem(r, result), UNCHANGED conn
  PROVE  ServerTypeOK'
<1> USE ServerParts
<1>1. responses' \in [Requests -> Seq(Message \cup Failure)]
  BY DEF NextItem
<1>2. item[r] \in 1..Len(args[r]) /\ Len(args[r]) \in Nat
  BY LenProperties DEF ProgressOK
<1>3. CASE item[r] < Len(args[r])
  <2>1. /\ item' = [item EXCEPT ![r] = item[r] + 1]
        /\ http' = [http EXCEPT ![r] = "lookup"]
        /\ UNCHANGED <<post, args, status>>
    BY <1>3 DEF NextItem
  <2>2. ProgressOK'
    BY <1>2, <1>3, <2>1, SMTT(30) DEF ProgressOK
  <2> QED
    BY <1>1, <2>1, <2>2
<1>4. CASE ~(item[r] < Len(args[r]))
  <2>1. /\ status' = [status EXCEPT ![r] = 200]
        /\ http' = [http EXCEPT ![r] = "done"]
        /\ UNCHANGED <<post, args, item>>
    BY <1>4 DEF NextItem
  <2>2. ProgressOK'
    BY <2>1 DEF ProgressOK
  <2> QED
    BY <1>1, <2>1, <2>2
<1> QED
  BY <1>3, <1>4

\* A request that fails keeps the types.
LEMMA RaisesType ==
  ASSUME ServerTypeOK, NEW r \in Requests, Raises(r)
  PROVE  ServerTypeOK'
<1> USE ServerParts
<1>1. ProgressOK'
  BY DEF ProgressOK, Raises
<1> QED
  BY <1>1 DEF Raises

\* A request that only moves on within an item keeps the types.
LEMMA MoveType ==
  ASSUME ServerTypeOK, NEW r \in Requests, http[r] \notin {"new", "done", "lost"},
         NEW label \in {"send", "blpop", "blocked"},
         http' = [http EXCEPT ![r] = label],
         conn' \in [Requests -> Ws \cup {Nil}],
         UNCHANGED <<post, args, item, responses, status>>
  PROVE  ServerTypeOK'
<1> USE ServerParts
<1>1. ProgressOK'
  BY DEF ProgressOK
<1> QED
  BY <1>1

\* The requests name a reader.
LEMMA PostChannel ==
  ASSUME ServerTypeOK, NEW r \in Requests, post[r] # Nil
  PROVE  post[r] \in Posts /\ post[r].channel \in SN
<1>1. post[r] \in Posts
  BY ServerParts
<1> QED
  BY <1>1, ServerAssumption DEF ServerAssumption, Post

\* The threads of the pool keep the types.
LEMMA PoolType ==
  ASSUME TypeOK, Pool
  PROVE  TypeOK'
<1> USE TypeParts, TypeStutter
<1>1. ASSUME NEW c \in Ws, GetChat(c), UNCHANGED notPool
      PROVE  TypeOK'
  <2>1. SocketTypeOK'
    BY <1>1 DEF GetChat, SocketTypeOK
  <2> QED
    BY <1>1, <2>1 DEF GetChat, notPool
<1>2. ASSUME NEW r \in Requests, NEW p \in Posts, PostChat(r, p),
             UNCHANGED notPool
      PROVE  TypeOK'
  BY <1>2, PostChatType
<1>3. ASSUME NEW r \in Requests, Lookup(r), UNCHANGED notPool
      PROVE  TypeOK'
  <2>1. http[r] = "lookup" /\ post[r] # Nil
    BY <1>3, ServerParts DEF Lookup, ProgressOK
  <2>2. post[r].channel \in SN
    BY <2>1, PostChannel
  <2>3. CASE connections[post[r].channel] = Nil
    <3>1. Fail("not_connected") \in Failure
      BY DEF Fail, Failure
    <3>2. NextItem(r, Fail("not_connected")) /\ UNCHANGED conn
      BY <1>3, <2>3 DEF Lookup
    <3>3. ServerTypeOK'
      BY <2>1, <3>1, <3>2, NextItemType
    <3> QED
      BY <1>3, <3>3 DEF Lookup, notPool, configVars
  <2>4. CASE connections[post[r].channel] # Nil
    <3>1. /\ conn' = [conn EXCEPT ![r] = connections[post[r].channel]]
          /\ http' = [http EXCEPT ![r] = "send"]
          /\ UNCHANGED <<post, args, item, responses, status>>
      BY <1>3, <2>4 DEF Lookup
    <3>2. connections[post[r].channel] \in Ws \cup {Nil}
      BY <2>2 DEF RegistryTypeOK
    <3>3. conn \in [Requests -> Ws \cup {Nil}]
      BY ServerParts
    <3>4. conn' \in [Requests -> Ws \cup {Nil}]
      BY <3>1, <3>2, <3>3
    <3>5. ServerTypeOK'
      BY <2>1, <3>1, <3>4, MoveType
    <3> QED
      BY <1>3, <3>5 DEF Lookup, notPool, configVars
  <2> QED
    BY <2>3, <2>4
<1>4. ASSUME NEW r \in Requests, SendCommand(r), UNCHANGED notPool
      PROVE  TypeOK'
  <2>1. http[r] = "send"
    BY <1>4 DEF SendCommand
  <2>2. CASE Raises(r) /\ UNCHANGED socketVars
    BY <1>4, <2>2, RaisesType DEF SendCommand, notPool
  <2>3. CASE /\ http' = [http EXCEPT ![r] = "blpop"]
             /\ WsSend(conn[r], <<r, item[r]>>) \/ UNCHANGED socketVars
             /\ UNCHANGED <<post, args, item, conn, responses, status>>
    <3>1. <<r, item[r]>> \in Command
      BY ServerParts DEF Command
    <3>2. SocketTypeOK'
      BY <2>3, <3>1, WsSendType DEF WsSend, SocketTypeOK
    <3>3. conn' \in [Requests -> Ws \cup {Nil}]
      BY <2>3, ServerParts
    <3>4. ServerTypeOK'
      BY <2>1, <2>3, <3>3, MoveType
    <3> QED
      BY <1>4, <3>2, <3>4 DEF SendCommand, notPool
  <2> QED
    BY <1>4, <2>2, <2>3 DEF SendCommand
<1>5. ASSUME NEW r \in Requests, Blpop(r), UNCHANGED notPool
      PROVE  TypeOK'
  <2>1. http[r] = "blpop" /\ post[r] # Nil
    BY <1>5, ServerParts DEF Blpop, ProgressOK
  <2>2. RedisTypeOK'
    BY <1>5, <2>1, PostChannel, BLPOPType DEF Blpop
  <2>3. conn' \in [Requests -> Ws \cup {Nil}]
    BY <1>5, ServerParts DEF Blpop
  <2>4. ServerTypeOK'
    BY <1>5, <2>1, <2>3, MoveType DEF Blpop
  <2> QED
    BY <1>5, <2>2, <2>4 DEF Blpop, notPool
<1>6. ASSUME NEW r \in Requests, Response(r), UNCHANGED notPool
      PROVE  TypeOK'
  <2>1. RedisTypeOK'
    BY <1>6 DEF Response, RedisTypeOK
  <2>2. reply[r] \in Message
    BY <1>6 DEF Response, RedisTypeOK
  <2>3. ServerTypeOK'
    BY <1>6, <2>2, NextItemType DEF Response
  <2> QED
    BY <1>6, <2>1, <2>3 DEF Response, notPool
<1>7. ASSUME NEW r \in Requests, Timeout(r), UNCHANGED notPool
      PROVE  TypeOK'
  <2>1. http[r] = "blocked" /\ post[r] # Nil
    BY <1>7, ServerParts DEF Timeout, ProgressOK
  <2>2. RedisTypeOK'
    BY <1>7, <2>1, PostChannel, UnblockType DEF Timeout
  <2>3. Fail("timeout") \in Failure
    BY DEF Fail, Failure
  <2>4. ServerTypeOK'
    BY <1>7, <2>1, <2>3, NextItemType DEF Timeout
  <2> QED
    BY <1>7, <2>2, <2>4 DEF Timeout, notPool
<1>8. ASSUME NEW r \in Requests, BlpopRaises(r), UNCHANGED notPool
      PROVE  TypeOK'
  <2>1. http[r] \in {"blpop", "blocked"} /\ post[r] # Nil
    BY <1>8, ServerParts, ZenonT(30) DEF BlpopRaises, ProgressOK
  <2>2. RedisTypeOK'
    <3>1. CASE UNCHANGED redisVars
      BY <3>1 DEF redisVars, RedisTypeOK
    <3>2. CASE Unblock(r, post[r].channel)
      BY <2>1, <3>2, PostChannel, UnblockType
    <3>3. CASE reply' = [reply EXCEPT ![r] = Nil] /\ UNCHANGED <<lists, blocked>>
      BY <3>3 DEF RedisTypeOK
    <3> QED
      BY <1>8, <3>1, <3>2, <3>3 DEF BlpopRaises
  <2>3. RegistryTypeOK'
    BY <1>8 DEF BlpopRaises, Fault, RegistryTypeOK
  <2>4. ServerTypeOK'
    BY <1>8, RaisesType DEF BlpopRaises
  <2> QED
    BY <1>8, <2>2, <2>3, <2>4 DEF BlpopRaises, notPool
<1> QED
  BY <1>1, <1>2, <1>3, <1>4, <1>5, <1>6, <1>7, <1>8 DEF Pool

\* What a restart finds is well typed.
LEMMA CrashType ==
  ASSUME TypeOK, Crash
  PROVE  TypeOK'
<1> USE TypeParts, TypeStutter
<1>1. RegistryTypeOK' /\ SocketTypeOK' /\ RedisTypeOK'
  BY DEF Crash, RegistryTypeOK, SocketTypeOK, RedisTypeOK
<1>2. EnvTypeOK'
  BY DEF Crash, EnvTypeOK
<1>3. Subscriptions!SubTypeOK'
  BY DEF Crash, HandlerTypeOK, Subscriptions!SubTypeOK, Subscriptions!NoMail
<1>4. HandlerTypeOK'
  BY <1>3 DEF Crash, HandlerTypeOK, Idle
<1>5. ProgressOK'
  BY ServerParts DEF Crash, ProgressOK, Active
<1>6. ServerTypeOK'
  BY <1>5, ServerParts DEF Crash, Active
<1> QED
  BY <1>1, <1>2, <1>4, <1>6

\* The initial state is well typed.
LEMMA InitType == Init => TypeOK
<1> SUFFICES ASSUME Init PROVE TypeOK
  OBVIOUS
<1>1. ConfigTypeOK
  BY DEF Init, ConfigInit, ConfigTypeOK
<1>2. HandlerTypeOK
  <2>1. Subscriptions!SubTypeOK
    BY DEF Init, HandlerInit, Subscriptions!SubInit, Subscriptions!SubTypeOK,
           Subscriptions!NoMail
  <2> QED
    BY <2>1 DEF Init, HandlerInit, HandlerTypeOK, Idle
<1>3. ServerTypeOK
  BY DEF Init, ServerInit, ServerTypeOK
<1> QED
  BY <1>1, <1>2, <1>3 DEF Init, TypeOK

\* Every step of the gateway keeps the types.
LEMMA NextType ==
  ASSUME TypeOK, [Next]_vars
  PROVE  TypeOK'
<1>1. CASE UNCHANGED vars
  BY <1>1, TypeParts, TypeStutter DEF vars, configVars
<1>2. CASE Next
  BY <1>2, ReadersType, ReactorType, SubscribersType, PublisherType, PoolType,
     CrashType DEF Next
<1> QED
  BY <1>1, <1>2

\* The gateway's state is well typed in every reachable state: no callback
\* works on a socket or serial number that does not exist, and no request walks
\* past the end of its body.
THEOREM TypeCorrect == Spec => []TypeOK
BY InitType, NextType, PTL DEF Spec
=============================================================================
