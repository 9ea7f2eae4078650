---------------------------- MODULE CommandProofs ---------------------------
(***************************************************************************)
(* What becomes of a command: the reader carries out the commands of a     *)
(* POST in the order of its items and each once, and a published command   *)
(* at most once, although sockets come and go, requests give up on a       *)
(* reply, old subscriptions live on and the process is restarted.          *)
(***************************************************************************)
EXTENDS MailboxProofs

-----------------------------------------------------------------------------
(* How the commands on the wire change. *)

\* A step changes no command on the wire, or it is one of these.
LEMMA WireCases ==
  ASSUME TypeOK, [Next]_vars
  PROVE  \/ UNCHANGED <<down, executed>>
         \/ \E c \in Ws : Reply(c)
         \/ /\ UNCHANGED executed
            /\ \/ \E c \in Ws, s \in SN : SubscriberForwards(c, s)
               \/ \E r \in Requests : SendCommand(r)
               \/ \E c \in Ws : OnClose(c)
         \/ Crash
<1>1. CASE UNCHANGED vars
  BY <1>1 DEF vars, configVars, socketVars, envVars
<1>2. ASSUME NEW c \in Ws, Readers(c), ~Reply(c)
      PROVE  UNCHANGED <<down, executed>>
  BY <1>2 DEF Readers, Dial, SendFrame
<1>3. ASSUME NEW c \in Ws, NEW s \in SN \cup {Nil}, Subscribers(c, s),
             ~SubscriberForwards(c, s)
      PROVE  UNCHANGED <<down, executed>>
  BY <1>3 DEF Subscribers, SubscriberDiscards, SubscriberReconnects,
              SubscriberEnds, configVars, socketVars, notReactor, envVars
<1>4. ASSUME NEW c \in Ws, NEW s \in SN \cup {Nil}, Subscribers(c, s),
             SubscriberForwards(c, s)
      PROVE  UNCHANGED executed /\ (s \in SN \/ UNCHANGED down)
  BY <1>4 DEF Subscribers, SubscriberDiscards, SubscriberReconnects,
              SubscriberEnds, configVars, socketVars, notReactor, envVars
<1>5. CASE Publisher
  BY <1>5, PublisherFrame DEF configVars, socketVars, envVars
<1>6. CASE Pool
  <2>1. UNCHANGED executed
    BY <1>6, PoolFrame DEF envVars
  <2>2. UNCHANGED down \/ \E r \in Requests : SendCommand(r)
    BY <1>6 DEF Pool, GetChat, PostChat, Lookup, Blpop, Response, Timeout,
                BlpopRaises, configVars, socketVars
  <2> QED
    BY <2>1, <2>2
<1>7. CASE Reactor
  <2>1. UNCHANGED executed
    BY <1>7, ReactorFrame DEF envVars
  <2>2. UNCHANGED down \/ \E c \in Ws : OnClose(c)
    BY <1>7 DEF Reactor, OnOpen, OnMessage, PushResponse, DeleteResponses,
       Register, HandleReg, PublishLog, StartSubscriber, RedisCommandRaises,
       configVars, socketVars
  <2> QED
    BY <2>1, <2>2
<1> QED
  BY <1>1, <1>2, <1>3, <1>4, <1>5, <1>6, <1>7 DEF Next

-----------------------------------------------------------------------------
(* A socket that nobody dialled yet. *)

\* It has no subscription, nor anything on its way.
Untouched ==
  \A c \in Ws : socket[c] = "none"
    => /\ down[c] = <<>>
       /\ subscribed_channels[c] = {}
       /\ \A s \in SN : inbox[c][s] = <<>>

\* A step that touches only sockets somebody dialled.
LEMMA UntouchedStep ==
  ASSUME Untouched,
         \A c \in Ws : socket'[c] = "none" =>
           /\ socket[c] = "none"
           /\ \/ down'[c] = down[c] \/ down'[c] = <<>>
           /\ subscribed_channels'[c] \subseteq subscribed_channels[c]
           /\ \A s \in SN : inbox'[c][s] = inbox[c][s] \/ inbox'[c][s] = <<>>
  PROVE  Untouched'
BY DEF Untouched

\* A message published reaches no such socket.
LEMMA UntouchedPublisher ==
  ASSUME TypeOK, Untouched, Publisher
  PROVE  Untouched'
<1>1. UNCHANGED <<socket, down, subscribed_channels>>
  BY PublisherFrame DEF configVars, socketVars
<1>2. PICK m \in 1..MaxPublish, s \in SN : PublishCommand(m, s)
  BY DEF Publisher
<1>3. PICK receivers \in SUBSET {h \in Ws : s \in subscribed_channels[h]} :
        inbox' = [h \in Ws |-> IF h \in receivers
                               THEN [inbox[h] EXCEPT ![s] = Append(@, m)]
                               ELSE inbox[h]]
  BY <1>2 DEF PublishCommand, Subscriptions!Publish
<1>4. ASSUME NEW c \in Ws, socket[c] = "none"
      PROVE  inbox'[c] = inbox[c]
  BY <1>3, <1>4 DEF Untouched
<1> QED
  BY <1>1, <1>4 DEF Untouched

\* The subscription threads of such a socket do not exist.
LEMMA UntouchedSubscribers ==
  ASSUME TypeOK, Untouched, NEW c \in Ws, NEW s \in SN \cup {Nil}, Subscribers(c, s)
  PROVE  Untouched'
<1>1. UNCHANGED socket
  BY SubscribersFrame
<1>2. \A d \in Ws : d # c => /\ down'[d] = down[d] /\ inbox'[d] = inbox[d]
                             /\ subscribed_channels'[d] = subscribed_channels[d]
  <2>1. /\ inbox \in [Ws -> [SN -> Seq(1..MaxPublish)]]
        /\ subscribed_channels \in [Ws -> SUBSET (SN \cup {Nil})]
        /\ down \in [Ws -> Seq(Command)]
    BY TypeParts DEF HandlerTypeOK, Subscriptions!SubTypeOK, SocketTypeOK
  <2> QED
    BY <2>1 DEF Subscribers, SubscriberForwards, SubscriberDiscards,
       SubscriberReconnects, SubscriberEnds, Subscriptions!Forward,
       Subscriptions!Discard, Subscriptions!Reconnect, Subscriptions!End,
       WsSend, configVars, socketVars
<1>3. \/ s \in subscribed_channels[c]
      \/ s \in SN /\ inbox[c][s] # <<>>
  BY DEF Subscribers, SubscriberForwards, SubscriberDiscards,
     SubscriberReconnects, SubscriberEnds, Subscriptions!Forward,
     Subscriptions!Discard, Subscriptions!Reconnect, Subscriptions!End
<1>4. socket[c] # "none"
  BY <1>3 DEF Untouched
<1> QED
  BY <1>1, <1>2, <1>4, UntouchedStep

\* Every step keeps it that way.
LEMMA UntouchedNext ==
  ASSUME TypeOK, RegistryInv, Untouched, [Next]_vars
  PROVE  Untouched'
<1>0. /\ socket \in [Ws -> {"none", "connecting", "accepted", "open", "closed"}]
      /\ down \in [Ws -> Seq(Command)]
      /\ subscribed_channels \in [Ws -> SUBSET (SN \cup {Nil})]
  BY TypeParts DEF HandlerTypeOK, Subscriptions!SubTypeOK, SocketTypeOK
<1>1. CASE UNCHANGED <<socket, down, subscribed_channels, inbox>>
  BY <1>1 DEF Untouched
<1>2. ASSUME NEW c \in Ws, Readers(c)
      PROVE  Untouched'
  <2>1. UNCHANGED <<subscribed_channels, inbox>>
    BY <1>2, ReadersFrame DEF handlerVars, subVars
  <2>2. \A d \in Ws : socket'[d] = "none" => socket[d] = "none" /\ down'[d] = down[d]
    BY <1>0, <1>2 DEF Readers, Dial, Reply, SendFrame
  <2> QED
    BY <2>1, <2>2 DEF Untouched
<1>3. CASE Pool
  <2>1. UNCHANGED <<subscribed_channels, inbox>>
    BY <1>3, PoolFrame DEF handlerVars, subVars
  <2>2. \/ UNCHANGED <<socket, down>>
        \/ \E c \in Ws : GetChat(c)
        \/ \E r \in Requests : SendCommand(r)
    BY <1>3 DEF Pool, PostChat, Lookup, Blpop, Response, Timeout, BlpopRaises,
                configVars, socketVars
  <2>3. ASSUME NEW c \in Ws, GetChat(c)
        PROVE  \A d \in Ws : socket'[d] = "none" => socket[d] = "none" /\ down'[d] = down[d]
    BY <1>0, <2>3 DEF GetChat
  <2>4. ASSUME NEW r \in Requests, SendCommand(r)
        PROVE  \A d \in Ws : socket'[d] = "none" => socket[d] = "none" /\ down'[d] = down[d]
    BY <1>0, <2>4 DEF SendCommand, WsSend, socketVars
  <2> QED
    BY <2>1, <2>2, <2>3, <2>4 DEF Untouched
<1>4. CASE Crash
  <2>1. /\ \A c \in Ws : /\ socket'[c] = "none" => socket[c] = "none"
                         /\ down'[c] = <<>> /\ subscribed_channels'[c] = {}
        /\ \A c \in Ws : \A s \in SN : inbox'[c][s] = <<>>
    BY <1>4 DEF Crash, Subscriptions!NoMail
  <2> QED
    BY <2>1 DEF Untouched
<1>5. CASE Reactor
  <2>1. UNCHANGED inbox
    BY <1>5, ReactorFrame
  <2>2. \/ UNCHANGED <<socket, down, subscribed_channels>>
        \/ StartSubscriber
        \/ \E c \in Ws : OnOpen(c) \/ OnClose(c)
    BY <1>5 DEF Reactor, OnMessage, PushResponse, DeleteResponses, Register,
       HandleReg, PublishLog, RedisCommandRaises, configVars, socketVars, subVars
  <2>3. ASSUME NEW c \in Ws, OnOpen(c) \/ OnClose(c)
        PROVE  /\ UNCHANGED subscribed_channels
               /\ \A d \in Ws : socket'[d] = "none"
                    => socket[d] = "none" /\ down'[d] = down[d]
    BY <1>0, <2>3 DEF OnOpen, OnClose, handlerVars, subVars
  <2>4. CASE StartSubscriber
    <3>1. /\ reactor.pc # "idle" /\ UNCHANGED <<socket, down>>
          /\ subscribed_channels' = [subscribed_channels EXCEPT
                                       ![reactor.ws] = @ \cup {reactor.msg.sn}]
      BY <2>4 DEF StartSubscriber, Subscriptions!Subscribe, configVars, socketVars
    <3>2. socket[reactor.ws] = "open"
      BY <3>1 DEF RegistryInv, CallbackOnOpenSocket
    <3>3. \A d \in Ws : socket[d] = "none" => subscribed_channels'[d] = subscribed_channels[d]
      BY <1>0, <3>1, <3>2
    <3> QED
      BY <2>1, <3>1, <3>3 DEF Untouched
  <2> QED
    BY <1>1, <2>1, <2>2, <2>3, <2>4 DEF Untouched
<1> QED
  BY <1>1, <1>2, <1>3, <1>4, <1>5, UntouchedPublisher, UntouchedSubscribers
  DEF Next, vars, configVars, socketVars, handlerVars, subVars

\* It is so in every reachable state.
LEMMA UntouchedAlways == Spec => []Untouched
<1>1. Init => Untouched
  BY DEF Init, ConfigInit, HandlerInit, Subscriptions!SubInit,
         Subscriptions!NoMail, Untouched
<1> QED
  BY <1>1, UntouchedNext, RegistryAlways, TypeCorrect, PTL DEF Spec

-----------------------------------------------------------------------------
(* The walk of a request through its items. *)

\* What a step may do to a request: nothing, ...
Stays(r) ==
  /\ http'[r] = http[r] /\ post'[r] = post[r] /\ args'[r] = args[r]
  /\ item'[r] = item[r] /\ responses'[r] = responses[r] /\ status'[r] = status[r]

\* ... let it arrive, with items to go through or to be refused, ...
Arrives(r) ==
  /\ http[r] = "new" /\ post'[r] \in Posts
  /\ item'[r] = item[r] /\ responses'[r] = responses[r]
  /\ \/ http'[r] = "lookup" /\ Len(args'[r]) > 0 /\ status'[r] = status[r]
     \/ http'[r] = "done" /\ args'[r] = args[r] /\ status'[r] \in {400, 500}

\* ... take it one label further, ...
Moves(r) ==
  /\ \/ http[r] = "lookup" /\ http'[r] = "send"
     \/ http[r] = "send" /\ http'[r] = "blpop"
     \/ http[r] = "blpop" /\ http'[r] = "blocked"
  /\ post'[r] = post[r] /\ args'[r] = args[r] /\ item'[r] = item[r]
  /\ responses'[r] = responses[r] /\ status'[r] = status[r]

\* ... give its item a result: what Redis answered, or an error, ...
Returns(r, x) ==
  /\ \/ http[r] \in {"lookup", "blocked"} /\ x \in Failure
     \/ http[r] = "blocked" /\ x = reply[r] /\ x \in Message
  /\ post'[r] = post[r] /\ args'[r] = args[r]
  /\ responses'[r] = Append(responses[r], x)
  /\ IF item[r] < Len(args[r])
     THEN item'[r] = item[r] + 1 /\ http'[r] = "lookup" /\ status'[r] = status[r]
     ELSE item'[r] = item[r] /\ http'[r] = "done" /\ status'[r] = 200

\* ... or end it, by an exception or with the process.
Breaks(r) ==
  /\ http[r] \notin {"new", "done", "lost"}
  /\ post'[r] = post[r] /\ args'[r] = args[r] /\ item'[r] = item[r]
  /\ responses'[r] = responses[r]
  /\ \/ http'[r] = "done" /\ status'[r] = 500
     \/ http'[r] = "lost" /\ status'[r] = status[r]

WalkVars == <<http, post, args, item, responses, status>>

\* The next item of a request, and what a step of its own does to the others.
LEMMA ReturnsItem ==
  ASSUME TypeOK, NEW r \in Requests, NEW x \in Message \cup Failure,
         NextItem(r, x),
         \/ http[r] \in {"lookup", "blocked"} /\ x \in Failure
         \/ http[r] = "blocked" /\ x = reply[r] /\ x \in Message
  PROVE  Returns(r, x) /\ \A q \in Requests \ {r} : Stays(q)
<1>0. /\ http \in [Requests -> {"new", "lookup", "send", "blpop", "blocked", "done",
                                "lost"}]
      /\ item \in [Requests -> Nat \ {0}] /\ args \in [Requests -> Seq(Nat)]
      /\ status \in [Requests -> {0, 200, 400, 500}]
      /\ DOMAIN responses = Requests
  BY TypeParts, ServerParts
<1>1. /\ UNCHANGED <<post, args>>
      /\ responses'[r] = Append(responses[r], x)
      /\ \A q \in Requests \ {r} : responses'[q] = responses[q]
  BY <1>0 DEF NextItem
<1>2. CASE item[r] < Len(args[r])
  <2>1. /\ item' = [item EXCEPT ![r] = @ + 1]
        /\ http' = [http EXCEPT ![r] = "lookup"]
        /\ UNCHANGED status
    BY <1>2 DEF NextItem
  <2> QED
    BY <1>0, <1>1, <1>2, <2>1 DEF Returns, Stays
<1>3. CASE ~(item[r] < Len(args[r]))
  <2>1. /\ http' = [http EXCEPT ![r] = "done"]
        /\ status' = [status EXCEPT ![r] = 200]
        /\ UNCHANGED item
    BY <1>3 DEF NextItem
  <2> QED
    BY <1>0, <1>1, <1>3, <2>1 DEF Returns, Stays
<1> QED
  BY <1>2, <1>3

\* A step moves no request, or one, or is the end of the process.
LEMMA RequestCases ==
  ASSUME TypeOK, [Next]_vars
  PROVE  \/ UNCHANGED WalkVars
         \/ Crash
         \/ \E r \in Requests :
              /\ \/ Arrives(r) \/ Moves(r) \/ Breaks(r)
                 \/ \E x \in Message \cup Failure : Returns(r, x)
              /\ \A q \in Requests \ {r} : Stays(q)
<1> DEFINE Goal == \E r \in Requests :
                     /\ \/ Arrives(r) \/ Moves(r) \/ Breaks(r)
                        \/ \E x \in Message \cup Failure : Returns(r, x)
                     /\ \A q \in Requests \ {r} : Stays(q)
<1>0. /\ http \in [Requests -> {"new", "lookup", "send", "blpop", "blocked", "done",
                                "lost"}]
      /\ item \in [Requests -> Nat \ {0}] /\ args \in [Requests -> Seq(Nat)]
      /\ status \in [Requests -> {0, 200, 400, 500}]
      /\ post \in [Requests -> Posts \cup {Nil}]
      /\ reply \in [Requests -> Message \cup {Nil}]
  BY TypeParts, ServerParts DEF RedisTypeOK
<1>1. ASSUME NEW r \in Requests, NEW x \in Message \cup Failure, NextItem(r, x),
             \/ http[r] \in {"lookup", "blocked"} /\ x \in Failure
             \/ http[r] = "blocked" /\ x = reply[r] /\ x \in Message
      PROVE  Goal
  BY <1>1, ReturnsItem
<1>2. ASSUME NEW r \in Requests,
             UNCHANGED <<post, args, item, responses, status>>,
             \/ http[r] = "lookup" /\ http' = [http EXCEPT ![r] = "send"]
             \/ http[r] = "send" /\ http' = [http EXCEPT ![r] = "blpop"]
             \/ http[r] = "blpop" /\ http' = [http EXCEPT ![r] = "blocked"]
      PROVE  Goal
  <2>1. Moves(r)
    BY <1>0, <1>2 DEF Moves
  <2>2. \A q \in Requests \ {r} : Stays(q)
    BY <1>0, <1>2 DEF Stays
  <2> QED
    BY <2>1, <2>2
<1>3. ASSUME NEW r \in Requests, Raises(r), http[r] \in {"send", "blpop", "blocked"}
      PROVE  Goal
  <2>1. Breaks(r)
    BY <1>0, <1>3 DEF Raises, Breaks
  <2>2. \A q \in Requests \ {r} : Stays(q)
    BY <1>0, <1>3 DEF Raises, Stays
  <2> QED
    BY <2>1, <2>2
<1>4. ASSUME NEW r \in Requests, NEW p \in Posts, PostChat(r, p)
      PROVE  Goal
  <2>1. /\ post' = [post EXCEPT ![r] = p] /\ UNCHANGED <<item, responses>>
        /\ http[r] = "new"
    BY <1>4 DEF PostChat
  <2>2. CASE EarlyStatus(p) = 0
    <3>1. Len(Items(p)) > 0
      BY <2>2, ItemsType
    <3>2. /\ args' = [args EXCEPT ![r] = Items(p)]
          /\ http' = [http EXCEPT ![r] = "lookup"] /\ UNCHANGED status
      BY <1>4, <2>2 DEF PostChat
    <3> QED
      BY <1>0, <2>1, <3>1, <3>2 DEF Arrives, Stays
  <2>3. CASE EarlyStatus(p) # 0
    <3>1. EarlyStatus(p) \in {400, 500}
      BY <2>3, EarlyStatusType
    <3>2. /\ status' = [status EXCEPT ![r] = EarlyStatus(p)]
          /\ http' = [http EXCEPT ![r] = "done"] /\ UNCHANGED args
      BY <1>4, <2>3 DEF PostChat
    <3> QED
      BY <1>0, <2>1, <3>1, <3>2 DEF Arrives, Stays
  <2> QED
    BY <2>2, <2>3
<1> HIDE DEF Goal
<1>5. Fail("not_connected") \in Failure /\ Fail("timeout") \in Failure
  BY DEF Fail, Failure
<1>6. ASSUME NEW r \in Requests, Lookup(r)
      PROVE  Goal
  <2>1. CASE connections[post[r].channel] = Nil
    BY <1>1, <1>5, <1>6, <2>1 DEF Lookup
  <2>2. CASE connections[post[r].channel] # Nil
    <3>1. /\ http[r] = "lookup" /\ http' = [http EXCEPT ![r] = "send"]
          /\ UNCHANGED <<post, args, item, responses, status>>
      BY <1>6, <2>2 DEF Lookup
    <3> QED
      BY <1>2, <3>1
  <2> QED
    BY <2>1, <2>2
<1>7. ASSUME NEW r \in Requests, SendCommand(r)
      PROVE  Goal
  <2>1. CASE Raises(r)
    BY <1>3, <1>7, <2>1 DEF SendCommand
  <2>2. CASE ~Raises(r)
    <3>1. /\ http[r] = "send" /\ http' = [http EXCEPT ![r] = "blpop"]
          /\ UNCHANGED <<post, args, item, responses, status>>
      BY <1>7, <2>2 DEF SendCommand
    <3> QED
      BY <1>2, <3>1
  <2> QED
    BY <2>1, <2>2
<1>8. ASSUME NEW r \in Requests, Blpop(r)
      PROVE  Goal
  <2>1. /\ http[r] = "blpop" /\ http' = [http EXCEPT ![r] = "blocked"]
        /\ UNCHANGED <<post, args, item, responses, status>>
    BY <1>8 DEF Blpop
  <2> QED
    BY <1>2, <2>1
<1>9. ASSUME NEW r \in Requests, Response(r)
      PROVE  Goal
  <2>1. reply[r] \in Message /\ http[r] = "blocked" /\ NextItem(r, reply[r])
    BY <1>0, <1>9 DEF Response
  <2> QED
    BY <1>1, <2>1
<1>10. ASSUME NEW r \in Requests, Timeout(r)
       PROVE  Goal
  BY <1>1, <1>5, <1>10 DEF Timeout
<1>11. ASSUME NEW r \in Requests, BlpopRaises(r)
       PROVE  Goal
  BY <1>3, <1>11 DEF BlpopRaises
<1>12. CASE Pool
  <2>1. ASSUME NEW c \in Ws, GetChat(c)
        PROVE  UNCHANGED WalkVars
    BY <2>1 DEF GetChat, serverVars, WalkVars
  <2> QED
    BY <1>4, <1>6, <1>7, <1>8, <1>9, <1>10, <1>11, <1>12, <2>1 DEF Pool, Goal
<1>13. CASE UNCHANGED serverVars
  BY <1>13 DEF serverVars, WalkVars
<1>14. CASE Crash \/ UNCHANGED vars
  BY <1>13, <1>14 DEF vars
<1> QED
  BY <1>12, <1>13, <1>14, ReadersFrame, ReactorFrame, SubscribersFrame,
     PublisherFrame DEF Next

\* The end of the process, for one request.
LEMMA CrashBreaks ==
  ASSUME Crash, NEW r \in Requests
  PROVE  Stays(r) \/ Breaks(r)
<1>1. /\ UNCHANGED <<post, args, item, responses, status>>
      /\ http'[r] = IF http[r] \notin {"new", "done", "lost"} THEN "lost" ELSE http[r]
  BY DEF Crash, Active
<1> QED
  BY <1>1 DEF Stays, Breaks

\* Any step, for one request.
LEMMA RequestStepCases ==
  ASSUME TypeOK, [Next]_vars, NEW r \in Requests
  PROVE  \/ Stays(r) \/ Arrives(r) \/ Moves(r) \/ Breaks(r)
         \/ \E x \in Message \cup Failure : Returns(r, x)
<1>1. CASE UNCHANGED WalkVars
  BY <1>1 DEF WalkVars, Stays
<1>2. ASSUME NEW q \in Requests,
             \/ Arrives(q) \/ Moves(q) \/ Breaks(q)
             \/ \E x \in Message \cup Failure : Returns(q, x),
             \A p \in Requests \ {q} : Stays(p)
      PROVE  \/ Stays(r) \/ Arrives(r) \/ Moves(r) \/ Breaks(r)
             \/ \E x \in Message \cup Failure : Returns(r, x)
  <2>1. CASE r = q
    BY <1>2, <2>1
  <2>2. CASE r # q
    BY <1>2, <2>2
  <2> QED
    BY <2>1, <2>2
<1> QED
  BY <1>1, <1>2, RequestCases, CrashBreaks

\* A request under way has results for the items before the one in progress; one
\* that is answered with 200 has a result for every item.
Walk(r) ==
  /\ http[r] = "new" => responses[r] = <<>> /\ args[r] = <<>>
  /\ http[r] # "done" => item[r] = Len(responses[r]) + 1 /\ status[r] = 0
  /\ item[r] \in {Len(responses[r]), Len(responses[r]) + 1}
  /\ status[r] = 200 => Len(responses[r]) = Len(args[r])

WalkInv == \A r \in Requests : Walk(r)

\* Every step preserves the invariant.
LEMMA WalkNext ==
  ASSUME TypeOK, WalkInv, [Next]_vars
  PROVE  WalkInv'
<1>1. ASSUME NEW r \in Requests
      PROVE  Walk(r)'
  <2> DEFINE S == Message \cup Failure
  <2>0. /\ item[r] \in Nat \ {0} /\ responses[r] \in Seq(S) /\ Walk(r)
        /\ Len(args[r]) \in Nat
        /\ http[r] \notin {"new", "done", "lost"} => item[r] <= Len(args[r])
    BY TypeParts, ServerParts DEF ProgressOK, WalkInv
  <2>1. CASE Stays(r)
    BY <2>0, <2>1 DEF Stays, Walk
  <2>2. CASE Arrives(r)
    BY <2>0, <2>2 DEF Arrives, Walk
  <2>3. CASE Moves(r)
    BY <2>0, <2>3 DEF Moves, Walk
  <2>4. CASE Breaks(r)
    BY <2>0, <2>4 DEF Breaks, Walk
  <2>5. ASSUME NEW x \in S, Returns(r, x)
        PROVE  Walk(r)'
    <3> HIDE DEF S
    <3>1. responses'[r] = Append(responses[r], x)
      BY <2>5 DEF Returns
    <3>2. Len(responses'[r]) = Len(responses[r]) + 1
      BY <2>0, <2>5, <3>1
    <3>3. http[r] \in {"lookup", "blocked"} /\ args'[r] = args[r]
      BY <2>5 DEF Returns
    <3>4. /\ item[r] = Len(responses[r]) + 1 /\ status[r] = 0
          /\ item[r] <= Len(args[r]) /\ Len(responses[r]) \in Nat
      BY <2>0, <3>3 DEF Walk
    <3>5. CASE item[r] < Len(args[r])
      BY <2>5, <3>2, <3>3, <3>4, <3>5 DEF Returns, Walk
    <3>6. CASE ~(item[r] < Len(args[r]))
      <4>1. item[r] = Len(args[r])
        BY <2>0, <3>4, <3>6
      <4>2. item'[r] = item[r] /\ http'[r] = "done" /\ status'[r] = 200
        BY <2>5, <3>6 DEF Returns
      <4> QED
        BY <3>2, <3>3, <3>4, <4>1, <4>2 DEF Walk
    <3> QED
      BY <3>5, <3>6
  <2> QED
    BY <2>1, <2>2, <2>3, <2>4, <2>5, RequestStepCases
<1> QED
  BY <1>1 DEF WalkInv

\* The invariant holds in every reachable state.
LEMMA WalkAlways == Spec => []WalkInv
<1>1. Init => WalkInv
  <2> SUFFICES ASSUME Init, NEW r \in Requests PROVE Walk(r)
    BY DEF WalkInv
  <2>1. /\ http[r] = "new" /\ responses[r] = <<>> /\ args[r] = <<>> /\ item[r] = 1
        /\ status[r] = 0
    BY DEF Init, ServerInit
  <2> QED
    BY <2>1 DEF Walk
<1> QED
  BY <1>1, WalkNext, TypeCorrect, PTL DEF Spec

-----------------------------------------------------------------------------
(* No command ahead of its turn. *)

\* An item whose command may have been sent: the one in progress or an earlier.
SentItem(r, i) ==
  /\ http[r] # "new" /\ i \in 1..Len(args[r]) /\ i <= item[r]
  /\ http[r] \in {"lookup", "send"} => i < item[r]

SentOnWire ==
  \A c \in Ws : \A a \in Elements(down[c]) : a[1] # Nil => SentItem(a[1], a[2])

SentCarriedOut == \A r \in Requests : \A i \in Elements(executed[r]) : SentItem(r, i)

TurnInv == SentOnWire /\ SentCarriedOut

\* An item that was sent stays one.
LEMMA SentStays ==
  ASSUME TypeOK, [Next]_vars, NEW r \in Requests, NEW i, SentItem(r, i)
  PROVE  SentItem(r, i)'
<1>0. /\ item[r] \in Nat \ {0} /\ Len(args[r]) \in Nat /\ i \in Nat
  BY TypeParts, ServerParts DEF SentItem
<1>1. CASE Stays(r)
  BY <1>1 DEF Stays, SentItem
<1>2. CASE Arrives(r)
  BY <1>2 DEF Arrives, SentItem
<1>3. CASE Moves(r)
  BY <1>3 DEF Moves, SentItem
<1>4. CASE Breaks(r)
  BY <1>4 DEF Breaks, SentItem
<1>5. ASSUME NEW x, Returns(r, x)
      PROVE  SentItem(r, i)'
  <2>1. /\ args'[r] = args[r] /\ item'[r] \in {item[r], item[r] + 1}
        /\ http'[r] = "lookup" => item'[r] = item[r] + 1
        /\ http'[r] \in {"lookup", "done"}
    BY <1>5 DEF Returns
  <2> QED
    BY <1>0, <2>1 DEF SentItem
<1> QED
  BY <1>1, <1>2, <1>3, <1>4, <1>5, RequestStepCases

\* A step whose commands on the wire are old ones or have their turn, and that
\* carries out only what had its turn.
LEMMA TurnStep ==
  ASSUME TypeOK, [Next]_vars, TurnInv,
         \A c \in Ws : \A a \in Elements(down'[c]) :
           a[1] # Nil => a \in Elements(down[c]) \/ SentItem(a[1], a[2])',
         \A r \in Requests : \A i \in Elements(executed'[r]) :
           i \in Elements(executed[r]) \/ SentItem(r, i)
  PROVE  TurnInv'
<1>1. ASSUME NEW c \in Ws, NEW a \in Elements(down[c]), a[1] # Nil
      PROVE  SentItem(a[1], a[2])'
  <2>1. a \in Command
    BY TypeParts, ElementsType DEF SocketTypeOK
  <2>2. PICK r \in Requests, i \in Nat : r = a[1] /\ i = a[2]
    BY <1>1, <2>1 DEF Command
  <2>3. SentItem(r, i)
    BY <1>1, <2>2 DEF TurnInv, SentOnWire
  <2> QED
    BY <2>2, <2>3, SentStays
<1>2. SentOnWire'
  BY <1>1 DEF SentOnWire
<1>3. \A r \in Requests : \A i \in Elements(executed'[r]) : SentItem(r, i)
  BY DEF TurnInv, SentCarriedOut
<1>4. SentCarriedOut'
  BY <1>3, SentStays DEF SentCarriedOut
<1> QED
  BY <1>2, <1>4 DEF TurnInv

\* What ws.send adds to the wire.
Adds(c, b) ==
  \A d \in Ws :
    \/ down'[d] = down[d]
    \/ /\ d = c /\ socket[c] = "open" /\ down'[c] = Append(down[c], b)
       /\ Elements(down'[c]) = Elements(down[c]) \cup {b}

\* ws.send adds the command to the wire, if the socket is open.
LEMMA WireAdds ==
  ASSUME TypeOK, NEW c \in Ws, NEW b \in Command, WsSend(c, b)
  PROVE  Adds(c, b)
<1>1. down[c] \in Seq(Command) /\ down \in [Ws -> Seq(Command)]
  BY TypeParts DEF SocketTypeOK
<1>2. Elements(Append(down[c], b)) = Elements(down[c]) \cup {b}
  BY <1>1, AppendsOne
<1> QED
  BY <1>1, <1>2 DEF WsSend, Adds

\* The commands on the wire are the old ones and the added one.
LEMMA AddsOne ==
  ASSUME NEW c \in Ws, NEW b, Adds(c, b)
  PROVE  \A d \in Ws : \A a \in Elements(down'[d]) :
           a \in Elements(down[d]) \/ (d = c /\ a = b)
<1>1. ASSUME NEW d \in Ws, NEW a \in Elements(down'[d])
      PROVE  a \in Elements(down[d]) \/ (d = c /\ a = b)
  <2>1. CASE down'[d] = down[d]
    BY <1>1, <2>1
  <2>2. CASE d = c /\ Elements(down'[c]) = Elements(down[c]) \cup {b}
    BY <1>1, <2>2
  <2> QED
    BY <2>1, <2>2 DEF Adds
<1> QED
  BY <1>1

\* What a reader that carries out a command takes from the wire.
Takes(c, tag, k) ==
  /\ down[c] # <<>> /\ Head(down[c]) = <<tag, k>>
  /\ Elements(down[c]) = {<<tag, k>>} \cup Elements(Tail(down[c]))
  /\ \A d \in Ws : down'[d] = IF d = c THEN Tail(down[c]) ELSE down[d]
  /\ executed[tag] \in Seq(Nat)
  /\ executed'[tag] = Append(executed[tag], k)
  /\ Elements(executed'[tag]) = Elements(executed[tag]) \cup {k}
  /\ \A r \in (Requests \cup {Nil}) \ {tag} : executed'[r] = executed[r]

\* A reader carries out the first command on the wire.
LEMMA ReplyTakes ==
  ASSUME TypeOK, NEW c \in Ws, Reply(c)
  PROVE  \E tag \in Requests \cup {Nil}, k \in Nat : Takes(c, tag, k)
<1>1. /\ down[c] \in Seq(Command) /\ down[c] # <<>> /\ down \in [Ws -> Seq(Command)]
      /\ executed \in [Requests \cup {Nil} -> Seq(Nat)]
  BY TypeParts DEF SocketTypeOK, EnvTypeOK, Reply
<1>2. /\ Head(down[c]) \in Command
      /\ Elements(down[c]) = {Head(down[c])} \cup Elements(Tail(down[c]))
  BY <1>1, TakesHead
<1>3. PICK tag \in Requests \cup {Nil}, k \in Nat : Head(down[c]) = <<tag, k>>
  BY <1>2 DEF Command
<1>4. /\ executed' = [executed EXCEPT ![tag] = Append(executed[tag], k)]
      /\ down' = [down EXCEPT ![c] = Tail(down[c])]
  <2>1. Head(down[c])[1] = tag /\ Head(down[c])[2] = k
    BY <1>3
  <2> QED
    BY <2>1 DEF Reply
<1>5. Elements(Append(executed[tag], k)) = Elements(executed[tag]) \cup {k}
  BY <1>1, AppendsOne
<1>6. /\ \A d \in Ws : down'[d] = IF d = c THEN Tail(down[c]) ELSE down[d]
      /\ executed'[tag] = Append(executed[tag], k)
      /\ \A r \in (Requests \cup {Nil}) \ {tag} : executed'[r] = executed[r]
      /\ executed[tag] \in Seq(Nat)
  BY <1>1, <1>4
<1> QED
  BY <1>1, <1>2, <1>3, <1>5, <1>6 DEF Takes

\* A command that a request sends.
LEMMA SendsItem ==
  ASSUME TypeOK, NEW r \in Requests, SendCommand(r)
  PROVE  /\ http[r] = "send" /\ UNCHANGED <<args, item, socket>>
         /\ item[r] \in 1..Len(args[r]) /\ <<r, item[r]>> \in Command
         /\ \/ UNCHANGED down
            \/ http'[r] = "blpop" /\ WsSend(conn[r], <<r, item[r]>>)
<1>1. http[r] = "send" /\ UNCHANGED <<args, item, socket>>
  BY DEF SendCommand, Raises, WsSend, socketVars
<1>2. item[r] \in 1..Len(args[r]) /\ item[r] \in Nat
  BY <1>1, TypeParts, ServerParts, ZenonT(30) DEF ProgressOK
<1>3. http \in [Requests -> {"new", "lookup", "send", "blpop", "blocked", "done",
                             "lost"}]
  BY TypeParts, ServerParts
<1>4. \/ UNCHANGED down
      \/ http'[r] = "blpop" /\ WsSend(conn[r], <<r, item[r]>>)
  BY <1>3 DEF SendCommand, socketVars
<1>5. <<r, item[r]>> \in Command
  BY <1>2 DEF Command
<1> QED
  BY <1>1, <1>2, <1>4, <1>5

\* Every step preserves the invariant.
LEMMA TurnNext ==
  ASSUME TypeOK, CommandInv, TurnInv, [Next]_vars
  PROVE  TurnInv'
<1>1. ASSUME \A c \in Ws : Elements(down'[c]) \subseteq Elements(down[c]),
             UNCHANGED executed
      PROVE  TurnInv'
  BY <1>1, TurnStep
<1>2. ASSUME NEW c \in Ws, Reply(c)
      PROVE  TurnInv'
  <2>0. PICK tag \in Requests \cup {Nil}, k \in Nat : Takes(c, tag, k)
    BY <1>2, ReplyTakes
  <2>1. /\ Elements(down[c]) = {<<tag, k>>} \cup Elements(Tail(down[c]))
        /\ \A d \in Ws : down'[d] = IF d = c THEN Tail(down[c]) ELSE down[d]
        /\ Elements(executed'[tag]) = Elements(executed[tag]) \cup {k}
        /\ \A r \in (Requests \cup {Nil}) \ {tag} : executed'[r] = executed[r]
    BY <2>0 DEF Takes
  <2>2. \A d \in Ws : Elements(down'[d]) \subseteq Elements(down[d])
    BY <2>1
  <2>3. tag \in Requests => SentItem(tag, k)
    <3>1. <<tag, k>> \in Elements(down[c])
      BY <2>1
    <3>2. tag \in Requests => tag # Nil
      BY ConfigAssumption DEF ConfigAssumption
    <3> QED
      BY <3>1, <3>2 DEF TurnInv, SentOnWire
  <2>4. \A r \in Requests : \A i \in Elements(executed'[r]) :
          i \in Elements(executed[r]) \/ SentItem(r, i)
    BY <2>1, <2>3
  <2> QED
    BY <2>2, <2>4, TurnStep
<1>3. ASSUME NEW c \in Ws, NEW s \in SN, SubscriberForwards(c, s), UNCHANGED executed
      PROVE  TurnInv'
  <2>1. inbox[c][s] \in Seq(1..MaxPublish) /\ inbox[c][s] # <<>>
    BY <1>3, TypeParts DEF SubscriberForwards, Subscriptions!Forward, HandlerTypeOK,
                           Subscriptions!SubTypeOK
  <2>2. PICK m \in 1..MaxPublish : m = Head(inbox[c][s])
    BY <2>1, TakesHead
  <2>3. <<Nil, m>> \in Command /\ WsSend(c, <<Nil, m>>)
    BY <1>3, <2>2, HandlerAssumption DEF SubscriberForwards, Command,
                                         HandlerAssumption
  <2>4. \A d \in Ws : \A a \in Elements(down'[d]) :
          a[1] # Nil => a \in Elements(down[d])
    <3>1. PICK b \in Command : b = <<Nil, m>> /\ b[1] = Nil
      BY <2>3
    <3>2. Adds(c, b)
      BY <2>3, <3>1, WireAdds
    <3> QED
      BY <3>1, <3>2 DEF Adds
  <2> QED
    BY <1>3, <2>4, TurnStep
<1>4. ASSUME NEW r \in Requests, SendCommand(r), UNCHANGED executed
      PROVE  TurnInv'
  <2>1. CASE UNCHANGED down
    BY <1>1, <1>4, <2>1
  <2>2. CASE ~UNCHANGED down
    <3>1. /\ http[r] = "send" /\ UNCHANGED <<args, item>>
          /\ item[r] \in 1..Len(args[r]) /\ <<r, item[r]>> \in Command
          /\ http'[r] = "blpop" /\ WsSend(conn[r], <<r, item[r]>>)
      BY <1>4, <2>2, SendsItem
    <3>2. conn[r] \in Ws
      BY <3>1 DEF CommandInv, HoldsReadersSocket
    <3>3. PICK b \in Command : b = <<r, item[r]>> /\ b[1] = r /\ b[2] = item[r]
      BY <3>1
    <3>4. \A d \in Ws : \A a \in Elements(down'[d]) :
            a \in Elements(down[d]) \/ a = b
      <4>1. Adds(conn[r], b)
        BY <3>1, <3>2, <3>3, WireAdds
      <4> QED
        BY <4>1 DEF Adds
    <3>5. SentItem(b[1], b[2])'
      BY <3>1, <3>3 DEF SentItem
    <3> QED
      BY <1>4, <3>4, <3>5, TurnStep
  <2> QED
    BY <2>1, <2>2
<1>5. ASSUME NEW c \in Ws, OnClose(c), UNCHANGED executed
      PROVE  TurnInv'
  <2>1. \A d \in Ws : down'[d] = IF d = c THEN <<>> ELSE down[d]
    BY <1>5, TypeParts DEF OnClose, SocketTypeOK
  <2> QED
    BY <1>1, <1>5, <2>1, EmptyElements
<1>6. CASE Crash
  <2>1. UNCHANGED executed /\ \A d \in Ws : down'[d] = <<>>
    BY <1>6 DEF Crash
  <2> QED
    BY <1>1, <2>1, EmptyElements
<1> QED
  BY <1>1, <1>2, <1>3, <1>4, <1>5, <1>6, WireCases

\* No command is on the wire or carried out ahead of its turn.
LEMMA TurnAlways == Spec => []TurnInv
<1>1. Init => TurnInv
  <2> SUFFICES ASSUME Init PROVE TurnInv
    OBVIOUS
  <2>1. /\ \A c \in Ws : down[c] = <<>>
        /\ \A r \in Requests : executed[r] = <<>>
    BY DEF Init, ConfigInit
  <2> QED
    BY <2>1, EmptyElements DEF TurnInv, SentOnWire, SentCarriedOut
<1> QED
  BY <1>1, TurnNext, CommandAlways, TypeCorrect, PTL DEF Spec

-----------------------------------------------------------------------------
(* Commands in order, and each once. *)

\* Two commands of a request are in the order of its items; two published ones
\* are not the same.
Before(a, b) ==
  a[1] = b[1] => IF a[1] = Nil THEN a[2] # b[2] ELSE a[2] < b[2]

InOrder(seq) == \A j, k \in 1..Len(seq) : j < k => Before(seq[j], seq[k])

WireInOrder == \A c \in Ws : InOrder(down[c])

\* What waits on the socket that a reader uses comes after all that readers have
\* carried out; an earlier socket may still hold what nobody will ever read.
WireAfterDone ==
  \A c \in Ws : dialled[Device[c]] = c =>
    \A r \in Requests \cup {Nil} : \A e \in Elements(executed[r]) :
      \A b \in Elements(down[c]) : Before(<<r, e>>, b)

WireForwarded ==
  \A c \in Ws : \A b \in Elements(down[c]) : b[1] = Nil => b[2] \in forwarded[c]

\* A published command that was carried out reaches the reader's socket no more:
\* its handler has passed it on already.
MailFresh ==
  \A c \in Ws : dialled[Device[c]] = c =>
    \A s \in SN : \A m \in Elements(inbox[c][s]) :
      m \in Elements(executed[Nil]) => m \in forwarded[c]

DoneOnce ==
  /\ Distinct(executed[Nil])
  /\ \A m \in Elements(executed[Nil]) : m \in 1..MaxPublish /\ published[m] # Nil

OrderInv == WireInOrder /\ WireAfterDone /\ WireForwarded /\ MailFresh /\ DoneOnce

\* A command that comes after all others is appended.
LEMMA InOrderAppend ==
  ASSUME NEW seq \in Seq(Command), NEW b \in Command, InOrder(seq),
         \A a \in Elements(seq) : Before(a, b)
  PROVE  InOrder(Append(seq, b))
<1> DEFINE t == Append(seq, b)
<1>1. /\ Len(seq) \in Nat /\ Len(t) = Len(seq) + 1 /\ t[Len(seq) + 1] = b
      /\ \A i \in 1..Len(seq) : t[i] = seq[i]
  OBVIOUS
<1> HIDE DEF t
<1>2. ASSUME NEW j \in 1..Len(t), NEW k \in 1..Len(t), j < k
      PROVE  Before(t[j], t[k])
  <2>1. j \in 1..Len(seq) /\ t[j] = seq[j]
    BY <1>1, <1>2
  <2>2. CASE k \in 1..Len(seq)
    BY <1>1, <1>2, <2>1, <2>2 DEF InOrder
  <2>3. CASE k = Len(seq) + 1
    <3>1. seq[j] \in Elements(seq)
      BY <2>1 DEF Elements
    <3> QED
      BY <1>1, <2>1, <2>3, <3>1
  <2> QED
    BY <1>1, <2>2, <2>3
<1> QED
  BY <1>2 DEF InOrder, t

\* The first command is taken.
LEMMA InOrderTail ==
  ASSUME NEW seq \in Seq(Command), seq # <<>>, InOrder(seq)
  PROVE  /\ InOrder(Tail(seq))
         /\ \A b \in Elements(Tail(seq)) : Before(Head(seq), b)
<1> DEFINE t == Tail(seq)
<1>1. /\ Len(seq) \in Nat \ {0} /\ Len(t) = Len(seq) - 1 /\ Head(seq) = seq[1]
      /\ \A i \in 1..Len(t) : t[i] = seq[i + 1]
  OBVIOUS
<1> HIDE DEF t
<1>2. InOrder(t)
  BY <1>1 DEF InOrder
<1>3. ASSUME NEW i \in 1..Len(t)
      PROVE  Before(Head(seq), t[i])
  <2>1. i + 1 \in 1..Len(seq) /\ 1 \in 1..Len(seq) /\ 1 < i + 1
    BY <1>1
  <2> QED
    BY <1>1, <2>1 DEF InOrder
<1>4. \A b \in Elements(t) : Before(Head(seq), b)
  BY <1>3 DEF Elements
<1> QED
  BY <1>2, <1>4 DEF t

\* Nothing is in order.
LEMMA EmptyInOrder == InOrder(<<>>)
BY DEF InOrder

\* A step in which nothing is sent, passed on or carried out.
LEMMA OrderStep ==
  ASSUME OrderInv, UNCHANGED <<executed, forwarded, dialled>>,
         \A c \in Ws : down'[c] = down[c] \/ down'[c] = <<>>,
         \A c \in Ws : \A s \in SN :
           Elements(inbox'[c][s]) \subseteq Elements(inbox[c][s]),
         \A m \in 1..MaxPublish : published[m] # Nil => published'[m] # Nil
  PROVE  OrderInv'
<1>1. \A c \in Ws : Elements(down'[c]) \subseteq Elements(down[c])
  BY EmptyElements
<1>2. WireInOrder'
  BY EmptyInOrder DEF OrderInv, WireInOrder
<1>3. WireAfterDone' /\ WireForwarded'
  BY <1>1 DEF OrderInv, WireAfterDone, WireForwarded
<1>4. MailFresh'
  BY DEF OrderInv, MailFresh
<1>5. DoneOnce'
  BY DEF OrderInv, DoneOnce
<1> QED
  BY <1>2, <1>3, <1>4, <1>5 DEF OrderInv

\* A reader dials: nothing waits on the new socket.
LEMMA OrderDial ==
  ASSUME TypeOK, Untouched, OrderInv, NEW c \in Ws, Dial(c)
  PROVE  OrderInv'
<1>1. /\ socket[c] = "none" /\ UNCHANGED <<down, executed>>
      /\ UNCHANGED <<inbox, forwarded, published>>
      /\ \A d \in Ws : dialled'[Device[d]] = d => d = c \/ dialled[Device[d]] = d
  BY TypeParts, ConfigAssumption DEF Dial, handlerVars, subVars, EnvTypeOK,
                                     ConfigAssumption
<1>2. Elements(down[c]) = {} /\ \A s \in SN : Elements(inbox[c][s]) = {}
  BY <1>1, EmptyElements DEF Untouched
<1>3. WireInOrder' /\ WireForwarded' /\ DoneOnce'
  BY <1>1 DEF OrderInv, WireInOrder, WireForwarded, DoneOnce
<1>4. WireAfterDone'
  BY <1>1, <1>2 DEF OrderInv, WireAfterDone
<1>5. MailFresh'
  BY <1>1, <1>2 DEF OrderInv, MailFresh
<1> QED
  BY <1>3, <1>4, <1>5 DEF OrderInv

\* A message is published: nobody can have carried it out.
LEMMA OrderPublisher ==
  ASSUME TypeOK, OrderInv, Publisher
  PROVE  OrderInv'
<1>1. UNCHANGED <<down, executed, forwarded, dialled>>
  BY PublisherFrame DEF configVars, socketVars, envVars
<1>2. PICK m \in 1..MaxPublish, s \in SN : PublishCommand(m, s)
  BY DEF Publisher
<1>3. /\ inbox \in [Ws -> [SN -> Seq(1..MaxPublish)]]
      /\ published \in [1..MaxPublish -> SN \cup {Nil}]
  BY TypeParts DEF HandlerTypeOK, Subscriptions!SubTypeOK
<1>4. /\ published[m] = Nil /\ published' = [published EXCEPT ![m] = s]
  BY <1>2 DEF PublishCommand, Subscriptions!Publish
<1>5. \A c \in Ws : \A k \in SN :
        inbox'[c][k] = inbox[c][k] \/ inbox'[c][k] = Append(inbox[c][k], m)
  BY <1>2, <1>3 DEF PublishCommand, Subscriptions!Publish
<1>6. ASSUME NEW c \in Ws, NEW k \in SN
      PROVE  Elements(inbox'[c][k]) \subseteq Elements(inbox[c][k]) \cup {m}
  <2> DEFINE S == 1..MaxPublish
  <2>1. inbox[c][k] \in Seq(S) /\ m \in S
    BY <1>3
  <2> HIDE DEF S
  <2>2. Elements(Append(inbox[c][k], m)) = Elements(inbox[c][k]) \cup {m}
    BY <2>1, AppendsOne
  <2> QED
    BY <1>5, <2>2
<1>7. m \notin Elements(executed[Nil])
  BY <1>4 DEF OrderInv, DoneOnce
<1>8. WireInOrder' /\ WireAfterDone' /\ WireForwarded'
  BY <1>1 DEF OrderInv, WireInOrder, WireAfterDone, WireForwarded
<1>9. MailFresh'
  BY <1>1, <1>6, <1>7 DEF OrderInv, MailFresh
<1>10. DoneOnce'
  BY <1>1, <1>3, <1>4, ConfigAssumption DEF OrderInv, DoneOnce, ConfigAssumption
<1> QED
  BY <1>8, <1>9, <1>10 DEF OrderInv

\* A command is added that comes after those on the wire and, on the socket that
\* the reader uses, after all that was carried out.
LEMMA OrderAdds ==
  ASSUME TypeOK, OrderInv, NEW c \in Ws, NEW b \in Command, Adds(c, b),
         \A a \in Elements(down[c]) : Before(a, b),
         dialled[Device[c]] = c =>
           \A r \in Requests \cup {Nil} : \A e \in Elements(executed[r]) :
             Before(<<r, e>>, b),
         UNCHANGED <<executed, dialled>>
  PROVE  WireInOrder' /\ WireAfterDone'
<1>1. ASSUME NEW d \in Ws
      PROVE  InOrder(down'[d])
  <2>1. down[c] \in Seq(Command)
    BY TypeParts DEF SocketTypeOK
  <2>2. InOrder(Append(down[c], b))
    BY <2>1, InOrderAppend DEF OrderInv, WireInOrder
  <2> QED
    BY <2>2 DEF Adds, OrderInv, WireInOrder
<1>2. \A d \in Ws : \A a \in Elements(down'[d]) :
        a \in Elements(down[d]) \/ (d = c /\ a = b)
  BY AddsOne
<1>3. WireInOrder'
  BY <1>1 DEF WireInOrder
<1>4. WireAfterDone'
  BY <1>2, ZenonT(30) DEF OrderInv, WireAfterDone
<1> QED
  BY <1>3, <1>4

\* A subscription thread passes on a command it has not passed on before.
LEMMA OrderForward ==
  ASSUME TypeOK, OrderInv, NEW c \in Ws, NEW s \in SN, SubscriberForwards(c, s),
         UNCHANGED <<executed, dialled>>
  PROVE  OrderInv'
<1>0. /\ inbox \in [Ws -> [SN -> Seq(1..MaxPublish)]]
      /\ forwarded \in [Ws -> SUBSET (1..MaxPublish)]
  BY TypeParts DEF HandlerTypeOK, Subscriptions!SubTypeOK
<1>1. PICK m \in 1..MaxPublish :
        /\ m = Head(inbox[c][s]) /\ m \in Elements(inbox[c][s])
        /\ Elements(Tail(inbox[c][s])) \subseteq Elements(inbox[c][s])
  <2>1. inbox[c][s] \in Seq(1..MaxPublish) /\ inbox[c][s] # <<>>
    BY <1>0 DEF SubscriberForwards, Subscriptions!Forward
  <2> QED
    BY <2>1, TakesHead
<1>2. /\ m \notin forwarded[c] /\ WsSend(c, <<Nil, m>>) /\ UNCHANGED published
      /\ forwarded' = [forwarded EXCEPT ![c] = @ \cup {m}]
      /\ inbox' = [inbox EXCEPT ![c][s] = Tail(inbox[c][s])]
  BY <1>1 DEF SubscriberForwards, Subscriptions!Forward
<1>3. PICK b \in Command : b = <<Nil, m>> /\ b[1] = Nil /\ b[2] = m
  <2>1. <<Nil, m>> \in Command
    BY HandlerAssumption DEF Command, HandlerAssumption
  <2> QED
    BY <2>1
<1>4. Adds(c, b)
  BY <1>2, <1>3, WireAdds
<1>5. \A a \in Elements(down[c]) : Before(a, b)
  BY <1>2, <1>3 DEF OrderInv, WireForwarded, Before
<1>6. ASSUME dialled[Device[c]] = c, NEW r \in Requests \cup {Nil},
             NEW e \in Elements(executed[r])
      PROVE  Before(<<r, e>>, b)
  <2>1. CASE r = Nil
    <3>1. e # m
      BY <1>1, <1>2, <1>6, <2>1 DEF OrderInv, MailFresh
    <3> QED
      BY <1>3, <2>1, <3>1 DEF Before
  <2>2. CASE r # Nil
    BY <1>3, <2>2 DEF Before
  <2> QED
    BY <2>1, <2>2
<1>7. WireInOrder' /\ WireAfterDone'
  BY <1>4, <1>5, <1>6, OrderAdds
<1>8. \A d \in Ws : \A a \in Elements(down'[d]) :
        a \in Elements(down[d]) \/ (d = c /\ a = b)
  BY <1>4, AddsOne
<1>9. \A d \in Ws : forwarded'[d] = IF d = c THEN forwarded[d] \cup {m} ELSE forwarded[d]
  BY <1>0, <1>2
<1>10. WireForwarded'
  BY <1>3, <1>8, <1>9 DEF OrderInv, WireForwarded
<1>11. \A d \in Ws : \A k \in SN :
         Elements(inbox'[d][k]) \subseteq Elements(inbox[d][k])
  <2>1. \A d \in Ws : \A k \in SN :
          inbox'[d][k] = IF d = c /\ k = s THEN Tail(inbox[c][s]) ELSE inbox[d][k]
    BY <1>0, <1>2
  <2> QED
    BY <1>1, <2>1
<1>12. MailFresh'
  BY <1>9, <1>11 DEF OrderInv, MailFresh
<1>13. DoneOnce'
  BY <1>2 DEF OrderInv, DoneOnce
<1> QED
  BY <1>7, <1>10, <1>12, <1>13 DEF OrderInv

\* A request sends the command of its item: those of its earlier items were sent
\* before.
LEMMA OrderSend ==
  ASSUME TypeOK, CommandInv, TurnInv, OrderInv, NEW r \in Requests, SendCommand(r),
         UNCHANGED <<executed, dialled, inbox, forwarded, published>>
  PROVE  OrderInv'
<1>1. CASE UNCHANGED down
  BY <1>1, OrderStep
<1>2. CASE ~UNCHANGED down
  <2>1. /\ http[r] = "send" /\ item[r] \in 1..Len(args[r])
        /\ <<r, item[r]>> \in Command /\ WsSend(conn[r], <<r, item[r]>>)
    BY <1>2, SendsItem
  <2>2. PICK b \in Command : b = <<r, item[r]>> /\ b[1] = r /\ b[2] = item[r]
    BY <2>1
  <2>3. PICK c \in Ws : c = conn[r]
    BY <2>1 DEF CommandInv, HoldsReadersSocket
  <2>4. Adds(c, b)
    BY <2>1, <2>2, <2>3, WireAdds
  <2>5. r # Nil
    BY ConfigAssumption DEF ConfigAssumption
  <2>6. \A a \in Elements(down[c]) : Before(a, b)
    BY <2>1, <2>2, <2>5 DEF TurnInv, SentOnWire, SentItem, Before
  <2>7. ASSUME NEW q \in Requests \cup {Nil}, NEW e \in Elements(executed[q])
        PROVE  Before(<<q, e>>, b)
    <3>1. CASE q = r
      <4>1. e < item[r]
        BY <2>1, <3>1 DEF TurnInv, SentCarriedOut, SentItem
      <4> QED
        BY <2>2, <2>5, <3>1, <4>1 DEF Before
    <3>2. CASE q # r
      BY <2>2, <3>2 DEF Before
    <3> QED
      BY <3>1, <3>2
  <2>8. WireInOrder' /\ WireAfterDone'
    BY <2>4, <2>6, <2>7, OrderAdds
  <2>9. \A d \in Ws : \A a \in Elements(down'[d]) :
          a \in Elements(down[d]) \/ (d = c /\ a = b)
    BY <2>4, AddsOne
  <2>10. WireForwarded'
    BY <2>2, <2>5, <2>9 DEF OrderInv, WireForwarded
  <2>11. MailFresh' /\ DoneOnce'
    BY DEF OrderInv, MailFresh, DoneOnce
  <2> QED
    BY <2>8, <2>10, <2>11 DEF OrderInv
<1> QED
  BY <1>1, <1>2

\* The commands for the same reader carry its serial number with them.
LEMMA SameReader ==
  ASSUME TypeOK, CommandInv, NEW c \in Ws, NEW d \in Ws,
         NEW a \in Elements(down[c]), NEW b \in Elements(down[d]), a[1] = b[1],
         a[1] = Nil => a[2] = b[2]
  PROVE  Device[c] = Device[d]
<1>1. ForReader(a, c) /\ ForReader(b, d)
  BY DEF CommandInv, CommandsOfReader, Elements
<1> QED
  BY <1>1 DEF ForReader

\* A reader carries out the first command on the socket it uses.
LEMMA OrderReply ==
  ASSUME TypeOK, ChannelInv, CommandInv, OrderInv, NEW c \in Ws, Reply(c),
         UNCHANGED <<dialled, inbox, forwarded, published>>
  PROVE  OrderInv'
<1>0. PICK tag \in Requests \cup {Nil}, k \in Nat : Takes(c, tag, k)
  BY ReplyTakes
<1>1. /\ down[c] # <<>> /\ Head(down[c]) = <<tag, k>>
      /\ Elements(down[c]) = {<<tag, k>>} \cup Elements(Tail(down[c]))
      /\ \A d \in Ws : down'[d] = IF d = c THEN Tail(down[c]) ELSE down[d]
      /\ executed[tag] \in Seq(Nat) /\ executed'[tag] = Append(executed[tag], k)
      /\ Elements(executed'[tag]) = Elements(executed[tag]) \cup {k}
      /\ \A r \in (Requests \cup {Nil}) \ {tag} : executed'[r] = executed[r]
      /\ dialled[Device[c]] = c /\ down[c] \in Seq(Command)
  BY <1>0, TypeParts DEF Takes, Reply, SocketTypeOK
<1>2. PICK a \in Elements(down[c]) : a = <<tag, k>> /\ a[1] = tag /\ a[2] = k
  <2>1. <<tag, k>> \in Elements(down[c])
    BY <1>1
  <2> QED
    BY <2>1
<1>3. \A r \in Requests \cup {Nil} : \A e \in Elements(executed'[r]) :
        e \in Elements(executed[r]) \/ (r = tag /\ e = k)
  BY <1>1
<1>4. /\ InOrder(Tail(down[c]))
      /\ \A b \in Elements(Tail(down[c])) : Before(<<tag, k>>, b)
  BY <1>1, InOrderTail DEF OrderInv, WireInOrder
<1>5. \A d \in Ws : Elements(down'[d]) \subseteq Elements(down[d])
  BY <1>1
<1>6. ASSUME NEW d \in Ws, dialled[Device[d]] = d, Device[d] = Device[c]
      PROVE  d = c
  BY <1>1, <1>6
<1>7. WireInOrder'
  BY <1>1, <1>4 DEF OrderInv, WireInOrder
<1>8. ASSUME NEW d \in Ws, dialled[Device[d]] = d, NEW b \in Elements(down'[d])
      PROVE  Before(<<tag, k>>, b)
  <2>1. CASE d = c
    BY <1>1, <1>4, <1>8, <2>1
  <2>2. CASE d # c
    <3>1. b \in Elements(down[d])
      BY <1>5, <1>8
    <3>2. ~(a[1] = b[1] /\ (a[1] = Nil => a[2] = b[2]))
      BY <1>6, <1>8, <2>2, <3>1, SameReader
    <3> QED
      BY <1>2, <3>2 DEF Before
  <2> QED
    BY <2>1, <2>2
<1>9. WireAfterDone'
  <2> SUFFICES ASSUME NEW d \in Ws, dialled'[Device[d]] = d,
                      NEW r \in Requests \cup {Nil}, NEW e \in Elements(executed'[r]),
                      NEW b \in Elements(down'[d])
               PROVE  Before(<<r, e>>, b)
    BY DEF WireAfterDone
  <2>1. CASE e \in Elements(executed[r])
    BY <1>5, <2>1 DEF OrderInv, WireAfterDone
  <2>2. CASE r = tag /\ e = k
    BY <1>8, <2>2
  <2> QED
    BY <1>3, <2>1, <2>2
<1>10. WireForwarded'
  BY <1>5 DEF OrderInv, WireForwarded
<1>11. ForReader(a, c)
  BY DEF CommandInv, CommandsOfReader, Elements
<1>12. MailFresh'
  <2> SUFFICES ASSUME NEW d \in Ws, dialled[Device[d]] = d, NEW s \in SN,
                      NEW m \in Elements(inbox[d][s]), m \in Elements(executed'[Nil])
               PROVE  m \in forwarded[d]
    BY DEF MailFresh
  <2>1. CASE m \in Elements(executed[Nil])
    BY <2>1 DEF OrderInv, MailFresh
  <2>2. CASE tag = Nil /\ m = k
    <3>1. CASE d = c
      BY <1>2, <2>2, <3>1 DEF OrderInv, WireForwarded
    <3>2. CASE d # c
      <4>1. published[m] = Device[d]
        BY DEF ChannelInv, MailOfReader, Elements
      <4>2. published[k] = Device[c]
        BY <1>2, <1>11, <2>2 DEF ForReader
      <4> QED
        BY <1>6, <2>2, <3>2, <4>1, <4>2
    <3> QED
      BY <3>1, <3>2
  <2> QED
    BY <1>3, <2>1, <2>2
<1>13. DoneOnce'
  <2>1. CASE tag = Nil
    <3>1. k \in 1..MaxPublish /\ published[k] = Device[c]
      BY <1>2, <1>11, <2>1 DEF ForReader
    <3>2. published[k] # Nil
      BY <3>1, ConfigAssumption DEF ConfigAssumption
    <3>3. k \notin Elements(executed[Nil])
      <4> SUFFICES ASSUME k \in Elements(executed[Nil]) PROVE FALSE
        OBVIOUS
      <4>1. Before(<<Nil, k>>, a)
        BY <1>1 DEF OrderInv, WireAfterDone
      <4> QED
        BY <1>2, <2>1, <4>1 DEF Before
    <3>4. Distinct(executed'[Nil])
      <4>1. /\ executed[Nil] \in Seq(Nat) /\ Distinct(executed[Nil])
            /\ executed'[Nil] = Append(executed[Nil], k)
        BY <1>1, <2>1 DEF OrderInv, DoneOnce
      <4>2. Distinct(Append(executed[Nil], k))
        BY <3>3, <4>1, AppendsOne
      <4> QED
        BY <4>1, <4>2
    <3> QED
      BY <1>1, <2>1, <3>1, <3>2, <3>4 DEF OrderInv, DoneOnce
  <2>2. CASE tag # Nil
    BY <1>1, <2>2 DEF OrderInv, DoneOnce
  <2> QED
    BY <2>1, <2>2
<1> QED
  BY <1>7, <1>9, <1>10, <1>12, <1>13 DEF OrderInv

\* Mail that is taken, lost, or left alone.
LEMMA MailOnlyShrinks ==
  ASSUME TypeOK, NEW c \in Ws, NEW s \in SN \cup {Nil}, Subscribers(c, s)
  PROVE  \A d \in Ws : \A k \in SN :
           Elements(inbox'[d][k]) \subseteq Elements(inbox[d][k])
<1>0. inbox \in [Ws -> [SN -> Seq(1..MaxPublish)]]
  BY TypeParts DEF HandlerTypeOK, Subscriptions!SubTypeOK
<1>1. ASSUME s \in SN, inbox[c][s] # <<>>, inbox' = [inbox EXCEPT ![c][s] = Tail(@)]
      PROVE  \A d \in Ws : \A k \in SN :
               Elements(inbox'[d][k]) \subseteq Elements(inbox[d][k])
  <2>1. Elements(Tail(inbox[c][s])) \subseteq Elements(inbox[c][s])
    BY <1>0, <1>1, TakesHead
  <2>2. \A d \in Ws : \A k \in SN :
          inbox'[d][k] = IF d = c /\ k = s THEN Tail(inbox[c][s]) ELSE inbox[d][k]
    BY <1>0, <1>1
  <2> QED
    BY <2>1, <2>2
<1>2. ASSUME inbox' = [inbox EXCEPT ![c] = Subscriptions!Without(@, s)]
      PROVE  \A d \in Ws : \A k \in SN :
               Elements(inbox'[d][k]) \subseteq Elements(inbox[d][k])
  <2>1. \A d \in Ws : \A k \in SN :
          inbox'[d][k] = IF d = c /\ k = s THEN <<>> ELSE inbox[d][k]
    BY <1>0, <1>2 DEF Subscriptions!Without
  <2> QED
    BY <2>1, EmptyElements
<1> QED
  BY <1>1, <1>2 DEF Subscribers, SubscriberForwards, SubscriberDiscards,
     SubscriberReconnects, SubscriberEnds, Subscriptions!Forward,
     Subscriptions!Discard, Subscriptions!Reconnect, Subscriptions!End

\* Every step preserves the invariant.
LEMMA OrderNext ==
  ASSUME TypeOK, Untouched, ChannelInv, CommandInv, TurnInv, OrderInv, [Next]_vars
  PROVE  OrderInv'
<1>1. CASE UNCHANGED <<executed, forwarded, dialled, down, inbox, published>>
  BY <1>1, OrderStep
<1>2. ASSUME NEW c \in Ws, Readers(c)
      PROVE  OrderInv'
  <2>1. UNCHANGED <<inbox, forwarded, published>>
    BY <1>2, ReadersFrame DEF handlerVars, subVars
  <2>2. CASE Reply(c)
    BY <2>1, <2>2, OrderReply DEF Reply
  <2>3. ASSUME NEW kind, SendFrame(c, kind)
        PROVE  OrderInv'
    BY <1>1, <2>1, <2>3 DEF SendFrame
  <2> QED
    BY <1>2, <2>2, <2>3, OrderDial DEF Readers
<1>3. ASSUME NEW c \in Ws, NEW s \in SN \cup {Nil}, Subscribers(c, s)
      PROVE  OrderInv'
  <2>1. UNCHANGED <<executed, dialled, published>>
    BY <1>3, SubscribersFrame DEF envVars
  <2>2. CASE s \in SN /\ SubscriberForwards(c, s)
    BY <2>1, <2>2, OrderForward
  <2>3. CASE ~(s \in SN /\ SubscriberForwards(c, s))
    <3>1. UNCHANGED <<down, forwarded>>
      BY <1>3, <2>3 DEF Subscribers, SubscriberDiscards, SubscriberReconnects,
         SubscriberEnds, Subscriptions!Discard, Subscriptions!Reconnect,
         Subscriptions!End, configVars, socketVars
    <3>2. \A d \in Ws : \A k \in SN :
            Elements(inbox'[d][k]) \subseteq Elements(inbox[d][k])
      BY <1>3, MailOnlyShrinks
    <3> QED
      BY <2>1, <3>1, <3>2, OrderStep
  <2> QED
    BY <2>2, <2>3
<1>4. CASE Pool
  <2>1. UNCHANGED <<executed, dialled, inbox, forwarded, published>>
    BY <1>4, PoolFrame DEF handlerVars, subVars, envVars
  <2>2. UNCHANGED down \/ \E r \in Requests : SendCommand(r)
    BY <1>4 DEF Pool, GetChat, PostChat, Lookup, Blpop, Response, Timeout,
                BlpopRaises, configVars, socketVars
  <2> QED
    BY <1>1, <2>1, <2>2, OrderSend
<1>5. CASE Reactor
  <2>1. UNCHANGED <<executed, dialled, published, inbox, forwarded>>
    BY <1>5, ReactorFrame DEF envVars
  <2>2. UNCHANGED down \/ \E c \in Ws : OnClose(c)
    BY <1>5 DEF Reactor, OnOpen, OnMessage, PushResponse, DeleteResponses,
       Register, HandleReg, PublishLog, StartSubscriber, RedisCommandRaises,
       configVars, socketVars
  <2>3. ASSUME NEW c \in Ws, OnClose(c)
        PROVE  \A d \in Ws : down'[d] = down[d] \/ down'[d] = <<>>
    BY <2>3, TypeParts DEF OnClose, SocketTypeOK
  <2> QED
    BY <2>1, <2>2, <2>3, OrderStep
<1>6. CASE Crash
  <2>1. /\ UNCHANGED <<executed, forwarded, dialled, published>>
        /\ \A c \in Ws : down'[c] = <<>>
        /\ \A c \in Ws : \A s \in SN : inbox'[c][s] = <<>>
    BY <1>6 DEF Crash, Subscriptions!NoMail
  <2> QED
    BY <2>1, EmptyElements, OrderStep
<1> QED
  BY <1>1, <1>2, <1>3, <1>4, <1>5, <1>6, OrderPublisher
  DEF Next, vars, configVars, socketVars, envVars, handlerVars, subVars

\* The invariant holds in every reachable state.
LEMMA OrderAlways == Spec => []OrderInv
<1>1. Init => OrderInv
  <2> SUFFICES ASSUME Init PROVE OrderInv
    OBVIOUS
  <2>1. /\ \A c \in Ws : down[c] = <<>>
        /\ \A r \in Requests \cup {Nil} : executed[r] = <<>>
    BY DEF Init, ConfigInit
  <2> QED
    BY <2>1, EmptyElements, EmptyInOrder DEF OrderInv, WireInOrder,
       WireAfterDone, WireForwarded, MailFresh, DoneOnce
<1> QED
  BY <1>1, OrderNext, UntouchedAlways, ChannelAlways, CommandAlways, TurnAlways,
     TypeCorrect, PTL DEF Spec

\* A command published once is carried out at most once, by whichever socket of
\* the reader it comes, however many subscriptions earlier connections left behind
\* and however often the connection to Redis or the process was lost.
THEOREM PublishedAtMostOnce == Spec => []PublishedOnce
<1>1. OrderInv => PublishedOnce
  BY DEF OrderInv, DoneOnce, Distinct, PublishedOnce
<1> QED
  BY <1>1, OrderAlways, PTL

=============================================================================
