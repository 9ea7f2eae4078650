---------------------------- MODULE MailboxProofs ---------------------------
(***************************************************************************)
(* What the lists in Redis hold, who waits for them, and what a failure    *)
(* costs: proofs for any number of readers, sockets and requests, and any  *)
(* number of failures and restarts.                                        *)
(***************************************************************************)
EXTENDS IsolationProofs, SequenceLemmas

-----------------------------------------------------------------------------
(* What the threads leave alone. *)

\* The readers touch sockets and their own records only.
LEMMA ReadersFrame ==
  ASSUME NEW c \in Ws, Readers(c)
  PROVE  UNCHANGED <<connections, ws_keys, redisVars, faults, handlerVars,
                     serverVars, crashes>>
BY DEF Readers, Dial, Reply, SendFrame

\* The subscription threads touch subscriptions and the socket they send on; a
\* failure of theirs is counted.
LEMMA SubscribersFrame ==
  ASSUME TypeOK, NEW c \in Ws, NEW s \in SN \cup {Nil}, Subscribers(c, s)
  PROVE  /\ UNCHANGED <<connections, ws_keys, socket, up, redisVars, reactor,
                        acked, logs, heard, published, serverVars, envVars>>
         /\ faults' \in {faults, faults + 1}
<1>1. faults' \in {faults, faults + 1}
  BY DEF Subscribers, SubscriberForwards, SubscriberDiscards,
         SubscriberReconnects, SubscriberEnds, Fault, configVars
<1>2. UNCHANGED <<connections, ws_keys, socket, up, redisVars, reactor,
                  acked, logs, heard, published, serverVars, envVars>>
  BY DEF Subscribers, SubscriberForwards, SubscriberDiscards,
         SubscriberReconnects, SubscriberEnds, Subscriptions!Forward,
         Subscriptions!Discard, Subscriptions!Reconnect, Subscriptions!End,
         WsSend, configVars, socketVars, notReactor
<1> QED
  BY <1>1, <1>2

\* A publication touches the subscriptions only.
LEMMA PublisherFrame ==
  ASSUME Publisher
  PROVE  UNCHANGED <<configVars, reactor, acked, logs, heard, serverVars,
                     envVars, subscribed_channels, forwarded>>
BY DEF Publisher, PublishCommand, Subscriptions!Publish, notReactor

\* The requests touch neither the callbacks nor what the readers know; a failure
\* of theirs is counted.
LEMMA PoolFrame ==
  ASSUME TypeOK, Pool
  PROVE  /\ UNCHANGED <<connections, ws_keys, up, handlerVars, envVars>>
         /\ faults' \in {faults, faults + 1}
<1>1. faults' \in {faults, faults + 1}
  BY DEF Pool, GetChat, PostChat, Lookup, SendCommand, Blpop, Response,
         Timeout, BlpopRaises, Fault, configVars
<1>2. UNCHANGED <<connections, ws_keys, up, handlerVars, envVars>>
  BY DEF Pool, GetChat, PostChat, Lookup, SendCommand, WsSend, Blpop, Response,
         Timeout, BlpopRaises, notPool, configVars, socketVars
<1> QED
  BY <1>1, <1>2

\* The callbacks leave the requests and the readers alone.
LEMMA ReactorFrame ==
  ASSUME Reactor
  PROVE  UNCHANGED <<serverVars, envVars, published, inbox, forwarded>>
BY DEF Reactor, notReactor, OnOpen, OnMessage, PushResponse, DeleteResponses,
       Register, HandleReg, PublishLog, StartSubscriber, RedisCommandRaises,
       OnClose, Subscriptions!Subscribe, handlerVars, subVars

-----------------------------------------------------------------------------
(* Logs. *)

\* The batch that is answered and about to be published.
BeingPublished == IF reactor.pc = "publish" THEN 1 ELSE 0

\* The invariant behind LogsLostPerFailure: what is about to be published is
\* answered and not yet published.
LogInv ==
  /\ logs.published + BeingPublished <= logs.acked
  /\ logs.acked <= logs.published + faults + crashes + BeingPublished

\* The batches are counted from nothing.
LEMMA LogInit == Init => LogInv
BY DEF Init, HandlerInit, ConfigInit, Idle, LogInv, BeingPublished

\* A step that takes no batch up and drops none.
LEMMA LogStutter ==
  ASSUME TypeOK, LogInv, UNCHANGED logs, BeingPublished' = BeingPublished,
         faults' \in {faults, faults + 1}, crashes' = crashes
  PROVE  LogInv'
<1>1. /\ logs.acked \in Nat /\ logs.published \in Nat /\ faults \in Nat
      /\ crashes \in Nat /\ BeingPublished \in Nat
  BY TypeParts DEF HandlerTypeOK, RegistryTypeOK, EnvTypeOK, BeingPublished
<1>2. /\ logs'.acked = logs.acked /\ logs'.published = logs.published
      /\ faults <= faults'
  BY <1>1
<1> QED
  BY <1>1, <1>2 DEF LogInv

\* Every step preserves the invariant.
LEMMA LogNext ==
  ASSUME TypeOK, LogInv, [Next]_vars
  PROVE  LogInv'
<1> USE TypeParts
<1>0. /\ logs.acked \in Nat /\ logs.published \in Nat /\ faults \in Nat
      /\ crashes \in Nat
  BY DEF HandlerTypeOK, RegistryTypeOK, EnvTypeOK
<1>1. CASE UNCHANGED <<logs, reactor, faults, crashes>>
  BY <1>1, LogStutter DEF BeingPublished
<1>2. ASSUME NEW c \in Ws, Readers(c)
      PROVE  LogInv'
  BY <1>1, <1>2, ReadersFrame DEF handlerVars
<1>3. ASSUME NEW c \in Ws, NEW s \in SN \cup {Nil}, Subscribers(c, s)
      PROVE  LogInv'
  BY <1>3, SubscribersFrame, LogStutter DEF envVars, BeingPublished
<1>4. CASE Publisher
  BY <1>1, <1>4, PublisherFrame DEF configVars, envVars
<1>5. CASE Pool
  BY <1>5, PoolFrame, LogStutter DEF handlerVars, envVars, BeingPublished
<1>6. CASE Crash
  <2>1. BeingPublished' = 0 /\ BeingPublished <= 1 /\ crashes' = crashes + 1
    BY <1>6 DEF Crash, Idle, BeingPublished
  <2>2. UNCHANGED <<logs, faults>>
    BY <1>6 DEF Crash
  <2> QED
    BY <1>0, <2>1, <2>2 DEF LogInv, BeingPublished
<1>7. CASE Reactor
  <2>0. UNCHANGED crashes
    BY <1>7, ReactorFrame DEF envVars
  <2>1. ASSUME reactor.pc # "publish", reactor'.pc # "publish",
               UNCHANGED <<logs>>, faults' \in {faults, faults + 1}
        PROVE  LogInv'
    BY <2>0, <2>1, LogStutter DEF BeingPublished
  <2>2. ASSUME NEW c \in Ws, OnOpen(c) \/ OnMessage(c) \/ OnClose(c)
        PROVE  LogInv'
    BY <2>1, <2>2 DEF OnOpen, OnMessage, OnClose, Idle, handlerVars
  <2>3. CASE PushResponse \/ DeleteResponses \/ Register \/ StartSubscriber
    <3>1. reactor.pc # "idle"
      BY <2>3 DEF PushResponse, DeleteResponses, Register, StartSubscriber
    <3>2. reactor'.pc # "publish" /\ reactor.pc # "publish"
      BY <2>3, <3>1, BusyReactor DEF PushResponse, DeleteResponses, Register,
                               StartSubscriber, GoTo, Idle, Busy
    <3> QED
      BY <2>1, <2>3, <3>2 DEF PushResponse, DeleteResponses, Register,
                              StartSubscriber, configVars
  <2>4. CASE HandleReg
    <3>1. reactor.pc = "handle_reg" /\ UNCHANGED faults
      BY <2>4 DEF HandleReg, configVars
    <3>2. CASE reactor.msg.kind = "sendlog"
      <4>1. reactor'.pc = "publish"
        BY <2>4, <3>1, <3>2, BusyReactor DEF HandleReg, GoTo, Busy
      <4>2. logs'.acked = logs.acked + 1 /\ logs'.published = logs.published
        BY <2>4, <3>2 DEF HandleReg, HandlerTypeOK
      <4> QED
        BY <1>0, <2>0, <3>1, <4>1, <4>2 DEF LogInv, BeingPublished
    <3>3. CASE reactor.msg.kind # "sendlog"
      <4>1. reactor'.pc = "start"
        BY <2>4, <3>1, <3>3, BusyReactor DEF HandleReg, GoTo, Busy
      <4> QED
        BY <2>1, <2>4, <3>1, <3>3, <4>1 DEF HandleReg
    <3> QED
      BY <3>2, <3>3
  <2>5. CASE PublishLog
    <3>1. /\ reactor.pc = "publish" /\ reactor'.pc = "idle" /\ UNCHANGED faults
          /\ logs'.acked = logs.acked /\ logs'.published = logs.published + 1
      BY <2>5 DEF PublishLog, Idle, HandlerTypeOK, configVars
    <3> QED
      BY <1>0, <2>0, <3>1 DEF LogInv, BeingPublished
  <2>6. CASE RedisCommandRaises
    <3>1. /\ reactor'.pc = "idle" /\ UNCHANGED logs /\ faults' = faults + 1
      BY <2>6 DEF RedisCommandRaises, Fault, Idle
    <3> QED
      BY <1>0, <2>0, <3>1 DEF LogInv, BeingPublished
  <2> QED
    BY <1>7, <2>2, <2>3, <2>4, <2>5, <2>6 DEF Reactor
<1> QED
  BY <1>1, <1>2, <1>3, <1>4, <1>5, <1>6, <1>7
  DEF Next, vars, configVars, handlerVars, envVars

\* Every batch of logs beyond the ones published that a reader was told is
\* received is paid for by a failure of Redis or an end of the process, one each,
\* or is just being published.
THEOREM LogsLossIsBounded == Spec => []LogsLostPerFailure
<1>1. TypeOK /\ LogInv => LogsLostPerFailure
  BY TypeParts DEF LogInv, BeingPublished, LogsLostPerFailure, HandlerTypeOK
<1> QED
  BY <1>1, LogInit, LogNext, TypeCorrect, PTL DEF Spec

-----------------------------------------------------------------------------
(* The lists. *)

\* blpop and del only take elements away.
LEMMA ListsShrink ==
  ASSUME RedisTypeOK, NEW s \in SN,
         \/ UNCHANGED lists \/ DEL(s) \/ \E r \in Requests : BLPOP(r, s)
  PROVE  \A k \in SN :
           /\ Len(lists'[k]) \in Nat
           /\ Len(lists'[k]) <= Len(lists[k])
           /\ \A i \in 1..Len(lists'[k]) :
                \E j \in 1..Len(lists[k]) : lists'[k][i] = lists[k][j]
<1> SUFFICES ASSUME NEW k \in SN
             PROVE  /\ Len(lists'[k]) \in Nat
                    /\ Len(lists'[k]) <= Len(lists[k])
                    /\ \A i \in 1..Len(lists'[k]) :
                         \E j \in 1..Len(lists[k]) : lists'[k][i] = lists[k][j]
  OBVIOUS
<1>0. lists[k] \in Seq(Message) /\ Len(lists[k]) \in Nat
  BY DEF RedisTypeOK
<1>1. CASE lists'[k] = lists[k]
  BY <1>0, <1>1
<1>2. CASE lists'[k] = <<>>
  BY <1>0, <1>2
<1>3. CASE lists[k] # <<>> /\ lists'[k] = Tail(lists[k])
  <2>1. Len(Tail(lists[k])) = Len(lists[k]) - 1
    BY <1>0, <1>3, HeadTailProperties
  <2>2. \A i \in 1..Len(Tail(lists[k])) :
          \E j \in 1..Len(lists[k]) : Tail(lists[k])[i] = lists[k][j]
    BY <1>0, <1>3, TailElements
  <2>3. Len(lists[k]) # 0
    BY <1>0, <1>3, EmptySeq
  <2> QED
    BY <1>0, <1>3, <2>1, <2>2, <2>3
<1> QED
  BY <1>1, <1>2, <1>3 DEF DEL, BLPOP, RedisTypeOK

\* The requests only take elements away.
LEMMA PoolLists ==
  ASSUME TypeOK, Pool
  PROVE  \A k \in SN :
           /\ Len(lists'[k]) \in Nat
           /\ Len(lists'[k]) <= Len(lists[k])
           /\ \A i \in 1..Len(lists'[k]) :
                \E j \in 1..Len(lists[k]) : lists'[k][i] = lists[k][j]
<1> USE TypeParts, ServerParts
<1>1. \/ UNCHANGED lists
      \/ \E r \in Requests : Blpop(r)
  BY DEF Pool, GetChat, PostChat, Lookup, SendCommand, Response, Timeout,
         BlpopRaises, Unblock, configVars, redisVars
<1>2. ASSUME NEW r \in Requests, Blpop(r)
      PROVE  \E s \in SN : BLPOP(r, s)
  <2>1. post[r] # Nil
    BY <1>2 DEF Blpop, ProgressOK
  <2> QED
    BY <1>2, <2>1, PostChannel DEF Blpop
<1>3. CASE UNCHANGED lists
  BY <1>3 DEF RedisTypeOK
<1> QED
  BY <1>1, <1>2, <1>3, ListsShrink

\* The callback clears the list of the reader before it registers the socket.
ClearedFirst == reactor.pc = "register" => lists[reactor.msg.sn] = <<>>

MailboxInv == MailboxTransient /\ ClearedFirst /\ FreshMailbox

\* The lists are empty at first.
LEMMA MailboxInit == Init => MailboxInv
BY DEF Init, HandlerInit, ConfigInit, Idle, MailboxInv, MailboxTransient,
       ClearedFirst, FreshMailbox, InTransit

\* A step with no frame pushed or dropped: the lists shrink and the callback
\* stays away from lpush and del, or does not move.
LEMMA MailboxShrinks ==
  ASSUME TypeOK, MailboxInv,
         \A s \in SN : Len(lists'[s]) \in Nat /\ Len(lists'[s]) <= Len(lists[s]),
         \A s \in SN : InTransit(s)' = InTransit(s),
         \A s \in SN : connections'[s] # Nil
           => connections[s] # Nil \/ lists'[s] = <<>>,
         reactor'.pc = "register" => reactor' = reactor,
         faults' \in {faults, faults + 1}, crashes' = crashes,
         TypeOK'
  PROVE  MailboxInv'
<1> USE TypeParts
<1>0. /\ faults \in Nat /\ faults' \in Nat /\ faults <= faults' /\ crashes \in Nat
      /\ \A s \in SN : Len(lists[s]) \in Nat /\ InTransit(s) \in Nat
      /\ \A s \in SN : lists[s] \in Seq(Message) /\ lists'[s] \in Seq(Message)
  BY DEF RegistryTypeOK, EnvTypeOK, RedisTypeOK, InTransit
<1>1. MailboxTransient'
  BY <1>0, SMTT(30) DEF MailboxInv, MailboxTransient
<1>2. ClearedFirst'
  <2> SUFFICES ASSUME reactor'.pc = "register"
               PROVE  lists'[reactor'.msg.sn] = <<>>
    BY DEF ClearedFirst
  <2>1. reactor' = reactor /\ reactor.pc = "register"
    OBVIOUS
  <2>2. PICK s \in SN : s = reactor.msg.sn
    BY <2>1, BusyReactor
  <2>3. lists[s] = <<>>
    BY <2>1, <2>2 DEF MailboxInv, ClearedFirst
  <2>4. Len(lists'[s]) = 0
    BY <1>0, <2>3
  <2> QED
    BY <1>0, <2>1, <2>2, <2>4, EmptySeq
<1>3. FreshMailbox'
  <2> SUFFICES ASSUME faults' = 0, NEW s \in SN, connections'[s] # Nil
               PROVE  Len(lists'[s]) <= InTransit(s)'
    BY DEF FreshMailbox
  <2>1. faults = 0
    BY <1>0
  <2>2. CASE lists'[s] = <<>>
    BY <1>0, <2>2
  <2>3. CASE connections[s] # Nil
    <3>1. Len(lists[s]) <= InTransit(s)
      BY <2>1, <2>3 DEF MailboxInv, FreshMailbox
    <3> QED
      BY <1>0, <3>1
  <2> QED
    BY <2>2, <2>3
<1> QED
  BY <1>1, <1>2, <1>3 DEF MailboxInv

\* lpush adds at most the frame that is then in transit.
LEMMA MailboxPush ==
  ASSUME TypeOK, TypeOK', MailboxInv, PushResponse, UNCHANGED envVars
  PROVE  MailboxInv'
<1> USE TypeParts
<1>1. reactor.pc = "lpush" /\ reactor.pc # "idle"
  BY DEF PushResponse
<1>2. PICK n \in SN : n = reactor.msg.sn
  BY <1>1, BusyReactor
<1>3. reactor'.pc = "del" /\ reactor'.msg.sn = n
  BY <1>1, <1>2, BusyReactor DEF PushResponse, GoTo, Busy
<1>4. \A s \in SN : /\ InTransit(s) = 0
                    /\ InTransit(s)' = IF s = n THEN 1 ELSE 0
  BY <1>1, <1>3 DEF InTransit
<1>5. \A s \in SN : lists[s] \in Seq(Message) /\ Len(lists[s]) \in Nat
  BY DEF RedisTypeOK
<1>6. Len(<<reactor.msg>> \o lists[n]) = Len(lists[n]) + 1
  <2>1. reactor.msg \in Message
    BY <1>1, BusyReactor
  <2>2. <<reactor.msg>> \in Seq(Message) /\ Len(<<reactor.msg>>) = 1
    BY <2>1
  <2> QED
    BY <1>5, <2>2, ConcatProperties
<1>7. \A s \in SN : \/ Len(lists'[s]) = Len(lists[s])
                    \/ s = n /\ Len(lists'[s]) = Len(lists[s]) + 1
  BY <1>2, <1>6 DEF PushResponse, LPUSH, RedisTypeOK
<1>8. UNCHANGED <<connections, faults, crashes>> /\ faults \in Nat /\ crashes \in Nat
  BY DEF PushResponse, envVars, RegistryTypeOK, EnvTypeOK
<1>9. MailboxTransient'
  BY <1>4, <1>5, <1>7, <1>8 DEF MailboxInv, MailboxTransient
<1>10. FreshMailbox'
  BY <1>4, <1>5, <1>7, <1>8 DEF MailboxInv, FreshMailbox
<1>11. ClearedFirst'
  BY <1>3 DEF ClearedFirst
<1> QED
  BY <1>9, <1>10, <1>11 DEF MailboxInv

\* del takes the frame in transit, and all the others, away.
LEMMA MailboxDelete ==
  ASSUME TypeOK, TypeOK', MailboxInv, DeleteResponses, UNCHANGED envVars
  PROVE  MailboxInv'
<1> USE TypeParts
<1>1. reactor.pc = "del" /\ reactor.pc # "idle"
  BY DEF DeleteResponses
<1>2. PICK n \in SN : n = reactor.msg.sn
  BY <1>1, BusyReactor
<1>3. reactor'.pc = "register" /\ reactor'.msg.sn = n
  BY <1>1, <1>2, BusyReactor DEF DeleteResponses, GoTo, Busy
<1>4. \A s \in SN : /\ InTransit(s) = IF s = n THEN 1 ELSE 0
                    /\ InTransit(s)' = 0
  BY <1>1, <1>2, <1>3 DEF InTransit
<1>5. \A s \in SN : lists'[s] = IF s = n THEN <<>> ELSE lists[s]
  BY <1>2 DEF DeleteResponses, DEL, RedisTypeOK
<1>6. UNCHANGED <<connections, faults, crashes>> /\ faults \in Nat /\ crashes \in Nat
  BY DEF DeleteResponses, envVars, RegistryTypeOK, EnvTypeOK
<1>7. MailboxTransient'
  BY <1>4, <1>5, <1>6 DEF MailboxInv, MailboxTransient
<1>8. FreshMailbox'
  BY <1>4, <1>5, <1>6 DEF MailboxInv, FreshMailbox
<1>9. ClearedFirst'
  BY <1>3, <1>5 DEF ClearedFirst
<1> QED
  BY <1>7, <1>8, <1>9 DEF MailboxInv

\* A frame left behind, by a command that raises or by the end of the process, is
\* paid for by one failure.
LEMMA MailboxFailure ==
  ASSUME TypeOK, TypeOK', MailboxInv, UNCHANGED lists, reactor' = Idle,
         \/ faults' = faults + 1 /\ crashes' = crashes
         \/ faults' = faults /\ crashes' = crashes + 1
            /\ connections' = [s \in SN |-> Nil]
  PROVE  MailboxInv'
<1> USE TypeParts
<1>0. /\ faults \in Nat /\ crashes \in Nat
      /\ \A s \in SN : Len(lists[s]) \in Nat /\ InTransit(s) \in {0, 1}
  BY DEF RegistryTypeOK, EnvTypeOK, RedisTypeOK, InTransit
<1>1. reactor'.pc = "idle" /\ \A s \in SN : InTransit(s)' = 0
  BY DEF Idle, InTransit
<1>2. MailboxTransient'
  BY <1>0, <1>1 DEF MailboxInv, MailboxTransient
<1>3. ClearedFirst'
  BY <1>1 DEF ClearedFirst
<1>4. FreshMailbox'
  BY <1>0, <1>1 DEF FreshMailbox
<1> QED
  BY <1>2, <1>3, <1>4 DEF MailboxInv

\* Every step preserves the invariant.
LEMMA MailboxNext ==
  ASSUME TypeOK, TypeOK', MailboxInv, [Next]_vars
  PROVE  MailboxInv'
<1> USE TypeParts
<1>0. \A s \in SN : Len(lists[s]) \in Nat /\ Len(lists[s]) <= Len(lists[s])
  BY DEF RedisTypeOK
<1>1. CASE UNCHANGED <<lists, reactor, connections, crashes>>
             /\ faults' \in {faults, faults + 1}
  BY <1>0, <1>1, MailboxShrinks DEF InTransit
<1>2. ASSUME NEW c \in Ws, Readers(c)
      PROVE  MailboxInv'
  BY <1>1, <1>2, ReadersFrame DEF handlerVars, redisVars
<1>3. ASSUME NEW c \in Ws, NEW s \in SN \cup {Nil}, Subscribers(c, s)
      PROVE  MailboxInv'
  BY <1>1, <1>3, SubscribersFrame DEF envVars, redisVars
<1>4. CASE Publisher
  BY <1>1, <1>4, PublisherFrame DEF configVars, redisVars, envVars
<1>5. CASE Pool
  <2>1. UNCHANGED <<reactor, connections, crashes>>
    BY <1>5, PoolFrame DEF handlerVars, envVars
  <2>2. \A s \in SN : InTransit(s)' = InTransit(s)
    BY <2>1 DEF InTransit
  <2> QED
    BY <1>5, <2>1, <2>2, PoolFrame, PoolLists, MailboxShrinks
<1>6. CASE Crash
  BY <1>6, MailboxFailure DEF Crash
<1>7. CASE Reactor
  <2>0. UNCHANGED envVars /\ UNCHANGED crashes
    BY <1>7, ReactorFrame DEF envVars
  <2>1. ASSUME reactor.pc # "del", reactor'.pc \notin {"del", "register"},
               UNCHANGED <<lists, faults>>,
               \A s \in SN : connections'[s] # Nil
                 => connections[s] # Nil \/ lists'[s] = <<>>
        PROVE  MailboxInv'
    <3>1. \A s \in SN : InTransit(s)' = InTransit(s)
      BY <2>1 DEF InTransit
    <3> QED
      BY <1>0, <2>0, <2>1, <3>1, MailboxShrinks
  <2>2. ASSUME NEW c \in Ws, OnOpen(c) \/ OnMessage(c)
        PROVE  MailboxInv'
    <3>1. reactor.pc # "del" /\ reactor'.pc \notin {"del", "register"}
      BY <2>2 DEF OnOpen, OnMessage, Idle, handlerVars
    <3> QED
      BY <2>1, <2>2, <3>1 DEF OnOpen, OnMessage, redisVars
  <2>3. ASSUME NEW c \in Ws, OnClose(c)
        PROVE  MailboxInv'
    <3>1. reactor.pc # "del" /\ reactor'.pc \notin {"del", "register"}
      BY <2>3 DEF OnClose, Idle, handlerVars
    <3>2. \A s \in SN : connections'[s] # Nil => connections[s] # Nil
      BY <2>3 DEF OnClose, RegistryTypeOK
    <3> QED
      BY <2>1, <2>3, <3>1, <3>2 DEF OnClose, redisVars
  <2>4. CASE Register
    <3>1. reactor.pc = "register" /\ reactor.pc # "idle"
      BY <2>4 DEF Register
    <3>2. PICK n \in SN : n = reactor.msg.sn
      BY <3>1, BusyReactor
    <3>3. reactor'.pc = "handle_reg"
      BY <2>4, <3>1, BusyReactor DEF Register, GoTo, Busy
    <3>4. UNCHANGED <<lists, faults>> /\ lists'[n] = <<>>
      BY <2>4, <3>1, <3>2 DEF Register, redisVars, MailboxInv, ClearedFirst
    <3>5. \A s \in SN : s # n => connections'[s] = connections[s]
      BY <2>4, <3>2 DEF Register, RegistryTypeOK
    <3> QED
      BY <2>1, <3>1, <3>3, <3>4, <3>5
  <2>5. CASE HandleReg
    <3>1. reactor.pc = "handle_reg" /\ reactor'.pc \in {"publish", "start"}
      BY <2>5, BusyReactor DEF HandleReg, GoTo, Busy
    <3> QED
      BY <2>1, <2>5, <3>1 DEF HandleReg, configVars, redisVars
  <2>6. CASE PublishLog \/ StartSubscriber
    BY <2>1, <2>6 DEF PublishLog, StartSubscriber, Idle, configVars, redisVars
  <2>7. CASE RedisCommandRaises
    BY <2>0, <2>7, MailboxFailure DEF RedisCommandRaises, Fault, redisVars
  <2> QED
    BY <1>7, <2>0, <2>2, <2>3, <2>4, <2>5, <2>6, <2>7, MailboxPush,
       MailboxDelete DEF Reactor
<1> QED
  BY <1>1, <1>2, <1>3, <1>4, <1>5, <1>6, <1>7
  DEF Next, vars, configVars, redisVars, handlerVars, envVars

\* The invariant holds in every reachable state.
LEMMA MailboxAlways == Spec => []MailboxInv
<1>1. TypeOK /\ TypeOK' /\ MailboxInv /\ [Next]_vars => MailboxInv'
  BY MailboxNext
<1> QED
  BY <1>1, MailboxInit, TypeCorrect, PTL DEF Spec

\* Responses never pile up in Redis by more than one for each failure, beyond the
\* one that is in transit.
THEOREM MailboxIsTransient == Spec => []MailboxTransient
<1>1. MailboxInv => MailboxTransient
  BY DEF MailboxInv
<1> QED
  BY <1>1, MailboxAlways, PTL

\* However often the process ended and whatever it left in Redis, a reader that
\* POSTs can be sent to has a clean list, as long as no Redis command raised.
THEOREM MailboxIsFresh == Spec => []FreshMailbox
<1>1. MailboxInv => FreshMailbox
  BY DEF MailboxInv
<1> QED
  BY <1>1, MailboxAlways, PTL

-----------------------------------------------------------------------------
(* Who waits. *)

\* The invariant behind NoGhostWaiter: Redis holds exactly the requests that are
\* blocked and not answered, each once and on the key of its reader, and what
\* Redis answers is for a request that is blocked.
HeldWait ==
  \A s \in SN : \A r \in Elements(blocked[s]) :
    http[r] = "blocked" /\ reply[r] = Nil /\ post[r].channel = s

HeldOnce == \A s \in SN : Distinct(blocked[s])

WaitIsHeld ==
  \A r \in Requests : http[r] = "blocked" /\ reply[r] = Nil
    => r \in Elements(blocked[post[r].channel])

AnswerIsAwaited == \A r \in Requests : reply[r] # Nil => http[r] = "blocked"

WaiterInv == HeldWait /\ HeldOnce /\ WaitIsHeld /\ AnswerIsAwaited

\* Nobody waits at first.
LEMMA WaiterInit == Init => WaiterInv
<1> SUFFICES ASSUME Init PROVE WaiterInv
  OBVIOUS
<1>1. /\ \A s \in SN : blocked[s] = <<>>
      /\ \A r \in Requests : reply[r] = Nil /\ http[r] = "new"
  BY DEF Init, ConfigInit, ServerInit
<1>2. HeldWait /\ HeldOnce
  BY <1>1, EmptyElements DEF HeldWait, HeldOnce
<1>3. WaitIsHeld /\ AnswerIsAwaited
  BY <1>1 DEF WaitIsHeld, AnswerIsAwaited
<1> QED
  BY <1>2, <1>3 DEF WaiterInv

\* A request that is blocked stays with its reader.
LEMMA WaiterStep ==
  ASSUME TypeOK, WaiterInv, UNCHANGED <<blocked, reply>>,
         \A r \in Requests :
           \/ http'[r] = http[r] /\ post'[r] = post[r]
           \/ http[r] # "blocked" /\ http'[r] # "blocked"
  PROVE  WaiterInv'
<1>1. \A s \in SN : Elements(blocked[s]) \subseteq Requests
  <2>1. \A s \in SN : blocked[s] \in Seq(Requests)
    BY TypeParts DEF RedisTypeOK
  <2> QED
    BY <2>1, ElementsType
<1>2. \A s \in SN : Elements(blocked[s])' = Elements(blocked[s])
  BY DEF Elements
<1>3. HeldWait'
  BY <1>1, <1>2 DEF WaiterInv, HeldWait
<1>4. HeldOnce'
  BY DEF WaiterInv, HeldOnce
<1>5. WaitIsHeld'
  BY DEF WaiterInv, WaitIsHeld
<1>6. AnswerIsAwaited'
  BY DEF WaiterInv, AnswerIsAwaited
<1> QED
  BY <1>3, <1>4, <1>5, <1>6 DEF WaiterInv

\* A frame pushed goes to the request held longest, which is then answered and no
\* longer held.
LEMMA WaiterPush ==
  ASSUME TypeOK, WaiterInv, NEW s \in SN, NEW m \in Message, LPUSH(s, m),
         UNCHANGED <<http, post>>
  PROVE  WaiterInv'
<1>a. /\ blocked \in [SN -> Seq(Requests)]
      /\ reply \in [Requests -> Message \cup {Nil}]
  BY TypeParts DEF RedisTypeOK
<1>b. \A q \in Requests : http[q] = "blocked" => post[q].channel \in SN
  BY TypeParts, ServerParts, PostChannel DEF ProgressOK
<1>1. CASE blocked[s] = <<>>
  BY <1>1, WaiterStep DEF LPUSH
<1>2. CASE blocked[s] # <<>>
  <2>0. blocked[s] \in Seq(Requests) /\ m # Nil
    BY <1>a, NilAssumption DEF NilAssumption
  <2>1. PICK h \in Requests, t \in Seq(Requests) :
          /\ h = Head(blocked[s]) /\ t = Tail(blocked[s])
          /\ Elements(blocked[s]) = {h} \cup Elements(t)
          /\ Distinct(t) /\ h \notin Elements(t)
    BY <1>2, <2>0, TakesHead DEF WaiterInv, HeldOnce
  <2>2. /\ reply' = [reply EXCEPT ![h] = m]
        /\ blocked' = [blocked EXCEPT ![s] = t]
    BY <1>2, <2>1 DEF LPUSH
  <2>3. http[h] = "blocked" /\ reply[h] = Nil /\ post[h].channel = s
    BY <2>1 DEF WaiterInv, HeldWait
  <2>4. /\ \A k \in SN : blocked'[k] = IF k = s THEN t ELSE blocked[k]
        /\ \A r \in Requests : reply'[r] = IF r = h THEN m ELSE reply[r]
    BY <1>a, <2>2
  <2>5. \A k \in SN : Elements(blocked[k]) \subseteq Requests
    BY <1>a, ElementsType
  <2>6. HeldWait'
    <3> SUFFICES ASSUME NEW k \in SN, NEW r \in Elements(blocked'[k])
                 PROVE  http[r] = "blocked" /\ reply'[r] = Nil
                          /\ post[r].channel = k
      BY DEF HeldWait
    <3>1. r \in Elements(blocked[k])
      BY <2>1, <2>4
    <3>2. r \in Requests /\ r # h
      BY <2>1, <2>3, <2>4, <2>5, <3>1 DEF WaiterInv, HeldWait
    <3> QED
      BY <2>4, <3>1, <3>2 DEF WaiterInv, HeldWait
  <2>7. HeldOnce'
    BY <2>1, <2>4 DEF WaiterInv, HeldOnce
  <2>8. WaitIsHeld'
    <3> SUFFICES ASSUME NEW r \in Requests, http[r] = "blocked", reply'[r] = Nil
                 PROVE  r \in Elements(blocked'[post[r].channel])
      BY DEF WaitIsHeld
    <3>1. r # h /\ reply[r] = Nil
      BY <2>0, <2>4
    <3>2. r \in Elements(blocked[post[r].channel])
      BY <3>1 DEF WaiterInv, WaitIsHeld
    <3>3. post[r].channel \in SN
      BY <1>b
    <3> QED
      BY <2>1, <2>4, <3>1, <3>2, <3>3
  <2>9. AnswerIsAwaited'
    BY <2>3, <2>4 DEF WaiterInv, AnswerIsAwaited
  <2> QED
    BY <2>6, <2>7, <2>8, <2>9 DEF WaiterInv
<1> QED
  BY <1>1, <1>2

\* A request that calls blpop is answered at once or held.
LEMMA WaiterBlpop ==
  ASSUME TypeOK, WaiterInv, NEW r \in Requests, http[r] = "blpop",
         BLPOP(r, post[r].channel), http' = [http EXCEPT ![r] = "blocked"],
         UNCHANGED post
  PROVE  WaiterInv'
<1>a. /\ blocked \in [SN -> Seq(Requests)] /\ lists \in [SN -> Seq(Message)]
      /\ reply \in [Requests -> Message \cup {Nil}]
      /\ http \in [Requests -> {"new", "lookup", "send", "blpop", "blocked",
                                "done", "lost"}]
  BY TypeParts, ServerParts DEF RedisTypeOK
<1>b. \A q \in Requests : http[q] \in {"blpop", "blocked"}
        => post[q].channel \in SN
  BY TypeParts, ServerParts, PostChannel, ZenonT(30) DEF ProgressOK
<1>0. PICK s \in SN : s = post[r].channel
  BY <1>b
<1>1. reply[r] = Nil /\ \A k \in SN : r \notin Elements(blocked[k])
  BY DEF WaiterInv, HeldWait, AnswerIsAwaited
<1>2. \A q \in Requests : http'[q] = IF q = r THEN "blocked" ELSE http[q]
  BY <1>a
<1>3. \A k \in SN : Elements(blocked[k]) \subseteq Requests
  BY <1>a, ElementsType
<1>4. CASE lists[s] = <<>>
  <2>1. PICK t \in Seq(Requests) :
          /\ t = Append(blocked[s], r)
          /\ Elements(t) = Elements(blocked[s]) \cup {r}
          /\ Distinct(t)
    BY <1>a, <1>1, AppendsOne DEF WaiterInv, HeldOnce
  <2>2. /\ UNCHANGED reply
        /\ \A k \in SN : blocked'[k] = IF k = s THEN t ELSE blocked[k]
    BY <1>a, <1>0, <1>4, <2>1 DEF BLPOP
  <2>3. HeldWait'
    <3> SUFFICES ASSUME NEW k \in SN, NEW q \in Elements(blocked'[k])
                 PROVE  http'[q] = "blocked" /\ reply[q] = Nil
                          /\ post[q].channel = k
      BY <2>2 DEF HeldWait
    <3>1. (q = r /\ k = s) \/ (q \in Elements(blocked[k]) /\ q \in Requests)
      BY <1>3, <2>1, <2>2
    <3> QED
      BY <1>0, <1>1, <1>2, <3>1 DEF WaiterInv, HeldWait
  <2>4. HeldOnce'
    BY <2>1, <2>2 DEF WaiterInv, HeldOnce
  <2>5. WaitIsHeld'
    <3> SUFFICES ASSUME NEW q \in Requests, http'[q] = "blocked", reply[q] = Nil
                 PROVE  q \in Elements(blocked'[post[q].channel])
      BY <2>2 DEF WaitIsHeld
    <3>1. CASE q = r
      BY <1>0, <2>1, <2>2, <3>1
    <3>2. CASE q # r
      <4>1. http[q] = "blocked" /\ q \in Elements(blocked[post[q].channel])
        BY <1>2, <3>2 DEF WaiterInv, WaitIsHeld
      <4>2. post[q].channel \in SN
        BY <1>b, <4>1
      <4> QED
        BY <2>1, <2>2, <4>1, <4>2
    <3> QED
      BY <3>1, <3>2
  <2>6. AnswerIsAwaited'
    BY <1>2, <2>2 DEF WaiterInv, AnswerIsAwaited
  <2> QED
    BY <2>3, <2>4, <2>5, <2>6 DEF WaiterInv
<1>5. CASE lists[s] # <<>>
  <2>1. PICK m \in Message : m = Head(lists[s])
    BY <1>a, <1>5, HeadTailProperties
  <2>2. /\ UNCHANGED blocked /\ m # Nil
        /\ \A q \in Requests : reply'[q] = IF q = r THEN m ELSE reply[q]
    BY <1>a, <1>0, <1>5, <2>1, NilAssumption DEF BLPOP, NilAssumption
  <2>3. \A k \in SN : Elements(blocked[k])' = Elements(blocked[k])
    BY <2>2 DEF Elements
  <2>4. HeldWait'
    <3> SUFFICES ASSUME NEW k \in SN, NEW q \in Elements(blocked[k])
                 PROVE  http'[q] = "blocked" /\ reply'[q] = Nil
                          /\ post[q].channel = k
      BY <2>3 DEF HeldWait
    <3>1. q \in Requests /\ q # r
      BY <1>1, <1>3
    <3> QED
      BY <1>2, <2>2, <3>1 DEF WaiterInv, HeldWait
  <2>5. HeldOnce'
    BY <2>2 DEF WaiterInv, HeldOnce
  <2>6. WaitIsHeld'
    <3> SUFFICES ASSUME NEW q \in Requests, http'[q] = "blocked", reply'[q] = Nil
                 PROVE  q \in Elements(blocked[post[q].channel])
      BY <2>2 DEF WaitIsHeld
    <3> QED
      BY <1>2, <2>2 DEF WaiterInv, WaitIsHeld
  <2>7. AnswerIsAwaited'
    BY <1>2, <2>2 DEF WaiterInv, AnswerIsAwaited
  <2> QED
    BY <2>4, <2>5, <2>6, <2>7 DEF WaiterInv
<1> QED
  BY <1>4, <1>5

\* A request that was answered is held nowhere when it goes on.
LEMMA WaiterResponse ==
  ASSUME TypeOK, WaiterInv, NEW r \in Requests, reply[r] # Nil, NEW label,
         label # "blocked", http' = [http EXCEPT ![r] = label],
         reply' = [reply EXCEPT ![r] = Nil], UNCHANGED <<post, blocked>>
  PROVE  WaiterInv'
<1>a. /\ blocked \in [SN -> Seq(Requests)] /\ lists \in [SN -> Seq(Message)]
      /\ reply \in [Requests -> Message \cup {Nil}]
      /\ http \in [Requests -> {"new", "lookup", "send", "blpop", "blocked",
                                "done", "lost"}]
  BY TypeParts, ServerParts DEF RedisTypeOK
<1>b. \A q \in Requests : http[q] \in {"blpop", "blocked"}
        => post[q].channel \in SN
  BY TypeParts, ServerParts, PostChannel, ZenonT(30) DEF ProgressOK
<1>1. /\ \A q \in Requests : http'[q] = IF q = r THEN label ELSE http[q]
      /\ \A q \in Requests : reply'[q] = IF q = r THEN Nil ELSE reply[q]
  BY <1>a
<1>2. \A k \in SN : Elements(blocked[k])' = Elements(blocked[k])
  BY DEF Elements
<1>3. \A k \in SN : \A q \in Elements(blocked[k]) : q \in Requests /\ q # r
  <2>1. \A k \in SN : Elements(blocked[k]) \subseteq Requests
    BY <1>a, ElementsType
  <2> QED
    BY <2>1 DEF WaiterInv, HeldWait
<1>4. HeldWait'
  BY <1>1, <1>2, <1>3 DEF WaiterInv, HeldWait
<1>5. HeldOnce'
  BY DEF WaiterInv, HeldOnce
<1>6. WaitIsHeld'
  <2> SUFFICES ASSUME NEW q \in Requests, http'[q] = "blocked", reply'[q] = Nil
               PROVE  q \in Elements(blocked[post[q].channel])
    BY DEF WaitIsHeld
  <2> QED
    BY <1>1 DEF WaiterInv, WaitIsHeld
<1>7. AnswerIsAwaited'
  BY <1>1 DEF WaiterInv, AnswerIsAwaited
<1> QED
  BY <1>4, <1>5, <1>6, <1>7 DEF WaiterInv

\* A request that gives up is held no longer: Redis forgets it as it is told.
LEMMA WaiterGivesUp ==
  ASSUME TypeOK, WaiterInv, NEW r \in Requests, http[r] = "blocked",
         Unblock(r, post[r].channel), NEW label, label # "blocked",
         http' = [http EXCEPT ![r] = label], UNCHANGED post, reply[r] = Nil
  PROVE  WaiterInv'
<1>a. /\ blocked \in [SN -> Seq(Requests)] /\ lists \in [SN -> Seq(Message)]
      /\ reply \in [Requests -> Message \cup {Nil}]
      /\ http \in [Requests -> {"new", "lookup", "send", "blpop", "blocked",
                                "done", "lost"}]
  BY TypeParts, ServerParts DEF RedisTypeOK
<1>b. \A q \in Requests : http[q] \in {"blpop", "blocked"}
        => post[q].channel \in SN
  BY TypeParts, ServerParts, PostChannel, ZenonT(30) DEF ProgressOK
<1>0. PICK s \in SN : s = post[r].channel
  BY <1>b
<1>1. blocked[s] \in Seq(Requests) /\ Distinct(blocked[s])
  BY <1>a DEF WaiterInv, HeldOnce
<1>2. PICK i \in 1..Len(blocked[s]) :
        /\ blocked[s][i] = r
        /\ blocked' = [blocked EXCEPT ![s] = Remove(blocked[s], i)]
  BY <1>0 DEF Unblock, Remove
<1>3. PICK t \in Seq(Requests) :
        /\ t = Remove(blocked[s], i) /\ Distinct(t)
        /\ Elements(t) = Elements(blocked[s]) \ {r}
  BY <1>1, <1>2, RemoveProperties, RemovesOne
<1>4. /\ \A k \in SN : blocked'[k] = IF k = s THEN t ELSE blocked[k]
      /\ \A q \in Requests : http'[q] = IF q = r THEN label ELSE http[q]
      /\ UNCHANGED reply
  BY <1>a, <1>2, <1>3 DEF Unblock
<1>5. \A k \in SN : Elements(blocked'[k]) = Elements(blocked[k]) \ {r}
  <2>1. \A k \in SN : k # s => r \notin Elements(blocked[k])
    BY <1>0 DEF WaiterInv, HeldWait
  <2> QED
    BY <1>3, <1>4, <2>1
<1>6. \A k \in SN : Elements(blocked[k]) \subseteq Requests
  BY <1>a, ElementsType
<1>7. HeldWait'
  <2> SUFFICES ASSUME NEW k \in SN, NEW q \in Elements(blocked'[k])
               PROVE  http'[q] = "blocked" /\ reply[q] = Nil
                        /\ post[q].channel = k
    BY <1>4 DEF HeldWait
  <2>1. q \in Requests /\ q # r /\ q \in Elements(blocked[k])
    BY <1>5, <1>6
  <2> QED
    BY <1>4, <2>1 DEF WaiterInv, HeldWait
<1>8. HeldOnce'
  BY <1>3, <1>4 DEF WaiterInv, HeldOnce
<1>9. WaitIsHeld'
  <2> SUFFICES ASSUME NEW q \in Requests, http'[q] = "blocked", reply[q] = Nil
               PROVE  q \in Elements(blocked'[post[q].channel])
    BY <1>4 DEF WaitIsHeld
  <2>1. q # r /\ http[q] = "blocked"
    BY <1>4
  <2>2. q \in Elements(blocked[post[q].channel]) /\ post[q].channel \in SN
    BY <1>b, <2>1 DEF WaiterInv, WaitIsHeld
  <2> QED
    BY <1>5, <2>1, <2>2
<1>10. AnswerIsAwaited'
  BY <1>4 DEF WaiterInv, AnswerIsAwaited
<1> QED
  BY <1>7, <1>8, <1>9, <1>10 DEF WaiterInv

\* The requests preserve the invariant.
LEMMA WaiterPool ==
  ASSUME TypeOK, WaiterInv, Pool
  PROVE  WaiterInv'
<1> USE TypeParts, ServerParts
<1>0. ASSUME NEW r \in Requests, NEW label, http[r] # "blocked",
             label # "blocked", http' = [http EXCEPT ![r] = label],
             \A q \in Requests : q # r => post'[q] = post[q],
             UNCHANGED <<blocked, reply>>
      PROVE  WaiterInv'
  BY <1>0, WaiterStep
<1>1. ASSUME NEW c \in Ws, GetChat(c)
      PROVE  WaiterInv'
  BY <1>1, WaiterStep DEF GetChat, serverVars, redisVars
<1>2. ASSUME NEW r \in Requests, NEW p \in Posts, PostChat(r, p)
      PROVE  WaiterInv'
  <2>1. PICK label \in {"lookup", "done"} : http' = [http EXCEPT ![r] = label]
    BY <1>2 DEF PostChat
  <2>2. http[r] # "blocked" /\ UNCHANGED <<blocked, reply>>
    BY <1>2 DEF PostChat, configVars, redisVars
  <2>3. \A q \in Requests : q # r => post'[q] = post[q]
    BY <1>2 DEF PostChat
  <2> QED
    BY <1>0, <2>1, <2>2, <2>3
<1>3. ASSUME NEW r \in Requests, Lookup(r)
      PROVE  WaiterInv'
  <2>1. PICK label \in {"lookup", "done", "send"} :
          http' = [http EXCEPT ![r] = label]
    BY <1>3 DEF Lookup, NextItem
  <2>2. http[r] # "blocked" /\ UNCHANGED <<blocked, reply>>
    BY <1>3 DEF Lookup, configVars, redisVars
  <2>3. \A q \in Requests : q # r => post'[q] = post[q]
    BY <1>3 DEF Lookup, NextItem
  <2> QED
    BY <1>0, <2>1, <2>2, <2>3
<1>4. ASSUME NEW r \in Requests, SendCommand(r)
      PROVE  WaiterInv'
  <2>1. PICK label \in {"blpop", "done"} : http' = [http EXCEPT ![r] = label]
    BY <1>4 DEF SendCommand, Raises
  <2>2. http[r] # "blocked" /\ UNCHANGED <<blocked, reply>>
    BY <1>4 DEF SendCommand, redisVars
  <2>3. \A q \in Requests : q # r => post'[q] = post[q]
    BY <1>4 DEF SendCommand, Raises
  <2> QED
    BY <1>0, <2>1, <2>2, <2>3
<1>5. ASSUME NEW r \in Requests, Blpop(r)
      PROVE  WaiterInv'
  BY <1>5, WaiterBlpop DEF Blpop
<1>6. ASSUME NEW r \in Requests, Response(r)
      PROVE  WaiterInv'
  <2>1. \E label \in {"lookup", "done"} : http' = [http EXCEPT ![r] = label]
    BY <1>6 DEF Response, NextItem
  <2> QED
    BY <1>6, <2>1, WaiterResponse, ZenonT(30) DEF Response, NextItem
<1>7. ASSUME NEW r \in Requests, Timeout(r)
      PROVE  WaiterInv'
  <2>1. \E label \in {"lookup", "done"} : http' = [http EXCEPT ![r] = label]
    BY <1>7 DEF Timeout, NextItem
  <2> QED
    BY <1>7, <2>1, WaiterGivesUp DEF Timeout, NextItem
<1>8. ASSUME NEW r \in Requests, BlpopRaises(r)
      PROVE  WaiterInv'
  <2>0. http' = [http EXCEPT ![r] = "done"] /\ UNCHANGED post
    BY <1>8 DEF BlpopRaises, Raises
  <2>1. CASE http[r] = "blocked" /\ reply[r] = Nil
    BY <1>8, <2>0, <2>1, WaiterGivesUp DEF BlpopRaises
  <2>2. CASE http[r] = "blocked" /\ reply[r] # Nil
    BY <1>8, <2>0, <2>2, WaiterResponse DEF BlpopRaises
  <2>3. CASE http[r] # "blocked"
    BY <1>0, <1>8, <2>3, ZenonT(30) DEF BlpopRaises, Raises, redisVars
  <2> QED
    BY <2>1, <2>2, <2>3
<1> QED
  BY <1>1, <1>2, <1>3, <1>4, <1>5, <1>6, <1>7, <1>8 DEF Pool

\* Every step preserves the invariant.
LEMMA WaiterNext ==
  ASSUME TypeOK, WaiterInv, [Next]_vars
  PROVE  WaiterInv'
<1> USE TypeParts
<1>1. CASE UNCHANGED <<blocked, reply, http, post>>
  BY <1>1, WaiterStep
<1>2. ASSUME NEW c \in Ws, Readers(c)
      PROVE  WaiterInv'
  BY <1>1, <1>2, ReadersFrame DEF serverVars, redisVars
<1>3. ASSUME NEW c \in Ws, NEW s \in SN \cup {Nil}, Subscribers(c, s)
      PROVE  WaiterInv'
  BY <1>1, <1>3, SubscribersFrame DEF serverVars, redisVars
<1>4. CASE Publisher
  BY <1>1, <1>4, PublisherFrame DEF configVars, redisVars, serverVars
<1>5. CASE Crash
  <2>1. /\ \A s \in SN : blocked'[s] = <<>>
        /\ \A r \in Requests : reply'[r] = Nil /\ http'[r] # "blocked"
    BY <1>5 DEF Crash, Active
  <2>2. HeldWait' /\ HeldOnce'
    BY <2>1, EmptyElements DEF HeldWait, HeldOnce
  <2>3. WaitIsHeld' /\ AnswerIsAwaited'
    BY <2>1 DEF WaitIsHeld, AnswerIsAwaited
  <2> QED
    BY <2>2, <2>3 DEF WaiterInv
<1>6. CASE Reactor
  <2>1. UNCHANGED <<http, post>>
    BY <1>6, ReactorFrame DEF serverVars
  <2>2. UNCHANGED <<blocked, reply>> \/ PushResponse
    BY <1>6 DEF Reactor, OnOpen, OnMessage, DeleteResponses, DEL, Register,
                HandleReg, PublishLog, StartSubscriber, RedisCommandRaises,
                OnClose, configVars, redisVars
  <2>3. CASE PushResponse
    <3>1. reactor.msg \in Message /\ reactor.msg.sn \in SN
      BY <2>3, BusyReactor DEF PushResponse
    <3> QED
      BY <2>1, <2>3, <3>1, WaiterPush DEF PushResponse
  <2> QED
    BY <1>1, <2>1, <2>2, <2>3
<1> QED
  BY <1>1, <1>2, <1>3, <1>4, <1>5, <1>6, WaiterPool
  DEF Next, vars, configVars, redisVars, serverVars

\* The invariant holds in every reachable state.
LEMMA WaiterAlways == Spec => []WaiterInv
BY WaiterInit, WaiterNext, TypeCorrect, PTL DEF Spec

\* Redis holds exactly the requests that wait, each once and on the key of its
\* reader, whatever timed out, raised or was lost before.
THEOREM WaitersAreReal == Spec => []NoGhostWaiter
<1>1. ASSUME TypeOK, WaiterInv
      PROVE  NoGhostWaiter
  <2>1. \A s \in SN : \A i \in 1..Len(blocked[s]) :
          blocked[s][i] \in Elements(blocked[s])
    BY DEF Elements
  <2>2. \A s \in SN : \A r \in Elements(blocked[s]) :
          \E i \in 1..Len(blocked[s]) : blocked[s][i] = r
    BY DEF Elements
  <2>3. \A r \in Requests : http[r] = "blocked" => post[r].channel \in SN
    BY <1>1, TypeParts, ServerParts, PostChannel DEF ProgressOK
  <2>4. \A s \in SN : \A i \in 1..Len(blocked[s]) :
          /\ http[blocked[s][i]] = "blocked"
          /\ reply[blocked[s][i]] = Nil
          /\ post[blocked[s][i]].channel = s
    BY <1>1, <2>1 DEF WaiterInv, HeldWait
  <2>5. \A s \in SN : \A i, j \in 1..Len(blocked[s]) :
          i # j => blocked[s][i] # blocked[s][j]
    BY <1>1 DEF WaiterInv, HeldOnce, Distinct
  <2>6. \A r \in Requests : http[r] = "blocked" /\ reply[r] = Nil
          => \E i \in 1..Len(blocked[post[r].channel]) :
               blocked[post[r].channel][i] = r
    BY <1>1, <2>2, <2>3 DEF WaiterInv, WaitIsHeld
  <2> QED
    BY <2>4, <2>5, <2>6 DEF NoGhostWaiter
<1> QED
  BY <1>1, WaiterAlways, TypeCorrect, PTL

-----------------------------------------------------------------------------
(* Where responses come from. *)

\* The invariant behind ResponsesFromItsReader: a list holds frames of its reader
\* only, what Redis answers a request is a frame of the reader the request named,
\* and a request has no results before it has named one.
ListsOfReader == \A s \in SN : \A m \in Elements(lists[s]) : m.sn = s

AnswersOfReader ==
  \A r \in Requests : reply[r] # Nil => reply[r].sn = post[r].channel

NoEarlyResults == \A r \in Requests : http[r] = "new" => responses[r] = <<>>

ResultsOfReader ==
  \A r \in Requests : \A m \in Elements(responses[r]) :
    m.sn \in {post[r].channel, Nil}

OriginInv ==
  ListsOfReader /\ AnswersOfReader /\ NoEarlyResults /\ ResultsOfReader

\* The part of the invariant about the requests, and when it is kept.
LEMMA OriginStep ==
  ASSUME TypeOK, WaiterInv, OriginInv, ListsOfReader', UNCHANGED reply,
         \A r \in Requests :
           /\ UNCHANGED responses
           /\ http[r] # "new" => post'[r] = post[r] /\ http'[r] # "new"
  PROVE  OriginInv'
<1>1. AnswersOfReader'
  BY DEF OriginInv, AnswersOfReader, WaiterInv, AnswerIsAwaited
<1>2. NoEarlyResults'
  BY DEF OriginInv, NoEarlyResults
<1>3. ResultsOfReader'
  <2> SUFFICES ASSUME NEW r \in Requests, NEW m \in Elements(responses'[r])
               PROVE  m.sn \in {post'[r].channel, Nil}
    BY DEF ResultsOfReader
  <2>1. m \in Elements(responses[r]) /\ responses[r] # <<>>
    BY EmptyElements
  <2>2. post'[r] = post[r]
    BY <2>1 DEF OriginInv, NoEarlyResults
  <2> QED
    BY <2>1, <2>2 DEF OriginInv, ResultsOfReader
<1> QED
  BY <1>1, <1>2, <1>3 DEF OriginInv

\* A result from the reader the request names, or an error, is added.
LEMMA OriginResult ==
  ASSUME TypeOK, OriginInv, NEW r \in Requests,
         http[r] \notin {"new", "done", "lost"},
         NEW result \in Message \cup Failure,
         result.sn \in {post[r].channel, Nil}, NextItem(r, result),
         reply' \in {reply, [reply EXCEPT ![r] = Nil]}, UNCHANGED lists
  PROVE  OriginInv'
<1>0. /\ responses \in [Requests -> Seq(Message \cup Failure)]
      /\ reply \in [Requests -> Message \cup {Nil}]
      /\ http \in [Requests -> {"new", "lookup", "send", "blpop", "blocked",
                                "done", "lost"}]
  BY TypeParts, ServerParts DEF RedisTypeOK
<1>1. PICK t \in Seq(Message \cup Failure) :
        /\ t = Append(responses[r], result)
        /\ Elements(t) = Elements(responses[r]) \cup {result}
  <2> DEFINE S == Message \cup Failure
  <2>1. responses[r] \in Seq(S) /\ result \in S
    BY <1>0
  <2> HIDE DEF S
  <2>2. /\ Append(responses[r], result) \in Seq(S)
        /\ Elements(Append(responses[r], result))
             = Elements(responses[r]) \cup {result}
    BY <2>1, AppendsOne
  <2> QED
    BY <2>2 DEF S
<1>2. /\ UNCHANGED post
      /\ \A q \in Requests : responses'[q] = IF q = r THEN t ELSE responses[q]
      /\ \A q \in Requests : http'[q] = "new" => q # r /\ http[q] = "new"
      /\ \A q \in Requests : reply'[q] # Nil => reply'[q] = reply[q]
  BY <1>0, <1>1 DEF NextItem
<1>3. ListsOfReader'
  BY DEF OriginInv, ListsOfReader
<1>4. AnswersOfReader'
  BY <1>2 DEF OriginInv, AnswersOfReader
<1>5. NoEarlyResults'
  BY <1>2 DEF OriginInv, NoEarlyResults
<1>6. ResultsOfReader'
  BY <1>1, <1>2 DEF OriginInv, ResultsOfReader
<1> QED
  BY <1>3, <1>4, <1>5, <1>6 DEF OriginInv

\* blpop hands a frame of the reader's list to a request for that reader.
LEMMA OriginBlpop ==
  ASSUME TypeOK, WaiterInv, OriginInv, NEW r \in Requests, Blpop(r)
  PROVE  OriginInv'
<1>0. /\ lists \in [SN -> Seq(Message)]
      /\ reply \in [Requests -> Message \cup {Nil}]
      /\ http \in [Requests -> {"new", "lookup", "send", "blpop", "blocked",
                                "done", "lost"}]
  BY TypeParts, ServerParts DEF RedisTypeOK
<1>1. PICK s \in SN : s = post[r].channel
  BY TypeParts, ServerParts, PostChannel DEF Blpop, ProgressOK
<1>2. CASE lists[s] = <<>>
  BY <1>0, <1>1, <1>2, OriginStep DEF Blpop, BLPOP, OriginInv, ListsOfReader
<1>3. CASE lists[s] # <<>>
  <2>1. PICK h \in Message, t \in Seq(Message) :
          /\ h = Head(lists[s]) /\ t = Tail(lists[s])
          /\ Elements(lists[s]) = {h} \cup Elements(t)
    <3>1. lists[s] \in Seq(Message)
      BY <1>0
    <3>2. /\ Head(lists[s]) \in Message /\ Tail(lists[s]) \in Seq(Message)
          /\ Elements(lists[s]) = {Head(lists[s])} \cup Elements(Tail(lists[s]))
      BY <1>3, <3>1, TakesHead
    <3> QED
      BY <3>2
  <2>2. /\ UNCHANGED <<post, responses>>
        /\ \A k \in SN : lists'[k] = IF k = s THEN t ELSE lists[k]
        /\ \A q \in Requests : reply'[q] = IF q = r THEN h ELSE reply[q]
        /\ \A q \in Requests : http'[q] = "new" => http[q] = "new"
    BY <1>0, <1>1, <1>3, <2>1 DEF Blpop, BLPOP
  <2>3. h.sn = s
    BY <2>1 DEF OriginInv, ListsOfReader
  <2>4. ListsOfReader'
    BY <2>1, <2>2 DEF OriginInv, ListsOfReader
  <2>5. AnswersOfReader'
    BY <1>1, <2>2, <2>3 DEF OriginInv, AnswersOfReader
  <2>6. NoEarlyResults' /\ ResultsOfReader'
    BY <2>2 DEF OriginInv, NoEarlyResults, ResultsOfReader
  <2> QED
    BY <2>4, <2>5, <2>6 DEF OriginInv
<1> QED
  BY <1>2, <1>3

\* lpush hands a frame to the list of its reader, or to a request for the reader.
LEMMA OriginPush ==
  ASSUME TypeOK, WaiterInv, OriginInv, PushResponse, UNCHANGED serverVars
  PROVE  OriginInv'
<1>0. /\ lists \in [SN -> Seq(Message)] /\ blocked \in [SN -> Seq(Requests)]
      /\ reply \in [Requests -> Message \cup {Nil}]
  BY TypeParts DEF RedisTypeOK
<1>1. PICK s \in SN, m \in Message : m = reactor.msg /\ s = m.sn
  <2>1. HandlerTypeOK /\ reactor.pc # "idle" /\ reactor.pc = "lpush"
    BY TypeParts DEF PushResponse
  <2> QED
    BY <2>1, BusyReactor
<1>2. LPUSH(s, m) /\ UNCHANGED <<post, responses, http>>
  BY <1>1 DEF PushResponse, serverVars
<1>3. CASE blocked[s] = <<>>
  <2>1. PICK t \in Seq(Message) :
          t = <<m>> \o lists[s] /\ Elements(t) = {m} \cup Elements(lists[s])
    BY <1>0, PushesOne
  <2>2. /\ UNCHANGED reply
        /\ \A k \in SN : lists'[k] = IF k = s THEN t ELSE lists[k]
    BY <1>0, <1>2, <1>3, <2>1 DEF LPUSH
  <2>3. ListsOfReader'
    BY <1>1, <2>1, <2>2 DEF OriginInv, ListsOfReader
  <2> QED
    BY <1>2, <2>2, <2>3, OriginStep
<1>4. CASE blocked[s] # <<>>
  <2>1. PICK h \in Requests :
          h = Head(blocked[s]) /\ h \in Elements(blocked[s])
    BY <1>0, <1>4, TakesHead
  <2>2. /\ UNCHANGED lists
        /\ \A q \in Requests : reply'[q] = IF q = h THEN m ELSE reply[q]
    BY <1>0, <1>2, <1>4, <2>1 DEF LPUSH
  <2>3. post[h].channel = s
    BY <2>1 DEF WaiterInv, HeldWait
  <2>4. AnswersOfReader'
    BY <1>1, <1>2, <2>2, <2>3 DEF OriginInv, AnswersOfReader
  <2>5. ListsOfReader'
    BY <2>2 DEF OriginInv, ListsOfReader
  <2>6. NoEarlyResults' /\ ResultsOfReader'
    BY <1>2 DEF OriginInv, NoEarlyResults, ResultsOfReader
  <2> QED
    BY <2>4, <2>5, <2>6 DEF OriginInv
<1> QED
  BY <1>3, <1>4

\* The requests preserve the invariant.
LEMMA OriginPool ==
  ASSUME TypeOK, WaiterInv, OriginInv, Pool
  PROVE  OriginInv'
<1>0. /\ reply \in [Requests -> Message \cup {Nil}]
      /\ http \in [Requests -> {"new", "lookup", "send", "blpop", "blocked",
                                "done", "lost"}]
      /\ post \in [Requests -> Posts \cup {Nil}]
  BY TypeParts, ServerParts DEF RedisTypeOK
<1>1. ASSUME UNCHANGED <<lists, reply, responses>>,
             \A r \in Requests :
               http[r] # "new" => post'[r] = post[r] /\ http'[r] # "new"
      PROVE  OriginInv'
  <2>1. ListsOfReader'
    BY <1>1 DEF OriginInv, ListsOfReader
  <2> QED
    BY <1>1, <2>1, OriginStep
<1>2. \A kind \in {"not_connected", "timeout"} :
        Fail(kind) \in Failure /\ Fail(kind).sn = Nil
  BY DEF Fail, Failure
<1>3. ASSUME NEW c \in Ws, GetChat(c)
      PROVE  OriginInv'
  BY <1>1, <1>3 DEF GetChat, redisVars, serverVars
<1>4. ASSUME NEW r \in Requests, NEW p \in Posts, PostChat(r, p)
      PROVE  OriginInv'
  <2>1. \A q \in Requests : http[q] # "new" => post'[q] = post[q] /\ http'[q] # "new"
    BY <1>0, <1>4 DEF PostChat
  <2> QED
    BY <1>1, <1>4, <2>1 DEF PostChat, configVars, redisVars
<1>5. ASSUME NEW r \in Requests, Lookup(r)
      PROVE  OriginInv'
  <2>1. CASE NextItem(r, Fail("not_connected"))
    BY <1>2, <1>5, <2>1, OriginResult DEF Lookup, configVars, redisVars
  <2>2. CASE /\ http' = [http EXCEPT ![r] = "send"]
             /\ UNCHANGED <<post, args, item, responses, status>>
    <3>1. \A q \in Requests : http[q] # "new" => http'[q] # "new"
      BY <1>0, <2>2
    <3> QED
      BY <1>1, <1>5, <2>2, <3>1 DEF Lookup, configVars, redisVars
  <2> QED
    BY <1>5, <2>1, <2>2 DEF Lookup
<1>6. ASSUME NEW r \in Requests, SendCommand(r)
      PROVE  OriginInv'
  <2>1. \A q \in Requests : http[q] # "new" => http'[q] # "new"
    BY <1>0, <1>6 DEF SendCommand, Raises
  <2> QED
    BY <1>1, <1>6, <2>1 DEF SendCommand, Raises, redisVars
<1>7. ASSUME NEW r \in Requests, Response(r)
      PROVE  OriginInv'
  <2>1. reply[r] \in Message /\ reply[r].sn = post[r].channel
    BY <1>0, <1>7 DEF Response, OriginInv, AnswersOfReader
  <2> QED
    BY <1>7, <2>1, OriginResult DEF Response
<1>8. ASSUME NEW r \in Requests, Timeout(r)
      PROVE  OriginInv'
  BY <1>2, <1>8, OriginResult DEF Timeout, Unblock
<1>9. ASSUME NEW r \in Requests, BlpopRaises(r)
      PROVE  OriginInv'
  <2>1. \A q \in Requests : http[q] # "new" => http'[q] # "new"
    BY <1>0, <1>9 DEF BlpopRaises, Raises
  <2>2. UNCHANGED <<lists, responses, post>>
    BY <1>9 DEF BlpopRaises, Raises, Unblock, redisVars
  <2>3. \A q \in Requests : reply'[q] \in {reply[q], Nil}
    BY <1>0, <1>9 DEF BlpopRaises, Unblock, redisVars
  <2>4. AnswersOfReader'
    BY <2>2, <2>3 DEF OriginInv, AnswersOfReader
  <2>5. ListsOfReader'
    BY <2>2 DEF OriginInv, ListsOfReader
  <2>6. NoEarlyResults' /\ ResultsOfReader'
    BY <2>1, <2>2 DEF OriginInv, NoEarlyResults, ResultsOfReader
  <2> QED
    BY <2>4, <2>5, <2>6 DEF OriginInv
<1> QED
  BY <1>3, <1>4, <1>5, <1>6, <1>7, <1>8, <1>9, OriginBlpop DEF Pool

\* Every step preserves the invariant.
LEMMA OriginNext ==
  ASSUME TypeOK, WaiterInv, OriginInv, [Next]_vars
  PROVE  OriginInv'
<1>1. CASE UNCHANGED <<lists, reply, http, post, responses>>
  <2>1. ListsOfReader'
    BY <1>1 DEF OriginInv, ListsOfReader
  <2> QED
    BY <1>1, <2>1, OriginStep
<1>2. ASSUME NEW c \in Ws, Readers(c)
      PROVE  OriginInv'
  BY <1>1, <1>2, ReadersFrame DEF serverVars, redisVars
<1>3. ASSUME NEW c \in Ws, NEW s \in SN \cup {Nil}, Subscribers(c, s)
      PROVE  OriginInv'
  BY <1>1, <1>3, SubscribersFrame DEF serverVars, redisVars
<1>4. CASE Publisher
  BY <1>1, <1>4, PublisherFrame DEF configVars, redisVars, serverVars
<1>5. CASE Crash
  <2>1. UNCHANGED <<lists, post, responses>>
        /\ \A r \in Requests : reply'[r] = Nil /\ (http'[r] = "new" => http[r] = "new")
    BY <1>5 DEF Crash
  <2> QED
    BY <2>1 DEF OriginInv, ListsOfReader, AnswersOfReader, NoEarlyResults,
                ResultsOfReader
<1>6. CASE Reactor
  <2>1. UNCHANGED serverVars
    BY <1>6, ReactorFrame
  <2>2. \/ UNCHANGED <<lists, reply>> \/ PushResponse \/ DeleteResponses
    BY <1>6 DEF Reactor, OnOpen, OnMessage, Register, HandleReg, PublishLog,
                StartSubscriber, RedisCommandRaises, OnClose, configVars,
                redisVars
  <2>3. CASE DeleteResponses
    <3>1. /\ UNCHANGED reply
          /\ \A s \in SN : lists'[s] \in {lists[s], <<>>}
      BY <2>3, TypeParts DEF DeleteResponses, DEL, RedisTypeOK
    <3>2. ListsOfReader'
      BY <3>1, EmptyElements DEF OriginInv, ListsOfReader
    <3> QED
      BY <2>1, <3>1, <3>2, OriginStep DEF serverVars
  <2> QED
    BY <1>1, <2>1, <2>2, <2>3, OriginPush DEF serverVars
<1> QED
  BY <1>1, <1>2, <1>3, <1>4, <1>5, <1>6, OriginPool
  DEF Next, vars, configVars, redisVars, serverVars

\* Nothing has come from anywhere at first.
LEMMA OriginInit == Init => OriginInv
<1> SUFFICES ASSUME Init PROVE OriginInv
  OBVIOUS
<1>1. /\ \A s \in SN : lists[s] = <<>>
      /\ \A r \in Requests : reply[r] = Nil /\ responses[r] = <<>>
  BY DEF Init, ConfigInit, ServerInit
<1> QED
  BY <1>1, EmptyElements DEF OriginInv, ListsOfReader, AnswersOfReader,
                             NoEarlyResults, ResultsOfReader

\* The invariant holds in every reachable state.
LEMMA OriginAlways == Spec => []OriginInv
BY OriginInit, OriginNext, WaiterAlways, TypeCorrect, PTL DEF Spec

\* A POST is never given a frame of another reader than the one it named,
\* whichever requests wait, time out or fail around it.
THEOREM ResponsesComeFromTheReader == Spec => []ResponsesFromItsReader
<1>1. OriginInv => ResponsesFromItsReader
  <2>1. \A r \in Requests : \A i \in 1..Len(responses[r]) :
          responses[r][i] \in Elements(responses[r])
    BY DEF Elements
  <2> QED
    BY <2>1 DEF OriginInv, AnswersOfReader, ResultsOfReader,
                ResponsesFromItsReader
<1> QED
  BY <1>1, OriginAlways, PTL
=============================================================================
