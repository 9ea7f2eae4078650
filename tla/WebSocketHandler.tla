-------------------------- MODULE WebSocketHandler --------------------------
(***************************************************************************)
(* WebSocketHandler (app/services/websocket_handler.rb) with the calls its *)
(* callbacks make: Devices.handle_reg (app/services/devices/evo.rb) and    *)
(* RedisSubscriberService#start.                                           *)
(*                                                                         *)
(* EventMachine runs the callbacks of every web socket on one reactor      *)
(* thread, one at a time.  A callback is cut where another thread, Redis   *)
(* or a reader can see a difference: `reactor' says which web socket and   *)
(* message it is at, and where in the message callback.  MUTEX_CONNECTIONS *)
(* is taken by the reactor thread only, so it never waits.                 *)
(*                                                                         *)
(* Every handler keeps a @subscribed_channels of its own; there is one     *)
(* handler per web socket.  What a subscription thread does is taken from  *)
(* Subscription, which RedisSubscriberService implements in detail.        *)
(***************************************************************************)
EXTENDS Config

CONSTANT
  MaxPublish   \* bound: messages published on the readers' channels

ASSUME HandlerAssumption == MaxPublish \in Nat

VARIABLES
  reactor,              \* the message callback in progress
  subscribed_channels,  \* the keys of @subscribed_channels, by handler
  acked,                \* history: the frames handle_reg answered, by socket
  logs,                 \* history: sendlog frames answered and published
  heard,                \* history: commands whose reply was pushed to Redis
  published,            \* the channel a message was published on, else Nil
  inbox,                \* what a subscription has received, by handler, channel
  forwarded             \* history: messages passed on to a handler's socket

Subscriptions == INSTANCE Subscription
                   WITH Handler <- Ws, Channel <- SN, Payload <- 1..MaxPublish

subVars     == <<subscribed_channels, published, inbox, forwarded>>
handlerVars == <<reactor, acked, logs, heard, subVars>>

Idle == [pc |-> "idle", ws |-> Nil, msg |-> Nil]

Busy ==
  [pc: {"lpush", "del", "register", "handle_reg", "publish", "start"},
   ws: Ws, msg: Message]

HandlerTypeOK ==
  /\ reactor \in Busy \cup {Idle}
  /\ reactor.pc \in {"lpush", "del", "register"} => reactor.msg.sn # Nil
  /\ Subscriptions!SubTypeOK
  /\ acked \in [Ws -> SUBSET {"reg", "sendlog"}]
  /\ logs \in [acked: Nat, published: Nat]
  /\ heard \subseteq Command

HandlerInit ==
  /\ reactor = Idle
  /\ Subscriptions!SubInit
  /\ acked = [c \in Ws |-> {}]
  /\ logs = [acked |-> 0, published |-> 0]
  /\ heard = {}

GoTo(label) == reactor' = [reactor EXCEPT !.pc = label]

-----------------------------------------------------------------------------
(* ws.on :open *)

OnOpen(c) ==
  /\ reactor = Idle
  /\ socket[c] = "accepted"
  /\ socket' = [socket EXCEPT ![c] = "open"]
  /\ ws_keys' = ws_keys \cup {c}
  /\ UNCHANGED <<connections, up, down, redisVars, faults, handlerVars>>

-----------------------------------------------------------------------------
(* ws.on :message *)

\* Mutant: the socket is registered before the reader's list is cleared.
OnMessageRegistersFirst(c) ==
  /\ reactor = Idle
  /\ socket[c] = "open"
  /\ up[c] # <<>>
  /\ LET m == Head(up[c])
     IN  /\ reactor' = [pc  |-> IF m.sn # Nil THEN "lpush" ELSE "handle_reg",
                        ws  |-> c,
                        msg |-> m]
         /\ connections' = IF m.sn # Nil THEN [connections EXCEPT ![m.sn] = c]
                                         ELSE connections
  /\ up' = [up EXCEPT ![c] = Tail(@)]
  /\ UNCHANGED <<ws_keys, socket, down, redisVars, faults>>
  /\ UNCHANGED <<subVars, acked, logs, heard>>

\* The frame is read and parsed; a frame without `sn' skips both `if sn'.
OnMessage(c) ==
  /\ reactor = Idle
  /\ socket[c] = "open"
  /\ up[c] # <<>>
  /\ LET m == Head(up[c])
     IN  reactor' = [pc  |-> IF m.sn # Nil THEN "lpush" ELSE "handle_reg",
                     ws  |-> c,
                     msg |-> m]
  /\ up' = [up EXCEPT ![c] = Tail(@)]
  /\ UNCHANGED <<connections, ws_keys, socket, down, redisVars, faults>>
  /\ UNCHANGED <<subVars, acked, logs, heard>>

\* Mutant: a copy of the frame for every POST that waits.
PushResponseToAll ==
  /\ reactor.pc = "lpush"
  /\ LET s == reactor.msg.sn
         waiting == {r \in Requests : \E i \in 1..Len(blocked[s]) : blocked[s][i] = r}
     IN  /\ reply' = [r \in Requests |-> IF r \in waiting THEN reactor.msg ELSE reply[r]]
         /\ blocked' = [blocked EXCEPT ![s] = <<>>]
         /\ lists' = [lists EXCEPT ![s] = IF waiting = {} THEN <<reactor.msg>> \o @ ELSE @]
  /\ heard' = heard \cup ({reactor.msg.of} \ {Nil})
  /\ GoTo("del")
  /\ UNCHANGED <<connections, ws_keys, socketVars, faults>>
  /\ UNCHANGED <<subVars, acked, logs>>

\* @redis.lpush("response:#{sn}", event.data)
PushResponse ==
  /\ reactor.pc = "lpush"
  /\ LPUSH(reactor.msg.sn, reactor.msg)
  /\ heard' = heard \cup ({reactor.msg.of} \ {Nil})
  /\ GoTo("del")
  /\ UNCHANGED <<connections, ws_keys, socketVars, faults>>
  /\ UNCHANGED <<subVars, acked, logs>>

\* Mutant: the del is gone.
DeleteResponsesKeeps ==
  /\ reactor.pc = "del"
  /\ GoTo("register")
  /\ UNCHANGED <<configVars, subVars, acked, logs, heard>>

\* Mutant: the callback answers the frame without having registered the socket.
DeleteResponsesSkipsRegister ==
  /\ reactor.pc = "del"
  /\ DEL(reactor.msg.sn)
  /\ GoTo("handle_reg")
  /\ UNCHANGED <<connections, ws_keys, socketVars, faults>>
  /\ UNCHANGED <<subVars, acked, logs, heard>>

\* @redis.del("response:#{sn}")
DeleteResponses ==
  /\ reactor.pc = "del"
  /\ DEL(reactor.msg.sn)
  /\ GoTo("register")
  /\ UNCHANGED <<connections, ws_keys, socketVars, faults>>
  /\ UNCHANGED <<subVars, acked, logs, heard>>

\* @connections[sn] = ws
Register ==
  /\ reactor.pc = "register"
  /\ connections' = [connections EXCEPT ![reactor.msg.sn] = reactor.ws]
  /\ GoTo("handle_reg")
  /\ UNCHANGED <<ws_keys, socketVars, redisVars, faults>>
  /\ UNCHANGED <<subVars, acked, logs, heard>>

\* Mutant: a reader that is subscribed already gets no further than the answer.
HandleRegReturnsEarly ==
  /\ reactor.pc = "handle_reg"
  /\ LET kind == reactor.msg.kind
     IN  /\ acked' = [acked EXCEPT
                        ![reactor.ws] = @ \cup ({kind} \cap {"reg", "sendlog"})]
         /\ logs' = IF kind = "sendlog"
                    THEN [logs EXCEPT !.acked = @ + 1] ELSE logs
         /\ IF reactor.msg.sn \in subscribed_channels[reactor.ws]
            THEN reactor' = Idle
            ELSE GoTo(IF kind = "sendlog" THEN "publish" ELSE "start")
  /\ UNCHANGED <<configVars, subVars, heard>>

\* Devices.handle_reg: `reg' and `sendlog' are answered with `result: true'.
HandleReg ==
  /\ reactor.pc = "handle_reg"
  /\ LET kind == reactor.msg.kind
     IN  /\ acked' = [acked EXCEPT
                        ![reactor.ws] = @ \cup ({kind} \cap {"reg", "sendlog"})]
         /\ logs' = IF kind = "sendlog"
                    THEN [logs EXCEPT !.acked = @ + 1] ELSE logs
         /\ GoTo(IF kind = "sendlog" THEN "publish" ELSE "start")
  /\ UNCHANGED <<configVars, subVars, heard>>

\* @redis.publish(GLOBAL_SENDLOG_CHANNEL, event.data), then `next'.
PublishLog ==
  /\ reactor.pc = "publish"
  /\ logs' = [logs EXCEPT !.published = @ + 1]
  /\ reactor' = Idle
  /\ UNCHANGED <<configVars, subVars, acked, heard>>

\* Mutant: the handler subscribes to the channel of every reader it knows of.
StartSubscriberForAll ==
  /\ reactor.pc = "start"
  /\ subscribed_channels' =
       [subscribed_channels EXCEPT ![reactor.ws] =
          @ \cup {reactor.msg.sn} \cup {s \in SN : connections[s] # Nil}]
  /\ reactor' = Idle
  /\ UNCHANGED <<published, inbox, forwarded>>
  /\ UNCHANGED <<configVars, acked, logs, heard>>

\* Mutant: one @subscribed_channels for all handlers.
StartSubscriberShared ==
  /\ reactor.pc = "start"
  /\ IF \E c \in Ws : reactor.msg.sn \in subscribed_channels[c]
     THEN UNCHANGED subVars
     ELSE Subscriptions!Subscribe(reactor.ws, reactor.msg.sn)
  /\ reactor' = Idle
  /\ UNCHANGED <<configVars, acked, logs, heard>>

\* RedisSubscriberService.new(channel: sn, ...).start: nothing if the key is
\* there, else the key is set and a thread subscribes to the channel.
StartSubscriber ==
  /\ reactor.pc = "start"
  /\ Subscriptions!Subscribe(reactor.ws, reactor.msg.sn)
  /\ reactor' = Idle
  /\ UNCHANGED <<configVars, acked, logs, heard>>

\* A Redis command of the callback raises: nothing rescues it, the rest of
\* the callback does not run.
RedisCommandRaises ==
  /\ reactor.pc \in {"lpush", "del", "publish"}
  /\ Fault
  /\ reactor' = Idle
  /\ UNCHANGED <<connections, ws_keys, socketVars, redisVars>>
  /\ UNCHANGED <<subVars, acked, logs, heard>>

-----------------------------------------------------------------------------
(* ws.on :close *)

\* @connections.key(ws): one of the keys whose value is ws, or nil.
KeysOf(c) == {s \in SN : connections[s] = c}

\* Mutant: @connections.delete(ws), which leaves the serial number behind.
OnCloseKeepsSn(c) ==
  /\ reactor = Idle
  /\ socket[c] = "open"
  /\ socket' = [socket EXCEPT ![c] = "closed"]
  /\ up' = [up EXCEPT ![c] = <<>>]
  /\ down' = [down EXCEPT ![c] = <<>>]
  /\ ws_keys' = ws_keys \ {c}
  /\ UNCHANGED <<connections, redisVars, faults, handlerVars>>

\* Mutant: the serial number the socket last registered is deleted, whichever
\* socket its entry leads to by now.
OnCloseDeletesBySn(c) ==
  /\ reactor = Idle
  /\ socket[c] = "open"
  /\ socket' = [socket EXCEPT ![c] = "closed"]
  /\ up' = [up EXCEPT ![c] = <<>>]
  /\ down' = [down EXCEPT ![c] = <<>>]
  /\ connections' = [connections EXCEPT ![Device[c]] = Nil]
  /\ UNCHANGED <<ws_keys, redisVars, faults, handlerVars>>

\* @connections.delete(sn): the `ws => nil' entry stays.
OnClose(c) ==
  /\ reactor = Idle
  /\ socket[c] = "open"
  /\ socket' = [socket EXCEPT ![c] = "closed"]
  /\ up' = [up EXCEPT ![c] = <<>>]
  /\ down' = [down EXCEPT ![c] = <<>>]
  /\ \/ /\ KeysOf(c) = {}
        /\ UNCHANGED connections
     \/ \E s \in KeysOf(c) : connections' = [connections EXCEPT ![s] = Nil]
  /\ UNCHANGED <<ws_keys, redisVars, faults, handlerVars>>

-----------------------------------------------------------------------------
(* The subscription threads the handlers started. *)

\* PTRP publishes on a reader's channel; messages are numbered as they come.
PublishCommand(m, s) ==
  /\ \A k \in 1..(m - 1) : published[k] # Nil
  /\ Subscriptions!Publish(m, s)
  /\ UNCHANGED <<configVars, reactor, acked, logs, heard>>

\* Mutant: the command goes to the socket the reader has by now.
SubscriberForwardsToEntry(c, s) ==
  /\ Subscriptions!Forward(c, s)
  /\ LET ws == IF connections[s] # Nil THEN connections[s] ELSE c
     IN  WsSend(ws, <<Nil, Head(inbox[c][s])>>)
  /\ UNCHANGED <<connections, ws_keys, redisVars, faults>>
  /\ UNCHANGED <<reactor, acked, logs, heard>>

\* on.message: a well-formed command on the channel is sent to the @ws the
\* thread was started with, open or not.
SubscriberForwards(c, s) ==
  /\ Subscriptions!Forward(c, s)
  /\ WsSend(c, <<Nil, Head(inbox[c][s])>>)
  /\ UNCHANGED <<connections, ws_keys, redisVars, faults>>
  /\ UNCHANGED <<reactor, acked, logs, heard>>

\* on.message: anything else is logged.
SubscriberDiscards(c, s) ==
  /\ Subscriptions!Discard(c, s)
  /\ UNCHANGED <<configVars, reactor, acked, logs, heard>>

\* The connection to Redis is lost: the thread sleeps and tries again.
SubscriberReconnects(c, s) ==
  /\ Fault
  /\ Subscriptions!Reconnect(c, s)
  /\ UNCHANGED <<connections, ws_keys, socketVars, redisVars>>
  /\ UNCHANGED <<reactor, acked, logs, heard>>

\* Redis cannot be reached: the thread ends and its `ensure' drops the key.
SubscriberEnds(c, s) ==
  /\ Fault
  /\ Subscriptions!End(c, s)
  /\ UNCHANGED <<connections, ws_keys, socketVars, redisVars>>
  /\ UNCHANGED <<reactor, acked, logs, heard>>

-----------------------------------------------------------------------------
MessageStep ==
  \/ PushResponse \/ DeleteResponses \/ Register
  \/ HandleReg \/ PublishLog \/ StartSubscriber
=============================================================================
