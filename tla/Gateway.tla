------------------------------- MODULE Gateway ------------------------------
(***************************************************************************)
(* The whole gateway: the reactor thread with its WebSocketHandler         *)
(* callbacks, the threads of the POST requests, the subscription threads,  *)
(* the readers at the other end of the web sockets, and the process, which *)
(* docker-compose.yml restarts when it ends.                               *)
(***************************************************************************)
EXTENDS WebSocketHandler, Server

CONSTANTS
  Overlap,     \* may a reader dial again before its old socket's :close ran?
  Unsolicited, \* the frames a reader sends on its own once it has registered
  MaxFrames,   \* bound: frames a reader sends on its own on one socket
  NoSnReplies, \* may a reader leave `sn' out of a reply?
  MaxCrashes   \* bound: how often the process ends

ASSUME GatewayAssumption ==
  /\ Overlap \in BOOLEAN
  /\ Unsolicited \subseteq {"reg", "sendlog"}
  /\ MaxFrames \in Nat
  /\ NoSnReplies \in BOOLEAN
  /\ MaxCrashes \in Nat

VARIABLES
  dialled,     \* the socket a reader uses: the last one it dialled
  frames,      \* history: frames sent unasked, by socket
  executed,    \* history: the commands readers carried out, by request
  crashes      \* history: how often the process ended

envVars == <<dialled, frames, executed, crashes>>
vars == <<configVars, handlerVars, serverVars, envVars>>

TypeOK ==
  /\ ConfigTypeOK
  /\ HandlerTypeOK
  /\ ServerTypeOK
  /\ dialled \in [SN -> Ws \cup {Nil}]
  /\ frames \in [Ws -> Nat]
  /\ executed \in [Requests \cup {Nil} -> Seq(Nat)]
  /\ crashes \in Nat

Init ==
  /\ ConfigInit
  /\ HandlerInit
  /\ ServerInit
  /\ dialled = [s \in SN |-> Nil]
  /\ frames = [c \in Ws |-> 0]
  /\ executed = [r \in Requests \cup {Nil} |-> <<>>]
  /\ crashes = 0

-----------------------------------------------------------------------------
(* The readers (external). *)

\* A reader uses one socket at a time.  The gateway may not have noticed yet
\* that the one before is gone, nor read all that came in on it.
Dial(c) ==
  /\ socket[c] = "none"
  /\ Overlap \/ \A d \in Ws : Device[d] = Device[c]
                                => socket[d] \in {"none", "closed"}
  /\ socket' = [socket EXCEPT ![c] = "connecting"]
  /\ dialled' = [dialled EXCEPT ![Device[c]] = c]
  /\ UNCHANGED <<connections, ws_keys, up, down, redisVars, faults>>
  /\ UNCHANGED <<handlerVars, serverVars, frames, executed, crashes>>

\* A reader registers first on every socket.
SendFrame(c, kind) ==
  /\ socket[c] = "open"
  /\ dialled[Device[c]] = c
  /\ IF frames[c] = 0 THEN kind = "reg" ELSE kind \in Unsolicited
  /\ frames[c] < MaxFrames
  /\ frames' = [frames EXCEPT ![c] = @ + 1]
  /\ up' = [up EXCEPT ![c] =
              Append(@, [kind |-> kind, sn |-> Device[c], of |-> Nil])]
  /\ UNCHANGED <<connections, ws_keys, socket, down, redisVars, faults>>
  /\ UNCHANGED <<handlerVars, serverVars, dialled, executed, crashes>>

\* A reader carries out and answers the commands of a socket in the order they
\* arrive.
Reply(c) ==
  /\ socket[c] = "open"
  /\ dialled[Device[c]] = c
  /\ down[c] # <<>>
  /\ \E sn \in {Device[c]} \cup (IF NoSnReplies THEN {Nil} ELSE {}) :
       up' = [up EXCEPT ![c] =
                Append(@, [kind |-> "ret", sn |-> sn, of |-> Head(down[c])])]
  /\ down' = [down EXCEPT ![c] = Tail(@)]
  /\ executed' = [executed EXCEPT ![Head(down[c])[1]] =
                    Append(@, Head(down[c])[2])]
  /\ UNCHANGED <<connections, ws_keys, socket, redisVars, faults>>
  /\ UNCHANGED <<handlerVars, serverVars, dialled, frames, crashes>>

-----------------------------------------------------------------------------
(* The process. *)

\* The process ends, at any point of any thread, and is started again
\* (docker-compose.yml: `restart: always').  Its memory, its sockets and its
\* clients' places in Redis are gone; the lists in Redis stay.
Crash ==
  /\ crashes < MaxCrashes
  /\ crashes' = crashes + 1
  /\ connections' = [s \in SN |-> Nil]
  /\ ws_keys' = {}
  /\ socket' = [c \in Ws |-> IF socket[c] = "none" THEN "none" ELSE "closed"]
  /\ up' = [c \in Ws |-> <<>>]
  /\ down' = [c \in Ws |-> <<>>]
  /\ blocked' = [s \in SN |-> <<>>]
  /\ reply' = [r \in Requests |-> Nil]
  /\ reactor' = Idle
  /\ subscribed_channels' = [c \in Ws |-> {}]
  /\ inbox' = Subscriptions!NoMail
  /\ http' = [r \in Requests |-> IF r \in Active THEN "lost" ELSE http[r]]
  /\ UNCHANGED <<lists, faults, acked, logs, heard, published, forwarded, post,
                 args, item, conn, responses, status, dialled, frames, executed>>

-----------------------------------------------------------------------------
\* What the reactor and the subscription threads leave alone, and the pool.
notReactor == <<serverVars, envVars>>
notPool    == <<handlerVars, envVars>>

Readers(c) ==
  \/ Dial(c)
  \/ Reply(c)
  \/ \E kind \in {"reg", "sendlog"} : SendFrame(c, kind)

Reactor ==
  \/ \E c \in Ws : OnOpen(c) /\ UNCHANGED notReactor
  \/ \E c \in Ws : OnMessage(c) /\ UNCHANGED notReactor
  \/ PushResponse /\ UNCHANGED notReactor
  \/ DeleteResponses /\ UNCHANGED notReactor
  \/ Register /\ UNCHANGED notReactor
  \/ HandleReg /\ UNCHANGED notReactor
  \/ PublishLog /\ UNCHANGED notReactor
  \/ StartSubscriber /\ UNCHANGED notReactor
  \/ RedisCommandRaises /\ UNCHANGED notReactor
  \/ \E c \in Ws : OnClose(c) /\ UNCHANGED notReactor

Subscribers(c, s) ==
  \/ s # Nil /\ SubscriberForwards(c, s) /\ UNCHANGED notReactor
  \/ s # Nil /\ SubscriberDiscards(c, s) /\ UNCHANGED notReactor
  \/ s # Nil /\ SubscriberReconnects(c, s) /\ UNCHANGED notReactor
  \/ SubscriberEnds(c, s) /\ UNCHANGED notReactor

Publisher ==
  \E m \in 1..MaxPublish, s \in SN : PublishCommand(m, s) /\ UNCHANGED notReactor

Pool ==
  \/ \E c \in Ws : GetChat(c) /\ UNCHANGED notPool
  \/ \E r \in Requests, p \in Posts : PostChat(r, p) /\ UNCHANGED notPool
  \/ \E r \in Requests : Lookup(r) /\ UNCHANGED notPool
  \/ \E r \in Requests : SendCommand(r) /\ UNCHANGED notPool
  \/ \E r \in Requests : Blpop(r) /\ UNCHANGED notPool
  \/ \E r \in Requests : Response(r) /\ UNCHANGED notPool
  \/ \E r \in Requests : Timeout(r) /\ UNCHANGED notPool
  \/ \E r \in Requests : BlpopRaises(r) /\ UNCHANGED notPool

Next ==
  \/ \E c \in Ws : Readers(c)
  \/ Reactor
  \/ \E c \in Ws, s \in SN \cup {Nil} : Subscribers(c, s)
  \/ Publisher
  \/ Pool
  \/ Crash

Spec == Init /\ [][Next]_vars

(***************************************************************************)
(* Fairness.  The reactor finishes a callback it has begun and gets to     *)
(* every socket that has just been accepted; Ruby runs every thread of the *)
(* pool, Redis ends every BLPOP after 1000 seconds, and Puma hands out a   *)
(* thread that is free.  Readers and clients owe the gateway nothing.      *)
(***************************************************************************)
Fairness ==
  /\ WF_vars(MessageStep /\ UNCHANGED notReactor)
  /\ \A c \in Ws :
       /\ SF_vars(OnOpen(c) /\ UNCHANGED notReactor)
       /\ WF_vars(GetChat(c) /\ UNCHANGED notPool)
  /\ \A r \in Requests :
       WF_vars(RequestStep(r) /\ UNCHANGED notPool)

FairSpec == Spec /\ Fairness

-----------------------------------------------------------------------------
(* Safety. *)

\* A serial number in CONNECTIONS leads to a socket that its own reader
\* opened and that is still open, whatever sockets came and went before.
\* (websocket_handler.rb: @connections[sn] = ws and the :close callback.)
RegistryLive ==
  \A s \in SN : connections[s] # Nil
    => /\ socket[connections[s]] = "open"
       /\ Device[connections[s]] = s

\* `allowing the command to be sent to a specific reader' (README): a command
\* sent for a POST waits on a socket of the reader the POST named, also when
\* the reader went away or came back between lookup and Sender.send; one that
\* came over PUB/SUB waits on a socket of the reader whose channel it was
\* published on.
CommandReachesItsReader ==
  \A c \in Ws : \A i \in 1..Len(down[c]) :
    LET r == down[c][i][1]
    IN  IF r = Nil THEN published[down[c][i][2]] = Device[c]
                   ELSE post[r].channel = Device[c]

\* Whatever a POST is given as a response came from the reader it named
\* (handle_ws_command's key and the key of the :message callback agree).
ResponsesFromItsReader ==
  \A r \in Requests :
    /\ reply[r] # Nil => reply[r].sn = post[r].channel
    /\ \A i \in 1..Len(responses[r]) :
         responses[r][i].sn \in {post[r].channel, Nil}

\* A frame the callback is between pushing and deleting.
InTransit(s) == IF reactor.pc = "del" /\ reactor.msg.sn = s THEN 1 ELSE 0

\* Responses do not pile up in Redis: a frame stays in "response:<sn>" only
\* while its own callback is between lpush and del, or if a Redis command
\* raised or the process ended there, one frame each time.
MailboxTransient ==
  \A s \in SN : Len(lists[s]) <= faults + crashes + InTransit(s)

\* No POST is handed a frame from before the process was restarted, nor any
\* other that the gateway has dealt with, unless a Redis command raised: the
\* reader's first frame clears the list before it makes the reader's entry,
\* and without the entry no POST gets as far as BLPOP.
FreshMailbox ==
  faults = 0 =>
    \A s \in SN : connections[s] # Nil => Len(lists[s]) <= InTransit(s)

\* The clients Redis holds on "response:<sn>" are exactly the requests for
\* that reader that wait for it, each once: a request that gave up or was
\* answered never swallows a later response.
NoGhostWaiter ==
  /\ \A s \in SN :
       /\ \A i \in 1..Len(blocked[s]) :
            /\ http[blocked[s][i]] = "blocked"
            /\ reply[blocked[s][i]] = Nil
            /\ post[blocked[s][i]].channel = s
       /\ \A i, j \in 1..Len(blocked[s]) :
            i # j => blocked[s][i] # blocked[s][j]
  /\ \A r \in Requests : http[r] = "blocked" /\ reply[r] = Nil
       => \E i \in 1..Len(blocked[post[r].channel]) :
            blocked[post[r].channel][i] = r

\* A reader that was answered `result: true' to its registration and has not
\* gone is found by the next POST, on that very socket (websocket_handler.rb
\* registers before Devices.handle_reg answers, and the :close of an earlier
\* socket of the reader leaves the entry alone).  It takes a reader that dials
\* again only after its old socket is closed.
AckedReaderReachable ==
  \A c \in Ws : "reg" \in acked[c] /\ socket[c] = "open"
                  => connections[Device[c]] = c

\* `Dispositivo não conectado' is for readers that are not connected: one
\* whose present socket is registered and open has an entry in CONNECTIONS.
ConnectedReaderHasEntry ==
  \A s \in SN : LET c == dialled[s]
                IN  /\ c # Nil
                    /\ "reg" \in acked[c]
                    /\ socket[c] = "open"
                    => connections[s] # Nil

\* A batch of logs answered with `Logs recebidos com sucesso' has been
\* published, or publishing it is what the reactor does next.
AckedLogsPublished ==
  logs.acked = logs.published + (IF reactor.pc = "publish" THEN 1 ELSE 0)

\* A failure of Redis and an end of the process each cost at most one batch of
\* logs that the reader believes to be delivered; nothing is published that was
\* not answered first.
LogsLostPerFailure ==
  /\ logs.published <= logs.acked
  /\ logs.acked <= logs.published + faults + crashes
                    + (IF reactor.pc = "publish" THEN 1 ELSE 0)

\* The commands server.rb takes no body for are ones Sender calls with no
\* argument: without a Redis failure such a POST never ends in an exception.
BodylessNeverRaises ==
  \A r \in Requests : status[r] = 500 /\ faults = 0
                        => post[r].command \notin commands_without_body

\* Every item of a POST answered with 200 has its own result, and the result
\* is the reader's reply to that very item or an error.
OwnReply ==
  \A r \in Requests :
    /\ status[r] = 200 => Len(responses[r]) = Len(args[r])
    /\ \A i \in 1..Len(responses[r]) :
         responses[r][i] \in Message => responses[r][i].of = <<r, i>>

\* A reader's reply is the result of one item of one POST at most: POSTs that
\* wait on one key, time out and come after one another may get each other's
\* replies, but never share one.
ReplyGivenOnce ==
  \A q, r \in Requests :
    \A i \in 1..Len(responses[q]), j \in 1..Len(responses[r]) :
      /\ responses[q][i].kind = "ret"
      /\ responses[r][j].kind = "ret"
      /\ responses[q][i].of = responses[r][j].of
      => q = r /\ i = j

\* A command published once is carried out by the reader at most once, though
\* every earlier connection of the reader leaves a subscription behind that
\* also receives it (:close stops no thread).
PublishedOnce ==
  \A i, j \in 1..Len(executed[Nil]) :
    i # j => executed[Nil][i] # executed[Nil][j]

\* As long as no Redis command raised, a reader whose registration has been
\* dealt with has its channel, until its socket closes.
RegisteredReaderSubscribed ==
  faults = 0 =>
    \A c \in Ws : /\ "reg" \in acked[c]
                  /\ socket[c] = "open"
                  /\ reactor.ws # c
                  => Device[c] \in subscribed_channels[c]

-----------------------------------------------------------------------------
(* Action and liveness properties. *)

\* An entry of CONNECTIONS disappears only when the very socket it leads to
\* closes: the late :close of an older socket of the same reader never takes
\* the newer socket's entry away.
EntryOutlivesOtherSockets ==
  [][\A s \in SN : connections[s] # Nil /\ connections'[s] = Nil
       => socket'[connections[s]] = "closed"]_vars

\* A POST is told `Timeout esperando resposta do dispositivo' only if the reply
\* to its command has not reached the gateway by then.
TimeoutMeansSilence ==
  [][\A r \in Requests : Timeout(r) => <<r, item[r]>> \notin heard]_vars

\* Every POST is answered, whether or not the reader ever replies, so its
\* thread goes back to the pool, unless the process ends first.
EveryPostAnswered ==
  \A r \in Requests : http[r] # "new" ~> http[r] \in {"done", "lost"}

\* A reader that dials gets its socket although POSTs to unresponsive readers
\* may hold every thread of the pool at that time, unless the process ends.
HandshakeCompletes ==
  \A c \in Ws : socket[c] = "connecting" ~> socket[c] \in {"open", "closed"}

\* `Redis ... creates exclusive channels for each reader that establishes a
\* connection' (README): a registered reader has its channel, or gets it back,
\* for as long as it is connected.
ChannelForEveryReader ==
  \A c \in Ws : "reg" \in acked[c]
    ~> Device[c] \in subscribed_channels[c] \/ socket[c] = "closed"

-----------------------------------------------------------------------------
(* The gateway implements RemoteCall. *)

\* Nothing but the readers' replies moves, and nobody gives up waiting.
Undisturbed ==
  /\ Serial /\ ~MayTimeout /\ Unsolicited = {}
  /\ MaxPublish = 0 /\ MaxFaults = 0 /\ MaxCrashes = 0
  /\ \A c, d \in Ws : Device[c] = Device[d] => c = d

Phase(label) ==
  CASE label = "new"              -> "new"
    [] label \in {"done", "lost"} -> "over"
    [] OTHER                      -> "open"

\* An item that came to nothing is answered with an `error'.
Outcome(x) == IF x.kind \in {"not_connected", "timeout"} THEN "error" ELSE "reply"
Outcomes(seq) == [i \in 1..Len(seq) |-> Outcome(seq[i])]

\* The refinement mapping.
CallPhase   == [r \in Requests |-> Phase(http[r])]
CallSize    == [r \in Requests |-> Len(args[r])]
CallResults == [r \in Requests |-> Outcomes(responses[r])]
CallCarried == [r \in Requests |-> executed[r]]

Calls == INSTANCE RemoteCall
  WITH Paired <- Undisturbed, phase <- CallPhase, size <- CallSize,
       results <- CallResults, carried <- CallCarried

\* A POST keeps the promises of RemoteCall: its items are carried out in order,
\* each at most once and none ahead of its turn, whatever timeouts, closing
\* sockets, reconnections, exceptions and restarts come between, and it ends
\* once; undisturbed, a reply is the reply to the item it is returned for.
ImplementsRemoteCall == Calls!Spec
=============================================================================
