----------------------- MODULE RedisSubscriberService -----------------------
(***************************************************************************)
(* RedisSubscriberService (app/services/redis_subscriber_service.rb): the  *)
(* thread that subscribes to a reader's channel and forwards the commands  *)
(* published there to the reader's web socket.                             *)
(*                                                                         *)
(* The reactor makes a service object per frame and calls #start on it;    *)
(* the services of one handler share its @subscribed_channels, and those   *)
(* of all handlers share MUTEX_SUBSCRIBED_CHANNELS.  A critical section is *)
(* one step here unless it does I/O: sending to the reader keeps the mutex *)
(* over a step.  #stop has no caller in the repository: Stoppable says     *)
(* which services somebody stops.                                          *)
(***************************************************************************)
EXTENDS Naturals, Sequences, FiniteSets

CONSTANTS
  Service,    \* the service objects ever made
  Handler,    \* the WebSocketHandlers, each with one web socket
  Channel,    \* the channels, one per reader
  Nil,
  HandlerOf,  \* the handler a service was made by
  ChannelOf,  \* its @channel, Nil for a frame without `sn'
  Payload,    \* the messages published, each at most once
  Form,       \* what a message is: a command Sender can send, one it does not
              \* know or raises on, or junk (no JSON, or JSON without `cmd')
  Stoppable,  \* the services whose #stop is called
  MaxFaults   \* bound: failures of a connection to Redis

ASSUME SubscriberAssumption ==
  /\ HandlerOf \in [Service -> Handler]
  /\ ChannelOf \in [Service -> Channel \cup {Nil}]
  /\ Form \in [Payload -> {"command", "raises", "junk"}]
  /\ Stoppable \subseteq Service
  /\ Nil \notin Service \cup Channel \cup Payload
  /\ MaxFaults \in Nat

VARIABLES
  subscribed_channels,  \* the keys of each handler's @subscribed_channels
  mutex,                \* who holds MUTEX_SUBSCRIBED_CHANNELS, if anyone
  thread,               \* where #start, then the thread, of a service is
  inbox,                \* messages that reached the subscription, unread
  current,              \* the message on.message is at
  stop_requested,       \* @stop_requested
  stopping,             \* where a call of #stop is
  killed,               \* threads with a kill pending
  published,            \* history: the channel a message was published on
  sent,                 \* history: the commands each service sent, in order
  faults                \* history: failures so far

vars == <<subscribed_channels, mutex, thread, inbox, current, stop_requested,
          stopping, killed, published, sent, faults>>
stopVars == <<stop_requested, stopping, killed>>

\* #start is under way on the reactor.
InStart == {"checked", "marked"}

\* The connection to Redis is subscribed.
Listening == {"subscribed", "waiting", "sending"}

\* From setting the key to having dropped it.
Live == {"marked", "spawned", "connecting", "sleeping", "ensure"} \cup Listening

TypeOK ==
  /\ subscribed_channels \in [Handler -> SUBSET (Channel \cup {Nil})]
  /\ mutex \in Service \cup {Nil}
  /\ thread \in [Service -> {"new", "checked", "ignored", "dead"} \cup Live]
  /\ inbox \in [Service -> Seq(Payload)]
  /\ current \in [Service -> Payload \cup {Nil}]
  /\ \A s \in Service : thread[s] \in {"waiting", "sending"} => current[s] # Nil
  /\ stop_requested \subseteq Service
  /\ stopping \in [Service -> {"no", "deleting", "done"}]
  /\ killed \subseteq Service
  /\ published \in [Payload -> Channel \cup {Nil}]
  /\ sent \in [Service -> Seq(Payload)]
  /\ faults \in Nat

Init ==
  /\ subscribed_channels = [h \in Handler |-> {}]
  /\ mutex = Nil
  /\ thread = [s \in Service |-> "new"]
  /\ inbox = [s \in Service |-> <<>>]
  /\ current = [s \in Service |-> Nil]
  /\ stop_requested = {}
  /\ stopping = [s \in Service |-> "no"]
  /\ killed = {}
  /\ published = [m \in Payload |-> Nil]
  /\ sent = [s \in Service |-> <<>>]
  /\ faults = 0

-----------------------------------------------------------------------------
HasKey(s) == ChannelOf[s] \in subscribed_channels[HandlerOf[s]]

\* Mutant: @subscribed_channels[self] = true.
SetKeySelf(s) ==
  subscribed_channels' =
    [subscribed_channels EXCEPT ![HandlerOf[s]] = @ \cup {s}]

SetKey(s) ==
  subscribed_channels' =
    [subscribed_channels EXCEPT ![HandlerOf[s]] = @ \cup {ChannelOf[s]}]

DeleteKey(s) ==
  subscribed_channels' =
    [subscribed_channels EXCEPT ![HandlerOf[s]] = @ \ {ChannelOf[s]}]

Go(s, from, to) ==
  /\ thread[s] = from
  /\ thread' = [thread EXCEPT ![s] = to]

Fault == faults < MaxFaults /\ faults' = faults + 1

-----------------------------------------------------------------------------
(* #start, on the reactor thread. *)

\* return if @mutex_subscribed_channels.synchronize { ...key?(@channel) }
StartChecks(s) ==
  /\ \A t \in Service : thread[t] \notin InStart
  /\ mutex = Nil
  /\ Go(s, "new", IF HasKey(s) THEN "ignored" ELSE "checked")
  /\ UNCHANGED <<subscribed_channels, mutex, inbox, current, stopVars,
                 published, sent, faults>>

\* synchronize { @subscribed_channels[@channel] = true }
StartMarks(s) ==
  /\ mutex = Nil
  /\ Go(s, "checked", "marked")
  /\ SetKey(s)
  /\ UNCHANGED <<mutex, inbox, current, stopVars, published, sent, faults>>

\* @thread = Thread.new
StartSpawns(s) ==
  /\ Go(s, "marked", "spawned")
  /\ UNCHANGED <<subscribed_channels, mutex, inbox, current, stopVars,
                 published, sent, faults>>

-----------------------------------------------------------------------------
(* The thread. *)

ThreadBegins(s) ==
  /\ Go(s, "spawned", "connecting")
  /\ UNCHANGED <<subscribed_channels, mutex, inbox, current, stopVars,
                 published, sent, faults>>

\* subscriber.subscribe(@channel)
Subscribes(s) ==
  /\ ChannelOf[s] # Nil
  /\ Go(s, "connecting", "subscribed")
  /\ UNCHANGED <<subscribed_channels, mutex, inbox, current, stopVars,
                 published, sent, faults>>

\* rescue Redis::CannotConnectError: logged, the thread is over.
CannotConnect(s) ==
  /\ Fault
  /\ Go(s, "connecting", "ensure")
  /\ UNCHANGED <<subscribed_channels, mutex, inbox, current, stopVars,
                 published, sent>>

\* rescue => e: the connection is lost and what it had received with it, or
\* there is no channel to subscribe to.  sleep 2, then retry.
SubscribeFails(s) ==
  /\ \/ ChannelOf[s] = Nil /\ Go(s, "connecting", "sleeping") /\ UNCHANGED faults
     \/ Fault /\ Go(s, "subscribed", "sleeping")
  /\ inbox' = [inbox EXCEPT ![s] = <<>>]
  /\ UNCHANGED <<subscribed_channels, mutex, current, stopVars, published, sent>>

Retry(s) ==
  /\ Go(s, "sleeping", "connecting")
  /\ UNCHANGED <<subscribed_channels, mutex, inbox, current, stopVars,
                 published, sent, faults>>

\* Mutant: the message is dropped when the mutex is taken (try_lock).
OnMessageTriesLock(s) ==
  /\ thread[s] = "subscribed"
  /\ inbox[s] # <<>>
  /\ inbox' = [inbox EXCEPT ![s] = Tail(@)]
  /\ LET m == Head(inbox[s])
     IN  IF mutex = Nil /\ Form[m] \in {"command", "raises"}
         THEN /\ thread' = [thread EXCEPT ![s] = "waiting"]
              /\ current' = [current EXCEPT ![s] = m]
         ELSE UNCHANGED <<thread, current>>
  /\ UNCHANGED <<subscribed_channels, mutex, stopVars, published, sent, faults>>

\* on.message: skipped when a stop was requested; a message that is not JSON
\* or has no `cmd' is logged.
OnMessage(s) ==
  /\ thread[s] = "subscribed"
  /\ inbox[s] # <<>>
  /\ inbox' = [inbox EXCEPT ![s] = Tail(@)]
  /\ LET m == Head(inbox[s])
     IN  IF s \notin stop_requested /\ Form[m] \in {"command", "raises"}
         THEN /\ thread' = [thread EXCEPT ![s] = "waiting"]
              /\ current' = [current EXCEPT ![s] = m]
         ELSE UNCHANGED <<thread, current>>
  /\ UNCHANGED <<subscribed_channels, mutex, stopVars, published, sent, faults>>

\* @mutex_subscribed_channels.synchronize do
TakeMutex(s) ==
  /\ mutex = Nil
  /\ Go(s, "waiting", "sending")
  /\ mutex' = s
  /\ UNCHANGED <<subscribed_channels, inbox, current, stopVars, published,
                 sent, faults>>

\* Mutant: lock and unlock instead of synchronize, an exception keeps the lock.
SendKeepsMutex(s) ==
  /\ Go(s, "sending", "subscribed")
  /\ sent' = IF Form[current[s]] = "command"
             THEN [sent EXCEPT ![s] = Append(@, current[s])] ELSE sent
  /\ current' = [current EXCEPT ![s] = Nil]
  /\ mutex' = IF Form[current[s]] = "command" THEN Nil ELSE mutex
  /\ UNCHANGED <<subscribed_channels, inbox, stopVars, published, faults>>

\* Mutant: a message that raised is queued again.
SendQueuesAgain(s) ==
  /\ Go(s, "sending", "subscribed")
  /\ sent' = IF Form[current[s]] = "command"
             THEN [sent EXCEPT ![s] = Append(@, current[s])] ELSE sent
  /\ inbox' = IF Form[current[s]] = "command" THEN inbox
              ELSE [inbox EXCEPT ![s] = Append(@, current[s])]
  /\ current' = [current EXCEPT ![s] = Nil]
  /\ mutex' = Nil
  /\ UNCHANGED <<subscribed_channels, stopVars, published, faults>>

\* Mutant: a send that may have failed is repeated.
SendAgain(s) ==
  /\ thread[s] = "sending"
  /\ Form[current[s]] = "command"
  /\ sent' = [sent EXCEPT ![s] = Append(@, current[s])]
  /\ \/ /\ Go(s, "sending", "subscribed")
        /\ current' = [current EXCEPT ![s] = Nil]
        /\ mutex' = Nil
     \/ UNCHANGED <<thread, current, mutex>>
  /\ UNCHANGED <<subscribed_channels, inbox, stopVars, published, faults>>

\* Devices::Sender.send(@ws, command, *args), whose exceptions are rescued
\* outside the critical section.
Send(s) ==
  /\ Go(s, "sending", "subscribed")
  /\ sent' = IF Form[current[s]] = "command"
             THEN [sent EXCEPT ![s] = Append(@, current[s])] ELSE sent
  /\ current' = [current EXCEPT ![s] = Nil]
  /\ mutex' = Nil
  /\ UNCHANGED <<subscribed_channels, inbox, stopVars, published, faults>>

\* Mutant: no `ensure'.
EnsureKeepsKey(s) ==
  /\ Go(s, "ensure", "dead")
  /\ UNCHANGED <<subscribed_channels, mutex, inbox, current, stopVars,
                 published, sent, faults>>

\* ensure: the key goes, if it is there.
Ensure(s) ==
  /\ mutex = Nil
  /\ Go(s, "ensure", "dead")
  /\ DeleteKey(s)
  /\ UNCHANGED <<mutex, inbox, current, stopVars, published, sent, faults>>

-----------------------------------------------------------------------------
(* #stop, on the thread of its caller. *)

\* Mutant: only the flag is set, which a thread without messages never reads.
StopKillsNothing(s) ==
  /\ s \in Stoppable
  /\ thread[s] \notin {"new"} \cup InStart
  /\ stopping[s] = "no"
  /\ stopping' = [stopping EXCEPT ![s] = "deleting"]
  /\ stop_requested' = stop_requested \cup {s}
  /\ UNCHANGED <<subscribed_channels, mutex, thread, inbox, current, killed,
                 published, sent, faults>>

\* @stop_requested = true, then @thread.kill if it is alive.
StopKills(s) ==
  /\ s \in Stoppable
  /\ thread[s] \notin {"new"} \cup InStart
  /\ stopping[s] = "no"
  /\ stopping' = [stopping EXCEPT ![s] = "deleting"]
  /\ stop_requested' = stop_requested \cup {s}
  /\ killed' = IF thread[s] \in Live THEN killed \cup {s} ELSE killed
  /\ UNCHANGED <<subscribed_channels, mutex, thread, inbox, current,
                 published, sent, faults>>

\* synchronize { @subscribed_channels.delete(@channel) }
StopDeletes(s) ==
  /\ stopping[s] = "deleting"
  /\ mutex = Nil
  /\ DeleteKey(s)
  /\ stopping' = [stopping EXCEPT ![s] = "done"]
  /\ UNCHANGED <<mutex, thread, inbox, current, stop_requested, killed,
                 published, sent, faults>>

\* Thread#kill only marks the thread, which leaves its body, and the mutex,
\* some time later.  One that never ran has no `ensure' to run, and a kill
\* that arrives in the `ensure' cuts it short.
Dies(s) ==
  /\ s \in killed
  /\ killed' = killed \ {s}
  /\ thread' = [thread EXCEPT ![s] = IF @ \in {"spawned", "ensure", "dead"}
                                     THEN "dead" ELSE "ensure"]
  /\ mutex' = IF mutex = s THEN Nil ELSE mutex
  /\ UNCHANGED <<subscribed_channels, inbox, current, stop_requested,
                 stopping, published, sent, faults>>

-----------------------------------------------------------------------------
\* PTRP publishes on a channel: every subscription to it receives the message.
Publish(m, ch) ==
  /\ published[m] = Nil
  /\ published' = [published EXCEPT ![m] = ch]
  /\ inbox' = [s \in Service |->
                 IF thread[s] \in Listening /\ ChannelOf[s] = ch
                 THEN Append(inbox[s], m) ELSE inbox[s]]
  /\ UNCHANGED <<subscribed_channels, mutex, thread, current, stopVars, sent,
                 faults>>

Start(s) == StartChecks(s) \/ StartMarks(s) \/ StartSpawns(s)

Run(s) ==
  \/ ThreadBegins(s) \/ Subscribes(s) \/ CannotConnect(s) \/ SubscribeFails(s)
  \/ Retry(s) \/ OnMessage(s) \/ TakeMutex(s) \/ Send(s) \/ Ensure(s)

Stop(s) == StopKills(s) \/ StopDeletes(s) \/ Dies(s)

Next ==
  \/ \E s \in Service : Start(s) \/ Run(s) \/ Stop(s)
  \/ \E m \in Payload, ch \in Channel : Publish(m, ch)

Spec == Init /\ [][Next]_vars

(***************************************************************************)
(* Fairness.  The reactor goes on with a #start it has begun, a thread     *)
(* with what it can do; Ruby's Mutex serves those who wait for it in turn, *)
(* so whoever finds it free again and again takes it.  A killed thread     *)
(* dies, and whoever called #stop goes on with it.  No fairness for #start *)
(* or #stop being called, for a lost connection, or for anyone publishing. *)
(***************************************************************************)
Fairness ==
  \A s \in Service :
    /\ SF_vars(StartMarks(s))
    /\ WF_vars(StartSpawns(s))
    /\ WF_vars(ThreadBegins(s) \/ Subscribes(s) \/ Retry(s) \/ OnMessage(s)
                 \/ Send(s))
    /\ SF_vars(TakeMutex(s))
    /\ SF_vars(Ensure(s))
    /\ WF_vars(Dies(s))
    /\ SF_vars(StopDeletes(s))

FairSpec == Spec /\ Fairness

-----------------------------------------------------------------------------
SentBy(s) == {sent[s][i] : i \in 1..Len(sent[s])}

SameSlot(s, t) == HandlerOf[s] = HandlerOf[t] /\ ChannelOf[s] = ChannelOf[t]

\* Unless somebody calls #stop, @subscribed_channels holds a channel exactly
\* while one thread of the handler looks after it: the check and the marking
\* of #start are two critical sections, and the `ensure' of a thread that gave
\* up on Redis must not leave the channel marked for ever.
KeyMeansOneThread ==
  Stoppable = {} =>
    /\ \A s \in Service : thread[s] \in Live => HasKey(s)
    /\ \A h \in Handler : \A ch \in subscribed_channels[h] :
         \E s \in Service : /\ thread[s] \in Live
                            /\ HandlerOf[s] = h
                            /\ ChannelOf[s] = ch
    /\ \A s, t \in Service :
         thread[s] \in Live /\ thread[t] \in Live /\ SameSlot(s, t) => s = t

\* Unless somebody calls #stop, a command published once is sent at most once
\* on a web socket, neither twice by one thread, over its retries, nor by two
\* threads of the handler, however often they failed and were replaced.
NoDoubleSend ==
  Stoppable = {} =>
    \A s, t \in Service : HandlerOf[s] = HandlerOf[t] =>
      \A i \in 1..Len(sent[s]), j \in 1..Len(sent[t]) :
        sent[s][i] = sent[t][j] => s = t /\ i = j

\* #start never leaves the reactor waiting for the mutex for ever: whoever
\* sends to a reader under it lets go of it.
StartReturns ==
  \A s \in Service : thread[s] \in InStart ~> thread[s] \notin InStart

\* A thread that gave up on Redis lets go of its channel, so that the reader's
\* next frame can start another one: the key goes although the `ensure' has to
\* wait for the mutex and a kill may cut it short, unless another thread of the
\* handler, started after a #stop, has the channel by now.
SlotIsFreed ==
  \A s \in Service :
    thread[s] = "ensure"
      ~> \/ ~HasKey(s)
         \/ \E t \in Service \ {s} : SameSlot(s, t) /\ thread[t] \in Live

\* A service that was stopped ends its thread, wherever the kill caught it: in
\* the middle of subscribing, of a message, of a send under the mutex or of its
\* own `ensure'.
StopEndsThread ==
  \A s \in Service : stopping[s] # "no" ~> thread[s] \in {"dead", "ignored"}

\* A command that reached the subscription is sent unless the connection is
\* lost meanwhile.
ReceivedCommandIsSent ==
  \A s \in Service : \A m \in Payload :
    (\E i \in 1..Len(inbox[s]) : inbox[s][i] = m) /\ Form[m] = "command"
      ~> m \in SentBy(s) \/ thread[s] \notin Listening

-----------------------------------------------------------------------------
(* Unless somebody calls #stop, the services implement Subscription. *)

\* What a service has received and not dealt with, the message in progress
\* first.
Unread(s) ==
  (IF thread[s] \in {"waiting", "sending"} THEN <<current[s]>> ELSE <<>>)
    \o inbox[s]

Listeners(h, ch) ==
  {s \in Service : /\ thread[s] \in Listening
                   /\ HandlerOf[s] = h
                   /\ ChannelOf[s] = ch}

\* The messages a handler's subscription to a channel has still to deal with.
Mail ==
  [h \in Handler |-> [ch \in Channel |->
     IF Listeners(h, ch) = {} THEN <<>>
     ELSE Unread(CHOOSE s \in Listeners(h, ch) : TRUE)]]

Forwarded ==
  [h \in Handler |-> UNION {SentBy(s) : s \in {t \in Service : HandlerOf[t] = h}}]

Abstract == INSTANCE Subscription WITH inbox <- Mail, forwarded <- Forwarded

\* A handler's threads together behave as one subscription per channel: what
\* reaches it is dealt with in the order of publication, each message at most
\* once, and the key in @subscribed_channels tells whether it exists, although
\* #start's check and its marking are two critical sections, threads end and
\* are replaced, and all handlers wait for one mutex.
ImplementsSubscription == Abstract!Spec
=============================================================================
