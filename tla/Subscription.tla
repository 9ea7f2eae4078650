---------------------------- MODULE Subscription ----------------------------
(***************************************************************************)
(* What the gateway relies on its subscription threads for: a handler is   *)
(* subscribed to a channel while the channel is a key of its               *)
(* @subscribed_channels; what is published on the channel meanwhile may    *)
(* reach it, and is passed on to its web socket in that order, each        *)
(* message at most once.                                                   *)
(*                                                                         *)
(* WebSocketHandler takes these operations as they are;                    *)
(* RedisSubscriberService shows how threads, retries and a mutex           *)
(* implement them.                                                         *)
(***************************************************************************)
EXTENDS Naturals, Sequences

CONSTANTS
  Handler,   \* the WebSocketHandlers, each with one web socket
  Channel,   \* the channels, one per reader
  Payload,   \* the messages published, each at most once
  Nil        \* the channel of a frame without `sn', to which nothing is published

VARIABLES
  subscribed_channels,  \* the keys of each handler's @subscribed_channels
  published,            \* the channel a message was published on, else Nil
  inbox,                \* what a subscription has received and not dealt with
  forwarded             \* the messages passed on to a handler's web socket

subVars == <<subscribed_channels, published, inbox, forwarded>>

SubTypeOK ==
  /\ subscribed_channels \in [Handler -> SUBSET (Channel \cup {Nil})]
  /\ published \in [Payload -> Channel \cup {Nil}]
  /\ inbox \in [Handler -> [Channel -> Seq(Payload)]]
  /\ forwarded \in [Handler -> SUBSET Payload]

NoMail == [h \in Handler |-> [ch \in Channel |-> <<>>]]

SubInit ==
  /\ subscribed_channels = [h \in Handler |-> {}]
  /\ published = [m \in Payload |-> Nil]
  /\ inbox = NoMail
  /\ forwarded = [h \in Handler |-> {}]

\* #start: nothing if the key is there, else the key is set.
Subscribe(h, ch) ==
  /\ subscribed_channels' = [subscribed_channels EXCEPT ![h] = @ \cup {ch}]
  /\ UNCHANGED <<published, inbox, forwarded>>

\* A message reaches subscriptions to its channel, not necessarily all: the
\* key is set before the thread is connected and stays while it reconnects.
Publish(m, ch) ==
  /\ published[m] = Nil
  /\ published' = [published EXCEPT ![m] = ch]
  /\ \E receivers \in SUBSET {h \in Handler : ch \in subscribed_channels[h]} :
       inbox' = [h \in Handler |->
                   IF h \in receivers
                   THEN [inbox[h] EXCEPT ![ch] = Append(@, m)]
                   ELSE inbox[h]]
  /\ UNCHANGED <<subscribed_channels, forwarded>>

\* on.message with a command: it is sent, for the first time, on the socket.
Forward(h, ch) ==
  /\ inbox[h][ch] # <<>>
  /\ Head(inbox[h][ch]) \notin forwarded[h]
  /\ forwarded' = [forwarded EXCEPT ![h] = @ \cup {Head(inbox[h][ch])}]
  /\ inbox' = [inbox EXCEPT ![h][ch] = Tail(@)]
  /\ UNCHANGED <<subscribed_channels, published>>

\* on.message with anything else: an error is logged.
Discard(h, ch) ==
  /\ inbox[h][ch] # <<>>
  /\ inbox' = [inbox EXCEPT ![h][ch] = Tail(@)]
  /\ UNCHANGED <<subscribed_channels, published, forwarded>>

Without(mail, ch) == [k \in Channel |-> IF k = ch THEN <<>> ELSE mail[k]]

\* The connection is lost with all it had received; the thread will try again.
Reconnect(h, ch) ==
  /\ ch \in subscribed_channels[h]
  /\ inbox' = [inbox EXCEPT ![h] = Without(@, ch)]
  /\ UNCHANGED <<subscribed_channels, published, forwarded>>

\* The thread gives up, its `ensure' drops the key.
End(h, ch) ==
  /\ ch \in subscribed_channels[h]
  /\ subscribed_channels' = [subscribed_channels EXCEPT ![h] = @ \ {ch}]
  /\ inbox' = [inbox EXCEPT ![h] = Without(@, ch)]
  /\ UNCHANGED <<published, forwarded>>

Step(h, ch) ==
  \/ Subscribe(h, ch)
  \/ Reconnect(h, ch)
  \/ End(h, ch)
  \/ ch # Nil /\ (Forward(h, ch) \/ Discard(h, ch))

Next ==
  \/ \E h \in Handler, ch \in Channel \cup {Nil} : Step(h, ch)
  \/ \E m \in Payload, ch \in Channel : Publish(m, ch)

Spec == SubInit /\ [][Next]_subVars
=============================================================================
