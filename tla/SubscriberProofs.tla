--------------------------- MODULE SubscriberProofs -------------------------
(***************************************************************************)
(* Proofs about RedisSubscriberService, for any number of handlers,        *)
(* channels, services and failures.                                        *)
(***************************************************************************)
EXTENDS RedisSubscriberService, SequenceLemmas

-----------------------------------------------------------------------------
(* Type correctness. *)

\* The initial state is well typed.
LEMMA InitType == Init => TypeOK
BY DEF Init, TypeOK

\* #start keeps the types.
LEMMA StartType ==
  ASSUME TypeOK, NEW s \in Service, Start(s)
  PROVE  TypeOK'
<1> USE SubscriberAssumption DEF SubscriberAssumption, TypeOK, Live, Listening,
                                 Go, stopVars
<1>1. CASE StartChecks(s)
  BY <1>1 DEF StartChecks
<1>2. CASE StartMarks(s)
  BY <1>2 DEF StartMarks, SetKey
<1>3. CASE StartSpawns(s)
  BY <1>3 DEF StartSpawns
<1> QED
  BY <1>1, <1>2, <1>3 DEF Start

\* The thread keeps the types.
LEMMA RunType ==
  ASSUME TypeOK, NEW s \in Service, Run(s)
  PROVE  TypeOK'
<1> USE SubscriberAssumption DEF SubscriberAssumption, TypeOK, Live, Listening,
                                 Go, stopVars
<1>1. CASE ThreadBegins(s)
  BY <1>1 DEF ThreadBegins
<1>2. CASE Subscribes(s)
  BY <1>2 DEF Subscribes
<1>3. CASE CannotConnect(s)
  BY <1>3 DEF CannotConnect, Fault
<1>4. CASE SubscribeFails(s)
  <2>1. thread' = [thread EXCEPT ![s] = "sleeping"] /\ faults' \in Nat
    BY <1>4 DEF SubscribeFails, Fault
  <2>2. inbox' = [inbox EXCEPT ![s] = <<>>]
    BY <1>4 DEF SubscribeFails
  <2> QED
    BY <1>4, <2>1, <2>2 DEF SubscribeFails
<1>5. CASE Retry(s)
  BY <1>5 DEF Retry
<1>6. CASE OnMessage(s)
  <2>1. Head(inbox[s]) \in Payload /\ Tail(inbox[s]) \in Seq(Payload)
    BY <1>6, HeadTailProperties DEF OnMessage
  <2>2. inbox' \in [Service -> Seq(Payload)]
    BY <1>6, <2>1 DEF OnMessage
  <2>3. CASE UNCHANGED <<thread, current>>
    BY <1>6, <2>2, <2>3 DEF OnMessage
  <2>4. CASE /\ thread' = [thread EXCEPT ![s] = "waiting"]
             /\ current' = [current EXCEPT ![s] = Head(inbox[s])]
    <3>1. current' \in [Service -> Payload \cup {Nil}]
      BY <2>1, <2>4
    <3>2. thread' \in [Service -> {"new", "checked", "ignored", "dead"} \cup Live]
      BY <2>4
    <3>3. \A t \in Service : thread'[t] \in {"waiting", "sending"}
                               => current'[t] # Nil
      BY <2>1, <2>4
    <3> QED
      BY <1>6, <2>2, <3>1, <3>2, <3>3 DEF OnMessage
  <2> QED
    BY <1>6, <2>3, <2>4 DEF OnMessage
<1>7. CASE TakeMutex(s)
  BY <1>7 DEF TakeMutex
<1>8. CASE Send(s)
  <2>1. current[s] \in Payload
    BY <1>8 DEF Send
  <2>2. Append(sent[s], current[s]) \in Seq(Payload)
    BY <2>1
  <2>3. sent' \in [Service -> Seq(Payload)]
    BY <1>8, <2>2 DEF Send
  <2> QED
    BY <1>8, <2>3 DEF Send
<1>9. CASE Ensure(s)
  BY <1>9 DEF Ensure, DeleteKey
<1> QED
  BY <1>1, <1>2, <1>3, <1>4, <1>5, <1>6, <1>7, <1>8, <1>9 DEF Run

\* #stop and a kill keep the types.
LEMMA StopType ==
  ASSUME TypeOK, NEW s \in Service, Stop(s)
  PROVE  TypeOK'
<1> USE SubscriberAssumption DEF SubscriberAssumption, TypeOK, Live, Listening,
                                 stopVars
<1>1. CASE StopKills(s)
  BY <1>1 DEF StopKills
<1>2. CASE StopDeletes(s)
  BY <1>2 DEF StopDeletes, DeleteKey
<1>3. CASE Dies(s)
  BY <1>3 DEF Dies
<1> QED
  BY <1>1, <1>2, <1>3 DEF Stop

\* Every step keeps the types.
LEMMA NextType ==
  ASSUME TypeOK, [Next]_vars
  PROVE  TypeOK'
<1>1. CASE UNCHANGED vars
  BY <1>1 DEF vars, TypeOK
<1>2. ASSUME NEW m \in Payload, NEW ch \in Channel, Publish(m, ch)
      PROVE  TypeOK'
  <2>1. inbox' \in [Service -> Seq(Payload)]
    BY <1>2 DEF Publish, TypeOK
  <2> QED
    BY <1>2, <2>1 DEF Publish, TypeOK, stopVars
<1> QED
  BY <1>1, <1>2, StartType, RunType, StopType DEF Next

\* The subscribers' state is well typed in every reachable state; a thread that
\* waits to send has a command to send.
THEOREM TypeCorrect == Spec => []TypeOK
BY InitType, NextType, PTL DEF Spec

-----------------------------------------------------------------------------
(* The inductive invariant behind KeyMeansOneThread. *)

\* Without #stop nobody is killed and no key is deleted but by its own thread.
NobodyStopped == killed = {} /\ \A s \in Service : stopping[s] = "no"

\* The reactor runs one #start at a time, and until it marks the channel
\* nobody else does.
StartIsAlone ==
  /\ \A s, t \in Service : thread[s] \in InStart /\ thread[t] \in InStart => s = t
  /\ \A s \in Service : thread[s] = "checked" => ~HasKey(s)

LiveHasKey == \A s \in Service : thread[s] \in Live => HasKey(s)

KeyHasLive ==
  \A h \in Handler : \A ch \in subscribed_channels[h] :
    \E s \in Service : thread[s] \in Live /\ HandlerOf[s] = h /\ ChannelOf[s] = ch

OneLive ==
  \A s, t \in Service :
    thread[s] \in Live /\ thread[t] \in Live /\ SameSlot(s, t) => s = t

KeyInv == NobodyStopped /\ StartIsAlone /\ LiveHasKey /\ KeyHasLive /\ OneLive

\* The invariant holds at the start.
LEMMA KeyInit == Init => KeyInv
BY DEF Init, KeyInv, NobodyStopped, StartIsAlone, InStart, LiveHasKey, Live,
       Listening, KeyHasLive, OneLive

\* A step that leaves the keys alone and moves a service from one state to
\* another, both of which hold the key or both of which do not.
LEMMA KeyMoves ==
  ASSUME TypeOK, KeyInv, NEW s \in Service, NEW to,
         thread' = [thread EXCEPT ![s] = to],
         thread[s] \in Live <=> to \in Live,
         to # "checked", to \in InStart => thread[s] \in InStart,
         UNCHANGED <<subscribed_channels, stopping, killed>>
  PROVE  KeyInv'
<1> USE DEF TypeOK
<1>1. NobodyStopped'
  BY DEF KeyInv, NobodyStopped
<1>2. StartIsAlone'
  BY DEF KeyInv, StartIsAlone, HasKey
<1>3. \A t \in Service : thread'[t] \in Live <=> thread[t] \in Live
  OBVIOUS
<1>4. LiveHasKey'
  BY <1>3 DEF KeyInv, LiveHasKey, HasKey
<1>5. KeyHasLive'
  BY <1>3 DEF KeyInv, KeyHasLive
<1>6. OneLive'
  BY <1>3 DEF KeyInv, OneLive
<1> QED
  BY <1>1, <1>2, <1>4, <1>5, <1>6 DEF KeyInv

\* A step that leaves the threads and their keys alone.
LEMMA KeyStutter ==
  ASSUME KeyInv, UNCHANGED <<thread, subscribed_channels, stopping, killed>>
  PROVE  KeyInv'
BY DEF KeyInv, NobodyStopped, StartIsAlone, LiveHasKey, KeyHasLive, OneLive,
       HasKey

\* #start preserves the invariant.
LEMMA KeyStart ==
  ASSUME TypeOK, KeyInv, NEW s \in Service, Start(s)
  PROVE  KeyInv'
<1> USE SubscriberAssumption DEF SubscriberAssumption, stopVars
<1>1. CASE StartChecks(s)
  <2>1. CASE HasKey(s)
    BY <1>1, <2>1, KeyMoves DEF StartChecks, Go, Live, Listening, InStart
  <2>2. CASE ~HasKey(s)
    <3>1. /\ thread' = [thread EXCEPT ![s] = "checked"] /\ thread[s] = "new"
          /\ UNCHANGED <<subscribed_channels, stopping, killed>>
          /\ \A t \in Service : thread[t] \notin InStart
      BY <1>1, <2>2 DEF StartChecks, Go
    <3>2. \A t \in Service : thread'[t] \in Live <=> thread[t] \in Live
      BY <3>1 DEF TypeOK, Live, Listening
    <3>3. StartIsAlone'
      BY <3>1, <2>2 DEF KeyInv, StartIsAlone, HasKey, TypeOK, InStart
    <3>4. NobodyStopped' /\ LiveHasKey' /\ KeyHasLive' /\ OneLive'
      BY <3>1, <3>2 DEF KeyInv, NobodyStopped, LiveHasKey, KeyHasLive, OneLive,
                        HasKey
    <3> QED
      BY <3>3, <3>4 DEF KeyInv
  <2> QED
    BY <2>1, <2>2
<1>2. CASE StartMarks(s)
  <2>1. /\ thread' = [thread EXCEPT ![s] = "marked"] /\ thread[s] = "checked"
        /\ subscribed_channels' =
             [subscribed_channels EXCEPT ![HandlerOf[s]] = @ \cup {ChannelOf[s]}]
        /\ UNCHANGED <<stopping, killed>>
    BY <1>2 DEF StartMarks, Go, SetKey
  <2>2. ~HasKey(s)
    BY <2>1 DEF KeyInv, StartIsAlone
  <2>3. \A t \in Service : thread'[t] \in Live <=> thread[t] \in Live \/ t = s
    BY <2>1 DEF TypeOK, Live
  <2>4. NobodyStopped'
    BY <2>1 DEF KeyInv, NobodyStopped
  <2>5. StartIsAlone'
    BY <2>1 DEF KeyInv, StartIsAlone, TypeOK, InStart
  <2>6. \A t \in Service : HasKey(t)' <=> HasKey(t) \/ SameSlot(s, t)
    BY <2>1 DEF HasKey, SameSlot, TypeOK
  <2>7. LiveHasKey'
    BY <2>3, <2>6 DEF KeyInv, LiveHasKey, SameSlot
  <2>8. KeyHasLive'
    BY <2>1, <2>3 DEF KeyInv, KeyHasLive, TypeOK
  <2>9. \A t \in Service : thread[t] \in Live => ~SameSlot(s, t)
    BY <2>2 DEF KeyInv, LiveHasKey, HasKey, SameSlot
  <2>10. OneLive'
    BY <2>3, <2>9 DEF KeyInv, OneLive, SameSlot
  <2> QED
    BY <2>4, <2>5, <2>7, <2>8, <2>10 DEF KeyInv
<1>3. CASE StartSpawns(s)
  BY <1>3, KeyMoves DEF StartSpawns, Go, Live, Listening, InStart
<1> QED
  BY <1>1, <1>2, <1>3 DEF Start

\* The thread preserves the invariant.
LEMMA KeyRun ==
  ASSUME TypeOK, KeyInv, NEW s \in Service, Run(s)
  PROVE  KeyInv'
<1> USE SubscriberAssumption DEF SubscriberAssumption, stopVars, Go, Live,
                                 Listening, InStart
<1>1. CASE ThreadBegins(s)
  BY <1>1, KeyMoves DEF ThreadBegins
<1>2. CASE Subscribes(s)
  BY <1>2, KeyMoves DEF Subscribes
<1>3. CASE CannotConnect(s)
  BY <1>3, KeyMoves DEF CannotConnect
<1>4. CASE SubscribeFails(s)
  BY <1>4, KeyMoves DEF SubscribeFails
<1>5. CASE Retry(s)
  BY <1>5, KeyMoves DEF Retry
<1>6. CASE OnMessage(s)
  BY <1>6, KeyMoves, KeyStutter DEF OnMessage
<1>7. CASE TakeMutex(s)
  BY <1>7, KeyMoves DEF TakeMutex
<1>8. CASE Send(s)
  BY <1>8, KeyMoves DEF Send
<1>9. CASE Ensure(s)
  <2>1. /\ thread' = [thread EXCEPT ![s] = "dead"] /\ thread[s] = "ensure"
        /\ subscribed_channels' =
             [subscribed_channels EXCEPT ![HandlerOf[s]] = @ \ {ChannelOf[s]}]
        /\ UNCHANGED <<stopping, killed>>
    BY <1>9 DEF Ensure, DeleteKey
  <2>2. \A t \in Service : thread'[t] \in Live <=> thread[t] \in Live /\ t # s
    BY <2>1 DEF TypeOK
  <2>3. \A t \in Service : HasKey(t)' <=> HasKey(t) /\ ~SameSlot(s, t)
    BY <2>1 DEF HasKey, SameSlot, TypeOK
  <2>4. \A t \in Service : thread[t] \in Live /\ SameSlot(s, t) => t = s
    BY <2>1 DEF KeyInv, OneLive
  <2>5. NobodyStopped'
    BY <2>1 DEF KeyInv, NobodyStopped
  <2>6. StartIsAlone'
    BY <2>1, <2>3 DEF KeyInv, StartIsAlone, TypeOK
  <2>7. LiveHasKey'
    BY <2>2, <2>3, <2>4 DEF KeyInv, LiveHasKey
  <2>8. KeyHasLive'
    BY <2>1, <2>2 DEF KeyInv, KeyHasLive, TypeOK
  <2>9. OneLive'
    BY <2>2 DEF KeyInv, OneLive, SameSlot
  <2> QED
    BY <2>5, <2>6, <2>7, <2>8, <2>9 DEF KeyInv
<1> QED
  BY <1>1, <1>2, <1>3, <1>4, <1>5, <1>6, <1>7, <1>8, <1>9 DEF Run

\* Every step preserves the invariant as long as nothing is stopped.
LEMMA KeyNext ==
  ASSUME Stoppable = {}, TypeOK, KeyInv, [Next]_vars
  PROVE  KeyInv'
<1>1. CASE UNCHANGED vars
  BY <1>1, KeyStutter DEF vars, stopVars
<1>2. ASSUME NEW s \in Service, Stop(s)
      PROVE  FALSE
  BY <1>2 DEF Stop, StopKills, StopDeletes, Dies, KeyInv, NobodyStopped
<1>3. ASSUME NEW m \in Payload, NEW ch \in Channel, Publish(m, ch)
      PROVE  KeyInv'
  BY <1>3, KeyStutter DEF Publish, stopVars
<1> QED
  BY <1>1, <1>2, <1>3, KeyStart, KeyRun DEF Next

\* As long as nobody calls #stop, a channel of @subscribed_channels is marked
\* exactly while one thread looks after it, for any number of services.
THEOREM OneThreadPerKey == Spec => []KeyMeansOneThread
<1>1. Init => (Stoppable = {} => KeyInv)
  BY KeyInit
<1>2. TypeOK /\ (Stoppable = {} => KeyInv) /\ [Next]_vars
        => (Stoppable = {} => KeyInv)'
  BY KeyNext
<1>3. (Stoppable = {} => KeyInv) => KeyMeansOneThread
  BY DEF KeyInv, LiveHasKey, KeyHasLive, OneLive, KeyMeansOneThread
<1> QED
  BY <1>1, <1>2, <1>3, TypeCorrect, PTL DEF Spec

-----------------------------------------------------------------------------
(* The inductive invariant behind NoDoubleSend. *)

\* What a service has in hand or has had.
Got(s) == Elements(sent[s]) \cup Elements(inbox[s]) \cup ({current[s]} \ {Nil})

\* A service that does not listen has nothing unread, it is at a message only
\* between reading and having sent it, and never has a message twice.
Tidy(s) ==
  /\ thread[s] \notin Listening => inbox[s] = <<>>
  /\ thread[s] \in Listening => ChannelOf[s] # Nil
  /\ current[s] # Nil <=> thread[s] \in {"waiting", "sending"}
  /\ Distinct(inbox[s])
  /\ current[s] \notin Elements(inbox[s])
  /\ Distinct(sent[s])
  /\ current[s] \notin Elements(sent[s])
  /\ Elements(inbox[s]) \cap Elements(sent[s]) = {}

\* A service gets what is published on its channel.
GotPublished ==
  \A s \in Service : \A m \in Got(s) :
    ChannelOf[s] # Nil /\ published[m] = ChannelOf[s]

\* Of the services of a handler with one channel only one gets a message.
GotOnce ==
  \A s, t \in Service : SameSlot(s, t) /\ s # t => Got(s) \cap Got(t) = {}

DeliveryInv == (\A s \in Service : Tidy(s)) /\ GotPublished /\ GotOnce

\* Nobody has anything at first.
LEMMA DeliveryInit == Init => DeliveryInv
<1> SUFFICES ASSUME Init PROVE DeliveryInv
  OBVIOUS
<1>1. ASSUME NEW s \in Service
      PROVE  Tidy(s) /\ Got(s) = {}
  <2>1. /\ sent[s] = <<>> /\ inbox[s] = <<>> /\ current[s] = Nil
        /\ thread[s] = "new"
    BY DEF Init
  <2> QED
    BY <2>1, EmptyElements DEF Tidy, Got, Listening
<1> QED
  BY <1>1 DEF DeliveryInv, GotPublished, GotOnce

\* A step of one service that loses messages or keeps them.
LEMMA DeliveryStep ==
  ASSUME DeliveryInv, NEW s \in Service,
         \A t \in Service : t # s =>
           /\ thread'[t] = thread[t] /\ inbox'[t] = inbox[t]
           /\ current'[t] = current[t] /\ sent'[t] = sent[t],
         UNCHANGED published, Tidy(s)', Got(s)' \subseteq Got(s)
  PROVE  DeliveryInv'
<1>1. ASSUME NEW t \in Service, t # s
      PROVE  Tidy(t)' /\ Got(t)' = Got(t)
  BY <1>1 DEF DeliveryInv, Tidy, Got
<1>2. \A t \in Service : Got(t)' \subseteq Got(t)
  BY <1>1
<1>3. GotPublished'
  BY <1>2 DEF DeliveryInv, GotPublished
<1>4. GotOnce'
  BY <1>2 DEF DeliveryInv, GotOnce, SameSlot
<1> QED
  BY <1>1, <1>3, <1>4 DEF DeliveryInv

\* A thread that moves with nothing in hand, in or out of listening.
LEMMA DeliveryMove ==
  ASSUME TypeOK, DeliveryInv, NEW s \in Service, NEW to,
         thread' = [thread EXCEPT ![s] = to],
         to \notin {"waiting", "sending"}, thread[s] \notin {"waiting", "sending"},
         inbox[s] = <<>> \/ inbox' = [inbox EXCEPT ![s] = <<>>],
         inbox' \in {inbox, [inbox EXCEPT ![s] = <<>>]},
         to \in Listening => ChannelOf[s] # Nil,
         UNCHANGED <<current, sent, published>>
  PROVE  DeliveryInv'
<1>1. /\ thread'[s] = to /\ inbox'[s] = <<>> /\ current'[s] = current[s]
      /\ sent'[s] = sent[s]
      /\ \A t \in Service : t # s => thread'[t] = thread[t] /\ inbox'[t] = inbox[t]
  BY DEF TypeOK
<1>2. Tidy(s)
  BY DEF DeliveryInv
<1>3. Tidy(s)'
  BY <1>1, <1>2, EmptyElements DEF Tidy
<1>4. Got(s)' \subseteq Got(s)
  BY <1>1, EmptyElements DEF Got
<1> QED
  BY <1>1, <1>3, <1>4, DeliveryStep

\* #start hands no message out.
LEMMA DeliveryStart ==
  ASSUME TypeOK, DeliveryInv, NEW s \in Service, Start(s)
  PROVE  DeliveryInv'
<1>1. thread[s] \notin Listening
  BY DEF Start, StartChecks, StartMarks, StartSpawns, Go, Listening
<1>2. inbox[s] = <<>>
  BY <1>1 DEF DeliveryInv, Tidy
<1>3. \E to \in {"checked", "ignored", "marked", "spawned"} :
        thread' = [thread EXCEPT ![s] = to]
  BY DEF Start, StartChecks, StartMarks, StartSpawns, Go
<1>4. UNCHANGED <<inbox, current, sent, published>>
  BY DEF Start, StartChecks, StartMarks, StartSpawns
<1> QED
  BY <1>1, <1>2, <1>3, <1>4, DeliveryMove DEF Listening

\* The thread passes a message from its inbox to its hand and from there to the
\* web socket.
LEMMA DeliveryRun ==
  ASSUME TypeOK, DeliveryInv, NEW s \in Service, Run(s)
  PROVE  DeliveryInv'
<1>0. Tidy(s)
  BY DEF DeliveryInv
<1>1. CASE ThreadBegins(s) \/ Subscribes(s) \/ CannotConnect(s) \/ Retry(s)
             \/ Ensure(s)
  <2>1. /\ thread[s] \notin Listening
        /\ \E to \in {"connecting", "subscribed", "ensure", "dead"} :
             /\ thread' = [thread EXCEPT ![s] = to]
             /\ to = "subscribed" => ChannelOf[s] # Nil
        /\ UNCHANGED <<inbox, current, sent, published>>
    BY <1>1 DEF ThreadBegins, Subscribes, CannotConnect, Retry, Ensure, Go,
                Listening
  <2>2. inbox[s] = <<>>
    BY <1>0, <2>1 DEF Tidy
  <2> QED
    BY <2>1, <2>2, DeliveryMove DEF Listening
<1>2. CASE SubscribeFails(s)
  <2>1. /\ thread[s] \in {"connecting", "subscribed"}
        /\ thread' = [thread EXCEPT ![s] = "sleeping"]
        /\ inbox' = [inbox EXCEPT ![s] = <<>>]
        /\ UNCHANGED <<current, sent, published>>
    BY <1>2 DEF SubscribeFails, Go
  <2>2. /\ "sleeping" \notin {"waiting", "sending"} /\ "sleeping" \notin Listening
        /\ thread[s] \notin {"waiting", "sending"}
        /\ inbox' \in {inbox, [inbox EXCEPT ![s] = <<>>]}
    BY <2>1 DEF Listening
  <2> QED
    BY <2>1, <2>2, DeliveryMove
<1>3. CASE TakeMutex(s)
  <2>1. /\ thread[s] = "waiting" /\ thread' = [thread EXCEPT ![s] = "sending"]
        /\ UNCHANGED <<inbox, current, sent, published>>
    BY <1>3 DEF TakeMutex, Go
  <2>2. Tidy(s)'
    BY <1>0, <2>1 DEF Tidy, TypeOK, Listening
  <2>3. Got(s)' = Got(s)
    BY <2>1 DEF Got
  <2> QED
    BY <2>1, <2>2, <2>3, DeliveryStep DEF TypeOK
<1>4. CASE OnMessage(s)
  <2>1. /\ inbox[s] \in Seq(Payload) /\ inbox[s] # <<>>
        /\ thread[s] = "subscribed" /\ current[s] = Nil
    BY <1>0, <1>4 DEF OnMessage, TypeOK, Tidy
  <2>2. PICK m \in Payload, rest \in Seq(Payload) :
          /\ m = Head(inbox[s]) /\ rest = Tail(inbox[s])
          /\ Elements(inbox[s]) = {m} \cup Elements(rest)
          /\ Distinct(rest) /\ m \notin Elements(rest)
    <3>1. /\ Head(inbox[s]) \in Payload /\ Tail(inbox[s]) \in Seq(Payload)
          /\ Elements(inbox[s]) = {Head(inbox[s])} \cup Elements(Tail(inbox[s]))
          /\ Distinct(Tail(inbox[s]))
          /\ Head(inbox[s]) \notin Elements(Tail(inbox[s]))
      BY <1>0, <2>1, TakesHead DEF Tidy
    <3> QED
      BY <3>1
  <2>3. /\ inbox' = [inbox EXCEPT ![s] = rest]
        /\ UNCHANGED <<sent, published>>
        /\ \/ UNCHANGED <<thread, current>>
           \/ /\ thread' = [thread EXCEPT ![s] = "waiting"]
              /\ current' = [current EXCEPT ![s] = m]
    BY <1>4, <2>2 DEF OnMessage
  <2>4. /\ inbox'[s] = rest /\ sent'[s] = sent[s]
        /\ \/ thread'[s] = "subscribed" /\ current'[s] = Nil
           \/ thread'[s] = "waiting" /\ current'[s] = m
        /\ \A t \in Service : t # s =>
             /\ thread'[t] = thread[t] /\ inbox'[t] = inbox[t]
             /\ current'[t] = current[t]
    BY <2>1, <2>3 DEF TypeOK
  <2>5. m # Nil /\ Nil \notin Elements(rest)
    BY <2>2, ElementsType, SubscriberAssumption DEF SubscriberAssumption
  <2>6. Tidy(s)'
    BY <1>0, <2>1, <2>2, <2>4, <2>5 DEF Tidy, Listening
  <2>7. Got(s)' \subseteq Got(s)
    BY <2>2, <2>4, <2>5 DEF Got
  <2> QED
    BY <2>3, <2>4, <2>6, <2>7, DeliveryStep
<1>5. CASE Send(s)
  <2>1. PICK m \in Payload : m = current[s]
    BY <1>5 DEF Send, Go, TypeOK
  <2>2. thread[s] = "sending" /\ m # Nil
    BY <1>5, <2>1, SubscriberAssumption DEF Send, Go, SubscriberAssumption
  <2>3. /\ inbox' = inbox /\ sent'[s] \in {sent[s], Append(sent[s], m)}
        /\ thread'[s] = "subscribed" /\ current'[s] = Nil
        /\ UNCHANGED published
        /\ \A t \in Service : t # s =>
             /\ thread'[t] = thread[t] /\ sent'[t] = sent[t]
             /\ current'[t] = current[t]
    BY <1>5, <2>1 DEF Send, Go, TypeOK
  <2>4. inbox[s] \in Seq(Payload) /\ sent[s] \in Seq(Payload)
    BY DEF TypeOK
  <2>5. m \notin Elements(sent[s]) /\ m \notin Elements(inbox[s])
    BY <1>0, <2>1 DEF Tidy
  <2>6. /\ Elements(sent'[s]) \in {Elements(sent[s]), Elements(sent[s]) \cup {m}}
        /\ Distinct(sent'[s])
    <3>1. /\ Elements(Append(sent[s], m)) = Elements(sent[s]) \cup {m}
          /\ Distinct(Append(sent[s], m))
      BY <1>0, <2>4, <2>5, AppendsOne DEF Tidy
    <3> QED
      BY <1>0, <2>3, <3>1 DEF Tidy
  <2>7. Nil \notin Elements(inbox[s]) /\ Nil \notin Elements(sent[s])
    BY <2>4, ElementsType, SubscriberAssumption DEF SubscriberAssumption
  <2>8. Tidy(s)'
    BY <1>0, <2>1, <2>2, <2>3, <2>5, <2>6, <2>7 DEF Tidy, Listening
  <2>9. Got(s)' \subseteq Got(s)
    BY <2>1, <2>2, <2>3, <2>6 DEF Got
  <2> QED
    BY <2>3, <2>8, <2>9, DeliveryStep
<1> QED
  BY <1>1, <1>2, <1>3, <1>4, <1>5 DEF Run

\* A publication reaches the one service of a handler that listens to the
\* channel; nobody has the message yet.
LEMMA DeliveryPublish ==
  ASSUME TypeOK, KeyInv, DeliveryInv, NEW m \in Payload, NEW ch \in Channel,
         Publish(m, ch)
  PROVE  DeliveryInv'
<1> USE SubscriberAssumption DEF SubscriberAssumption
<1>1. /\ published[m] = Nil /\ published' = [published EXCEPT ![m] = ch]
      /\ UNCHANGED <<thread, current, sent>> /\ ch # Nil /\ m # Nil
  BY DEF Publish
<1>2. \A s \in Service : m \notin Got(s)
  BY <1>1 DEF DeliveryInv, GotPublished
<1> DEFINE Reached(s) == thread[s] \in Listening /\ ChannelOf[s] = ch
<1>3. ASSUME NEW s \in Service
      PROVE  /\ Tidy(s)'
             /\ Got(s)' = IF Reached(s) THEN Got(s) \cup {m} ELSE Got(s)
  <2>1. Tidy(s)
    BY DEF DeliveryInv
  <2>2. CASE Reached(s)
    <3>1. inbox[s] \in Seq(Payload) /\ inbox'[s] = Append(inbox[s], m)
      BY <2>2 DEF Publish, TypeOK
    <3>2. /\ m \notin Elements(inbox[s]) /\ m # current[s]
          /\ m \notin Elements(sent[s])
      BY <1>1, <1>2 DEF Got
    <3>3. /\ Elements(inbox'[s]) = Elements(inbox[s]) \cup {m}
          /\ Distinct(inbox'[s])
      BY <2>1, <3>1, <3>2, AppendsOne DEF Tidy
    <3>4. Tidy(s)'
      BY <1>1, <2>1, <2>2, <3>2, <3>3 DEF Tidy
    <3>5. Got(s)' = Got(s) \cup {m}
      BY <1>1, <3>3 DEF Got
    <3> QED
      BY <2>2, <3>4, <3>5
  <2>3. CASE ~Reached(s)
    <3>1. inbox'[s] = inbox[s]
      BY <2>3 DEF Publish
    <3>2. Tidy(s)' /\ Got(s)' = Got(s)
      BY <1>1, <2>1, <3>1 DEF Tidy, Got
    <3> QED
      BY <2>3, <3>2
  <2> QED
    BY <2>2, <2>3
<1>4. \A s, t \in Service : SameSlot(s, t) /\ s # t => ~(Reached(s) /\ Reached(t))
  BY DEF KeyInv, OneLive, Live
<1>5. \A s \in Service : Got(s) \subseteq Payload
  <2>1. ASSUME NEW s \in Service
        PROVE  Elements(inbox[s]) \subseteq Payload /\ Elements(sent[s]) \subseteq Payload
    BY ElementsType DEF TypeOK
  <2> QED
    BY <2>1 DEF Got, TypeOK
<1>6. \A k \in Payload : published'[k] = IF k = m THEN ch ELSE published[k]
  BY <1>1 DEF TypeOK
<1>7. GotPublished'
  <2> SUFFICES ASSUME NEW s \in Service, NEW k \in Got(s)'
               PROVE  ChannelOf[s] # Nil /\ published'[k] = ChannelOf[s]
    BY DEF GotPublished
  <2>1. CASE k \in Got(s)
    <3>1. k # m /\ k \in Payload
      BY <1>2, <1>5, <2>1
    <3> QED
      BY <1>6, <2>1, <3>1 DEF DeliveryInv, GotPublished
  <2>2. CASE k = m /\ Reached(s)
    BY <1>1, <1>6, <2>2
  <2> QED
    BY <1>3, <2>1, <2>2
<1>8. GotOnce'
  <2> SUFFICES ASSUME NEW s \in Service, NEW t \in Service, SameSlot(s, t), s # t
               PROVE  Got(s)' \cap Got(t)' = {}
    BY DEF GotOnce, SameSlot
  <2>1. Got(s) \cap Got(t) = {} /\ m \notin Got(s) /\ m \notin Got(t)
    BY <1>2 DEF DeliveryInv, GotOnce
  <2> QED
    BY <1>3, <1>4, <2>1
<1> QED
  BY <1>3, <1>7, <1>8 DEF DeliveryInv

\* Every step preserves the invariant as long as nothing is stopped.
LEMMA DeliveryNext ==
  ASSUME Stoppable = {}, TypeOK, KeyInv, DeliveryInv, [Next]_vars
  PROVE  DeliveryInv'
<1>1. CASE UNCHANGED vars
  <2>1. ASSUME NEW s \in Service
        PROVE  Tidy(s)' /\ Got(s)' = Got(s)
    BY <1>1 DEF vars, DeliveryInv, Tidy, Got
  <2> QED
    BY <1>1, <2>1 DEF vars, DeliveryInv, GotPublished, GotOnce, SameSlot
<1>2. ASSUME NEW s \in Service, Stop(s)
      PROVE  FALSE
  BY <1>2 DEF Stop, StopKills, StopDeletes, Dies, KeyInv, NobodyStopped
<1> QED
  BY <1>1, <1>2, DeliveryStart, DeliveryRun, DeliveryPublish DEF Next

\* As long as nobody calls #stop, both invariants hold in every reachable state.
LEMMA DeliveryAlways == Spec => [](Stoppable = {} => KeyInv /\ DeliveryInv)
<1>1. Init => (Stoppable = {} => KeyInv /\ DeliveryInv)
  BY KeyInit, DeliveryInit
<1>2. TypeOK /\ (Stoppable = {} => KeyInv /\ DeliveryInv) /\ [Next]_vars
        => (Stoppable = {} => KeyInv /\ DeliveryInv)'
  BY KeyNext, DeliveryNext
<1> QED
  BY <1>1, <1>2, TypeCorrect, PTL DEF Spec

\* As long as nobody calls #stop, a command published once is sent at most once
\* on a web socket: not twice by one thread (line 44 sends what on.message took
\* from the subscription, which the retry starts anew), and not by two threads
\* of the handler, however many were started and however often they failed.
THEOREM SentAtMostOnce == Spec => []NoDoubleSend
<1>1. ASSUME DeliveryInv, NEW s \in Service, NEW t \in Service,
             HandlerOf[s] = HandlerOf[t],
             NEW i \in 1..Len(sent[s]), NEW j \in 1..Len(sent[t]),
             sent[s][i] = sent[t][j]
      PROVE  s = t /\ i = j
  <2>1. sent[s][i] \in Got(s) /\ sent[s][i] \in Got(t)
    BY <1>1 DEF Got, Elements
  <2>2. SameSlot(s, t)
    BY <1>1, <2>1 DEF DeliveryInv, GotPublished, SameSlot
  <2>3. s = t
    BY <1>1, <2>1, <2>2 DEF DeliveryInv, GotOnce
  <2>4. Distinct(sent[s])
    BY <1>1 DEF DeliveryInv, Tidy
  <2> QED
    BY <1>1, <2>3, <2>4 DEF Distinct
<1>2. (Stoppable = {} => KeyInv /\ DeliveryInv) => NoDoubleSend
  BY <1>1 DEF NoDoubleSend
<1> QED
  BY <1>2, DeliveryAlways, PTL

-----------------------------------------------------------------------------
(* The services implement Subscription. *)

\* The listener of a handler and channel is the one that has the mail.
ListenerHasMail ==
  \A s \in Service : thread[s] \in Listening /\ ChannelOf[s] \in Channel
    => Mail[HandlerOf[s]][ChannelOf[s]] = Unread(s)

\* Without a listener there is no mail.
NoListenerNoMail ==
  \A h \in Handler, ch \in Channel :
    (\A s \in Service : thread[s] \in Listening
       => ~(HandlerOf[s] = h /\ ChannelOf[s] = ch))
    => Mail[h][ch] = <<>>

\* What the mail of a handler is, given that at most one of its services listens
\* to a channel.
LEMMA MailIs == OneLive => ListenerHasMail /\ NoListenerNoMail
<1> SUFFICES ASSUME OneLive
             PROVE  ListenerHasMail /\ NoListenerNoMail
  OBVIOUS
<1>1. ASSUME NEW s \in Service, thread[s] \in Listening, ChannelOf[s] \in Channel
      PROVE  Mail[HandlerOf[s]][ChannelOf[s]] = Unread(s)
  <2>1. HandlerOf[s] \in Handler
    BY SubscriberAssumption DEF SubscriberAssumption
  <2>2. \A t \in Listeners(HandlerOf[s], ChannelOf[s]) : t = s
    BY <1>1 DEF OneLive, Listeners, SameSlot, Live
  <2>3. s \in Listeners(HandlerOf[s], ChannelOf[s])
    BY <1>1 DEF Listeners
  <2>4. (CHOOSE t \in Listeners(HandlerOf[s], ChannelOf[s]) : TRUE) = s
    BY <2>2, <2>3
  <2> QED
    BY <1>1, <2>1, <2>3, <2>4 DEF Mail
<1>2. NoListenerNoMail
  BY DEF NoListenerNoMail, Mail, Listeners
<1> QED
  BY <1>1, <1>2 DEF ListenerHasMail

\* The same after a step.
LEMMA MailIsNext == OneLive' => ListenerHasMail' /\ NoListenerNoMail'
BY MailIs, PTL

\* Mail is kept by handler and channel.
LEMMA MailShape == Mail = [h \in Handler |-> [ch \in Channel |-> Mail[h][ch]]]
BY DEF Mail

\* The same after a step.
LEMMA MailShapeNext ==
  Mail' = [h \in Handler |-> [ch \in Channel |-> Mail'[h][ch]]]
BY DEF Mail

\* Mail stays the same while the listeners do and what they have not read does.
LEMMA MailKept ==
  ASSUME \A t \in Service :
           /\ thread'[t] \in Listening <=> thread[t] \in Listening
           /\ thread[t] \in Listening => Unread(t)' = Unread(t)
  PROVE  Mail' = Mail
<1>1. ASSUME NEW h \in Handler, NEW ch \in Channel
      PROVE  Mail'[h][ch] = Mail[h][ch]
  <2>1. Listeners(h, ch)' = Listeners(h, ch)
    BY DEF Listeners
  <2>2. CASE Listeners(h, ch) = {}
    BY <2>1, <2>2 DEF Mail
  <2>3. CASE Listeners(h, ch) # {}
    <3>1. PICK t \in Service : t = CHOOSE s \in Listeners(h, ch) : TRUE
      BY <2>3 DEF Listeners
    <3>2. t \in Listeners(h, ch)
      BY <2>3, <3>1
    <3>3. Unread(t)' = Unread(t)
      BY <3>2 DEF Listeners
    <3>4. t = CHOOSE s \in Listeners(h, ch)' : TRUE
      BY <2>1, <3>1
    <3> QED
      BY <2>1, <2>3, <3>1, <3>3, <3>4 DEF Mail
  <2> QED
    BY <2>2, <2>3
<1> QED
  BY <1>1, MailShape, MailShapeNext

\* A step of a listener changes the mail of its own handler and channel.
LEMMA MailChanged ==
  ASSUME OneLive, OneLive', NEW s \in Service, thread[s] \in Live,
         thread'[s] \in Live, ChannelOf[s] \in Channel,
         \A t \in Service : t # s =>
           /\ thread'[t] = thread[t] /\ inbox'[t] = inbox[t]
           /\ current'[t] = current[t]
  PROVE  /\ Mail[HandlerOf[s]][ChannelOf[s]]
              = IF thread[s] \in Listening THEN Unread(s) ELSE <<>>
         /\ Mail' = [Mail EXCEPT ![HandlerOf[s]][ChannelOf[s]] =
                       IF thread'[s] \in Listening THEN Unread(s)' ELSE <<>>]
<1> DEFINE h == HandlerOf[s]
           ch == ChannelOf[s]
<1>0. h \in Handler /\ ch \in Channel
  BY SubscriberAssumption DEF SubscriberAssumption
<1>1. ListenerHasMail /\ NoListenerNoMail /\ ListenerHasMail' /\ NoListenerNoMail'
  BY MailIs, MailIsNext
<1>2. /\ \A t \in Service : thread[t] \in Listening
           /\ HandlerOf[t] = h /\ ChannelOf[t] = ch => t = s
      /\ \A t \in Service : thread'[t] \in Listening
           /\ HandlerOf[t] = h /\ ChannelOf[t] = ch => t = s
  BY DEF OneLive, SameSlot, Live
<1>3. Mail[h][ch] = IF thread[s] \in Listening THEN Unread(s) ELSE <<>>
  <2>1. CASE thread[s] \in Listening
    BY <1>1, <2>1 DEF ListenerHasMail
  <2>2. CASE thread[s] \notin Listening
    BY <1>0, <1>1, <1>2, <2>2 DEF NoListenerNoMail
  <2> QED
    BY <2>1, <2>2
<1>4. Mail'[h][ch] = IF thread'[s] \in Listening THEN Unread(s)' ELSE <<>>
  <2>1. CASE thread'[s] \in Listening
    BY <1>1, <2>1 DEF ListenerHasMail
  <2>2. CASE thread'[s] \notin Listening
    BY <1>0, <1>1, <1>2, <2>2 DEF NoListenerNoMail
  <2> QED
    BY <2>1, <2>2
<1>5. ASSUME NEW g \in Handler, NEW k \in Channel, g # h \/ k # ch
      PROVE  Mail'[g][k] = Mail[g][k]
  <2>1. ASSUME NEW t \in Service, thread[t] \in Listening, HandlerOf[t] = g,
               ChannelOf[t] = k
        PROVE  Mail'[g][k] = Mail[g][k]
    <3>1. t # s /\ thread'[t] \in Listening
      BY <1>5, <2>1
    <3>2. Unread(t)' = Unread(t)
      BY <3>1 DEF Unread
    <3> QED
      BY <1>1, <2>1, <3>1, <3>2 DEF ListenerHasMail
  <2>2. CASE \A t \in Service : thread[t] \in Listening
               => ~(HandlerOf[t] = g /\ ChannelOf[t] = k)
    <3>1. \A t \in Service : thread'[t] \in Listening
            => ~(HandlerOf[t] = g /\ ChannelOf[t] = k)
      BY <1>5, <2>2
    <3> QED
      BY <1>1, <2>2, <3>1 DEF NoListenerNoMail
  <2> QED
    BY <2>1, <2>2
<1> HIDE DEF h, ch
<1>6. Mail' = [Mail EXCEPT ![h][ch] = Mail'[h][ch]]
  BY <1>0, <1>5, MailShape, MailShapeNext
<1> QED
  BY <1>3, <1>4, <1>6 DEF h, ch

\* What was forwarded stays while nothing is sent.
LEMMA ForwardedKept ==
  ASSUME UNCHANGED sent
  PROVE  Forwarded' = Forwarded
BY DEF Forwarded, SentBy

\* A command sent is forwarded by the handler of the service.
LEMMA ForwardedGrows ==
  ASSUME TypeOK, NEW s \in Service, NEW m \in Payload,
         sent' = [sent EXCEPT ![s] = Append(sent[s], m)]
  PROVE  Forwarded' = [Forwarded EXCEPT ![HandlerOf[s]] = @ \cup {m}]
<1>0. HandlerOf[s] \in Handler /\ sent \in [Service -> Seq(Payload)]
  BY SubscriberAssumption DEF SubscriberAssumption, TypeOK
<1>1. ASSUME NEW h \in Handler
      PROVE  Forwarded'[h] = IF h = HandlerOf[s] THEN Forwarded[h] \cup {m}
                             ELSE Forwarded[h]
  <2>1. /\ Forwarded[h] = UNION {SentBy(t) : t \in {u \in Service : HandlerOf[u] = h}}
        /\ Forwarded'[h] = UNION {SentBy(t)' : t \in {u \in Service : HandlerOf[u] = h}}
    BY DEF Forwarded
  <2>2. \A t \in Service :
          SentBy(t)' = IF t = s THEN SentBy(t) \cup {m} ELSE SentBy(t)
    <3>1. ASSUME NEW t \in Service, t # s PROVE SentBy(t)' = SentBy(t)
      BY <1>0, <3>1 DEF SentBy
    <3>2. sent[s] \in Seq(Payload) /\ sent'[s] = Append(sent[s], m)
      BY <1>0
    <3>3. Elements(sent'[s]) = Elements(sent[s]) \cup {m}
      BY <3>2, AppendsOne
    <3>4. SentBy(s)' = SentBy(s) \cup {m}
      BY <3>3 DEF SentBy, Elements
    <3> QED
      BY <3>1, <3>4
  <2>3. CASE h = HandlerOf[s]
    <3>1. Forwarded'[h] \subseteq Forwarded[h] \cup {m}
      BY <2>1, <2>2
    <3>2. Forwarded[h] \cup {m} \subseteq Forwarded'[h]
      BY <2>1, <2>2, <2>3
    <3> QED
      BY <2>3, <3>1, <3>2
  <2>4. CASE h # HandlerOf[s]
    <3>1. Forwarded'[h] \subseteq Forwarded[h] /\ Forwarded[h] \subseteq Forwarded'[h]
      BY <2>1, <2>2, <2>4
    <3> QED
      BY <2>4, <3>1
  <2> QED
    BY <2>3, <2>4
<1>2. /\ Forwarded = [h \in Handler |-> Forwarded[h]]
      /\ Forwarded' = [h \in Handler |-> Forwarded'[h]]
  BY DEF Forwarded
<1> QED
  BY <1>0, <1>1, <1>2

\* A step that Subscription does not see.
Unseen == UNCHANGED <<subscribed_channels, published, Mail, Forwarded>>

\* A thread that does not listen, before or after.
LEMMA UnseenMove ==
  ASSUME TypeOK, NEW s \in Service, NEW to, thread[s] \notin Listening,
         to \notin Listening, thread' = [thread EXCEPT ![s] = to],
         inbox' \in {inbox, [inbox EXCEPT ![s] = <<>>]}, UNCHANGED <<current, sent>>
  PROVE  Mail' = Mail /\ Forwarded' = Forwarded
<1>1. ASSUME NEW t \in Service
      PROVE  /\ thread'[t] \in Listening <=> thread[t] \in Listening
             /\ thread[t] \in Listening => Unread(t)' = Unread(t)
  BY DEF TypeOK, Unread
<1> QED
  BY <1>1, MailKept, ForwardedKept

\* #start is Subscribe, when it marks the channel.
LEMMA StartIsSubscribe ==
  ASSUME TypeOK, NEW s \in Service, Start(s)
  PROVE  Unseen \/ Abstract!Subscribe(HandlerOf[s], ChannelOf[s])
<1>1. /\ thread[s] \notin Listening
      /\ \E to \in {"checked", "ignored", "marked", "spawned"} :
           thread' = [thread EXCEPT ![s] = to]
      /\ UNCHANGED <<inbox, current, sent, published>>
  BY DEF Start, StartChecks, StartMarks, StartSpawns, Go, Listening
<1>2. Mail' = Mail /\ Forwarded' = Forwarded
  BY <1>1, UnseenMove DEF Listening
<1>3. UNCHANGED subscribed_channels \/ SetKey(s)
  BY DEF Start, StartChecks, StartMarks, StartSpawns
<1> QED
  BY <1>1, <1>2, <1>3 DEF Unseen, Abstract!Subscribe, SetKey

\* The threads' own comings and goings.
LEMMA RunIsQuiet ==
  ASSUME TypeOK, KeyInv, KeyInv', DeliveryInv, NEW s \in Service,
         ThreadBegins(s) \/ Subscribes(s) \/ CannotConnect(s) \/ Retry(s)
           \/ TakeMutex(s)
  PROVE  Unseen
<1>1. UNCHANGED <<subscribed_channels, published, inbox, current, sent>>
  BY DEF ThreadBegins, Subscribes, CannotConnect, Retry, TakeMutex
<1>2. CASE ThreadBegins(s) \/ CannotConnect(s) \/ Retry(s)
  <2>1. /\ thread[s] \notin Listening
        /\ \E to \in {"connecting", "ensure"} : thread' = [thread EXCEPT ![s] = to]
    BY <1>2 DEF ThreadBegins, CannotConnect, Retry, Go, Listening
  <2> QED
    BY <1>1, <2>1, UnseenMove DEF Unseen, Listening
<1>3. CASE TakeMutex(s)
  <2>1. thread[s] = "waiting" /\ thread' = [thread EXCEPT ![s] = "sending"]
    BY <1>3 DEF TakeMutex, Go
  <2>2. ASSUME NEW t \in Service
        PROVE  /\ thread'[t] \in Listening <=> thread[t] \in Listening
               /\ thread[t] \in Listening => Unread(t)' = Unread(t)
    BY <1>1, <2>1 DEF TypeOK, Unread, Listening
  <2> QED
    BY <1>1, <2>2, MailKept, ForwardedKept DEF Unseen
<1>4. CASE Subscribes(s)
  <2>1. /\ thread[s] = "connecting" /\ thread' = [thread EXCEPT ![s] = "subscribed"]
        /\ ChannelOf[s] \in Channel /\ HandlerOf[s] \in Handler
    BY <1>4, SubscriberAssumption DEF Subscribes, Go, SubscriberAssumption
  <2>2. inbox[s] = <<>>
    BY <2>1 DEF DeliveryInv, Tidy, Listening
  <2>3. /\ thread'[s] = "subscribed" /\ inbox'[s] = <<>>
        /\ \A t \in Service : t # s => thread'[t] = thread[t]
    BY <1>1, <2>1, <2>2 DEF TypeOK
  <2>4. Unread(s)' = <<>>
    BY <2>3 DEF Unread
  <2>5. /\ Mail[HandlerOf[s]][ChannelOf[s]] = <<>>
        /\ Mail' = [Mail EXCEPT ![HandlerOf[s]][ChannelOf[s]] = <<>>]
    BY <1>1, <2>1, <2>3, <2>4, MailChanged DEF KeyInv, Live, Listening
  <2>6. Mail' = Mail
    BY <2>1, <2>5, MailShape
  <2> QED
    BY <1>1, <2>6, ForwardedKept DEF Unseen
<1> QED
  BY <1>2, <1>3, <1>4

\* A lost connection is Reconnect.
LEMMA FailIsReconnect ==
  ASSUME TypeOK, KeyInv, KeyInv', DeliveryInv, NEW s \in Service,
         SubscribeFails(s)
  PROVE  Unseen \/ Abstract!Reconnect(HandlerOf[s], ChannelOf[s])
<1>1. /\ thread' = [thread EXCEPT ![s] = "sleeping"]
      /\ inbox' = [inbox EXCEPT ![s] = <<>>]
      /\ UNCHANGED <<subscribed_channels, published, current, sent>>
  BY DEF SubscribeFails, Go
<1>2. CASE thread[s] = "connecting"
  BY <1>1, <1>2, UnseenMove DEF Unseen, Listening
<1>3. CASE thread[s] = "subscribed"
  <2>1. ChannelOf[s] \in Channel /\ HandlerOf[s] \in Handler
    BY <1>3, SubscriberAssumption DEF SubscriberAssumption, DeliveryInv, Tidy,
                                      Listening
  <2>2. /\ thread'[s] = "sleeping"
        /\ \A t \in Service : t # s => thread'[t] = thread[t] /\ inbox'[t] = inbox[t]
    BY <1>1 DEF TypeOK
  <2>3. Mail' = [Mail EXCEPT ![HandlerOf[s]][ChannelOf[s]] = <<>>]
    BY <1>1, <1>3, <2>1, <2>2, MailChanged DEF KeyInv, Live, Listening
  <2>4. Mail' = [Mail EXCEPT ![HandlerOf[s]] = Abstract!Without(@, ChannelOf[s])]
    BY <2>1, <2>3, MailShape DEF Abstract!Without
  <2>5. ChannelOf[s] \in subscribed_channels[HandlerOf[s]]
    BY <1>3 DEF KeyInv, LiveHasKey, HasKey, Live, Listening
  <2> QED
    BY <1>1, <2>4, <2>5, ForwardedKept DEF Abstract!Reconnect
<1> QED
  BY <1>2, <1>3 DEF SubscribeFails, Go

\* A message that is no command is Discard; a command is taken in hand.
LEMMA OnMessageIsDiscard ==
  ASSUME TypeOK, KeyInv, KeyInv', DeliveryInv, NEW s \in Service, OnMessage(s)
  PROVE  Unseen \/ (ChannelOf[s] # Nil
                      /\ Abstract!Discard(HandlerOf[s], ChannelOf[s]))
<1>0. /\ thread[s] = "subscribed" /\ inbox[s] \in Seq(Payload) /\ inbox[s] # <<>>
      /\ UNCHANGED <<subscribed_channels, published, sent>>
      /\ inbox' = [inbox EXCEPT ![s] = Tail(inbox[s])]
  BY DEF OnMessage, TypeOK
<1>1. ChannelOf[s] \in Channel /\ HandlerOf[s] \in Handler
  BY <1>0, SubscriberAssumption DEF SubscriberAssumption, DeliveryInv, Tidy,
                                    Listening
<1>2. ChannelOf[s] # Nil
  BY <1>1, SubscriberAssumption DEF SubscriberAssumption
<1>3. Head(inbox[s]) \in Payload /\ Tail(inbox[s]) \in Seq(Payload)
  BY <1>0, HeadTailProperties
<1>4. Unread(s) = inbox[s]
  BY <1>0 DEF Unread
<1>5. CASE UNCHANGED <<thread, current>>
  <2>1. /\ thread'[s] = "subscribed" /\ inbox'[s] = Tail(inbox[s])
        /\ \A t \in Service : t # s => inbox'[t] = inbox[t]
    BY <1>0, <1>5 DEF TypeOK
  <2>2. Unread(s)' = Tail(inbox[s])
    BY <1>3, <2>1 DEF Unread
  <2>3. /\ Mail[HandlerOf[s]][ChannelOf[s]] = inbox[s]
        /\ Mail' = [Mail EXCEPT ![HandlerOf[s]][ChannelOf[s]] = Tail(inbox[s])]
    BY <1>0, <1>1, <1>4, <1>5, <2>1, <2>2, MailChanged DEF KeyInv, Live, Listening
  <2>4. Mail' = [Mail EXCEPT ![HandlerOf[s]][ChannelOf[s]] = Tail(@)]
    BY <1>1, <2>3, MailShape
  <2> QED
    BY <1>0, <1>2, <2>3, <2>4, ForwardedKept DEF Abstract!Discard
<1>6. CASE /\ thread' = [thread EXCEPT ![s] = "waiting"]
           /\ current' = [current EXCEPT ![s] = Head(inbox[s])]
  <2>1. ASSUME NEW t \in Service
        PROVE  /\ thread'[t] \in Listening <=> thread[t] \in Listening
               /\ thread[t] \in Listening => Unread(t)' = Unread(t)
    <3>1. CASE t = s
      <4>1. /\ thread'[s] = "waiting" /\ current'[s] = Head(inbox[s])
            /\ inbox'[s] = Tail(inbox[s])
        BY <1>0, <1>6 DEF TypeOK
      <4>2. Unread(s)' = <<Head(inbox[s])>> \o Tail(inbox[s])
        BY <4>1 DEF Unread
      <4>3. Unread(s)' = Unread(s)
        BY <1>0, <1>4, <4>2, HeadInFront
      <4> QED
        BY <1>0, <3>1, <4>1, <4>3 DEF Listening
    <3>2. CASE t # s
      BY <1>0, <1>6, <3>2 DEF TypeOK, Unread
    <3> QED
      BY <3>1, <3>2
  <2> QED
    BY <1>0, <2>1, MailKept, ForwardedKept DEF Unseen
<1> QED
  BY <1>5, <1>6 DEF OnMessage

\* A command that is sent is Forward, one that raises is Discard.
LEMMA SendIsForward ==
  ASSUME TypeOK, KeyInv, KeyInv', DeliveryInv, NEW s \in Service, Send(s)
  PROVE  /\ ChannelOf[s] # Nil
         /\ \/ Abstract!Forward(HandlerOf[s], ChannelOf[s])
            \/ Abstract!Discard(HandlerOf[s], ChannelOf[s])
<1>0. /\ thread[s] = "sending" /\ inbox[s] \in Seq(Payload)
      /\ UNCHANGED <<subscribed_channels, published, inbox>>
      /\ thread' = [thread EXCEPT ![s] = "subscribed"]
      /\ current' = [current EXCEPT ![s] = Nil]
  BY DEF Send, Go, TypeOK
<1>1. ChannelOf[s] \in Channel /\ HandlerOf[s] \in Handler
  BY <1>0, SubscriberAssumption DEF SubscriberAssumption, DeliveryInv, Tidy,
                                    Listening
<1>2. ChannelOf[s] # Nil
  BY <1>1, SubscriberAssumption DEF SubscriberAssumption
<1>3. PICK m \in Payload : m = current[s] /\ m # Nil
  BY <1>0 DEF TypeOK
<1>4. /\ Unread(s) = <<m>> \o inbox[s] /\ Unread(s) # <<>>
      /\ Head(Unread(s)) = m /\ Tail(Unread(s)) = inbox[s]
  BY <1>0, <1>3, PushedIsHead DEF Unread
<1>5. /\ thread'[s] = "subscribed" /\ inbox'[s] = inbox[s]
      /\ \A t \in Service : t # s =>
           thread'[t] = thread[t] /\ current'[t] = current[t] /\ inbox'[t] = inbox[t]
  BY <1>0 DEF TypeOK
<1>6. Unread(s)' = inbox[s]
  <2>1. Unread(s)' = <<>> \o inbox[s]
    BY <1>5 DEF Unread
  <2> QED
    BY <1>0, <2>1, ConcatEmptySeq
<1>7. /\ Mail[HandlerOf[s]][ChannelOf[s]] = Unread(s)
      /\ Mail' = [Mail EXCEPT ![HandlerOf[s]][ChannelOf[s]] = inbox[s]]
  BY <1>0, <1>1, <1>5, <1>6, MailChanged DEF KeyInv, Live, Listening
<1>8. Mail' = [Mail EXCEPT ![HandlerOf[s]][ChannelOf[s]] = Tail(@)]
  BY <1>1, <1>4, <1>7, MailShape
<1>9. CASE Form[m] # "command"
  <2>1. UNCHANGED sent
    BY <1>3, <1>9 DEF Send
  <2> QED
    BY <1>0, <1>2, <1>4, <1>7, <1>8, <2>1, ForwardedKept DEF Abstract!Discard
<1>10. CASE Form[m] = "command"
  <2>1. sent' = [sent EXCEPT ![s] = Append(sent[s], m)]
    BY <1>3, <1>10 DEF Send
  <2>2. Forwarded' = [Forwarded EXCEPT ![HandlerOf[s]] = @ \cup {m}]
    BY <2>1, ForwardedGrows
  <2>3. ASSUME NEW t \in Service, HandlerOf[t] = HandlerOf[s]
        PROVE  m \notin Elements(sent[t])
    <3>1. m \in Got(s) /\ m \notin Elements(sent[s])
      BY <1>3 DEF Got, DeliveryInv, Tidy
    <3>2. published[m] = ChannelOf[s]
      BY <3>1 DEF DeliveryInv, GotPublished
    <3>3. CASE ChannelOf[t] = ChannelOf[s] /\ t # s
      BY <2>3, <3>1, <3>3 DEF DeliveryInv, GotOnce, Got, SameSlot
    <3>4. CASE ChannelOf[t] # ChannelOf[s]
      BY <3>2, <3>4 DEF DeliveryInv, GotPublished, Got
    <3> QED
      BY <3>1, <3>3, <3>4
  <2>4. m \notin Forwarded[HandlerOf[s]]
    BY <1>1, <2>3 DEF Forwarded, SentBy, Elements
  <2> QED
    BY <1>0, <1>2, <1>4, <1>7, <1>8, <2>2, <2>4 DEF Abstract!Forward
<1> QED
  BY <1>9, <1>10

\* A thread's `ensure' is End.
LEMMA EnsureIsEnd ==
  ASSUME TypeOK, KeyInv, KeyInv', DeliveryInv, NEW s \in Service, Ensure(s)
  PROVE  Abstract!End(HandlerOf[s], ChannelOf[s])
<1>0. /\ thread[s] = "ensure" /\ thread' = [thread EXCEPT ![s] = "dead"]
      /\ DeleteKey(s) /\ UNCHANGED <<inbox, current, sent, published>>
      /\ HandlerOf[s] \in Handler
  BY SubscriberAssumption DEF Ensure, Go, SubscriberAssumption
<1>1. Mail' = Mail /\ Forwarded' = Forwarded
  BY <1>0, UnseenMove DEF Listening
<1>2. ChannelOf[s] \in subscribed_channels[HandlerOf[s]]
  BY <1>0 DEF KeyInv, LiveHasKey, HasKey, Live
<1>3. ASSUME ChannelOf[s] \in Channel
      PROVE  Mail[HandlerOf[s]][ChannelOf[s]] = <<>>
  <2>1. NoListenerNoMail
    BY MailIs DEF KeyInv
  <2>2. \A t \in Service : thread[t] \in Listening
          => ~(HandlerOf[t] = HandlerOf[s] /\ ChannelOf[t] = ChannelOf[s])
    BY <1>0 DEF KeyInv, OneLive, SameSlot, Live, Listening
  <2> QED
    BY <1>0, <1>3, <2>1, <2>2 DEF NoListenerNoMail
<1>4. Abstract!Without(Mail[HandlerOf[s]], ChannelOf[s]) = Mail[HandlerOf[s]]
  <2>1. Mail[HandlerOf[s]] = [k \in Channel |-> Mail[HandlerOf[s]][k]]
    BY <1>0, MailShape
  <2> QED
    BY <1>3, <2>1 DEF Abstract!Without
<1>5. Mail' = [Mail EXCEPT ![HandlerOf[s]] = Abstract!Without(@, ChannelOf[s])]
  BY <1>0, <1>1, <1>4, MailShape
<1> QED
  BY <1>0, <1>1, <1>2, <1>5 DEF Abstract!End, DeleteKey

\* A publication is Publish: it reaches the handlers that have a listener.
LEMMA PublishIsPublish ==
  ASSUME TypeOK, KeyInv, KeyInv', DeliveryInv, NEW m \in Payload,
         NEW ch \in Channel, Publish(m, ch)
  PROVE  Abstract!Publish(m, ch)
<1> DEFINE receivers == {h \in Handler : \E s \in Service :
                           /\ thread[s] \in Listening
                           /\ HandlerOf[s] = h /\ ChannelOf[s] = ch}
<1>0. /\ UNCHANGED <<subscribed_channels, thread, current, sent>>
      /\ published[m] = Nil /\ published' = [published EXCEPT ![m] = ch]
      /\ \A s \in Service : inbox'[s] =
           IF thread[s] \in Listening /\ ChannelOf[s] = ch
           THEN Append(inbox[s], m) ELSE inbox[s]
  BY DEF Publish
<1>1. receivers \subseteq {h \in Handler : ch \in subscribed_channels[h]}
  BY DEF KeyInv, LiveHasKey, HasKey, Live
<1>2. ListenerHasMail /\ NoListenerNoMail /\ ListenerHasMail' /\ NoListenerNoMail'
  BY MailIs, MailIsNext DEF KeyInv
<1>3. ASSUME NEW s \in Service, thread[s] \in Listening
      PROVE  Unread(s)' = IF ChannelOf[s] = ch THEN Append(Unread(s), m)
                          ELSE Unread(s)
  <2>1. inbox[s] \in Seq(Payload)
    BY DEF TypeOK
  <2>2. PICK hand \in Seq(Payload) :
          hand = IF thread[s] \in {"waiting", "sending"} THEN <<current[s]>> ELSE <<>>
    <3>1. CASE thread[s] \in {"waiting", "sending"}
      <4>1. current[s] \in Payload
        BY <3>1 DEF TypeOK
      <4>2. <<current[s]>> \in Seq(Payload)
        BY <4>1
      <4> QED
        BY <3>1, <4>2
    <3>2. CASE thread[s] \notin {"waiting", "sending"}
      <4>1. <<>> \in Seq(Payload)
        OBVIOUS
      <4> QED
        BY <3>2, <4>1
    <3> QED
      BY <3>1, <3>2
  <2>3. Unread(s) = hand \o inbox[s] /\ Unread(s)' = hand \o inbox'[s]
    BY <1>0, <2>2 DEF Unread
  <2>4. hand \o Append(inbox[s], m) = Append(hand \o inbox[s], m)
    BY <2>1, AppendAfter
  <2> QED
    BY <1>0, <1>3, <2>3, <2>4
<1>4. ASSUME NEW h \in Handler, NEW k \in Channel
      PROVE  Mail'[h][k] = IF h \in receivers /\ k = ch THEN Append(Mail[h][k], m)
                           ELSE Mail[h][k]
  <2>1. CASE \A s \in Service : thread[s] \in Listening
               => ~(HandlerOf[s] = h /\ ChannelOf[s] = k)
    <3>1. Mail[h][k] = <<>>
      BY <1>2, <2>1 DEF NoListenerNoMail
    <3>2. Mail'[h][k] = <<>>
      BY <1>0, <1>2, <2>1 DEF NoListenerNoMail
    <3>3. ~(h \in receivers /\ k = ch)
      BY <2>1
    <3> QED
      BY <3>1, <3>2, <3>3
  <2>2. ASSUME NEW s \in Service, thread[s] \in Listening, HandlerOf[s] = h,
               ChannelOf[s] = k
        PROVE  Mail'[h][k] = IF h \in receivers /\ k = ch
                             THEN Append(Mail[h][k], m) ELSE Mail[h][k]
    <3>1. Mail[h][k] = Unread(s)
      BY <1>2, <2>2 DEF ListenerHasMail
    <3>2. Mail'[h][k] = Unread(s)'
      BY <1>0, <1>2, <2>2 DEF ListenerHasMail
    <3>3. k = ch => h \in receivers
      BY <2>2
    <3> QED
      BY <1>3, <2>2, <3>1, <3>2, <3>3
  <2> QED
    BY <2>1, <2>2
<1> HIDE DEF receivers
<1>5. ASSUME NEW h \in Handler
      PROVE  Mail'[h] = IF h \in receivers
                        THEN [Mail[h] EXCEPT ![ch] = Append(Mail[h][ch], m)]
                        ELSE Mail[h]
  <2>1. /\ Mail[h] = [k \in Channel |-> Mail[h][k]]
        /\ Mail'[h] = [k \in Channel |-> Mail'[h][k]]
    BY MailShape, MailShapeNext
  <2>2. CASE h \in receivers
    BY <1>4, <2>1, <2>2
  <2>3. CASE h \notin receivers
    BY <1>4, <2>1, <2>3
  <2> QED
    BY <2>2, <2>3
<1>6. Mail' = [h \in Handler |->
                 IF h \in receivers
                 THEN [Mail[h] EXCEPT ![ch] = Append(Mail[h][ch], m)] ELSE Mail[h]]
  BY <1>5, MailShapeNext
<1> QED
  BY <1>0, <1>1, <1>6, ForwardedKept DEF Abstract!Publish

\* As long as nobody calls #stop, the threads of a handler together behave as one
\* subscription per channel, in spite of retries, of the mutex they share and of
\* a #start that checks and marks in two critical sections.
THEOREM ServicesImplementSubscription ==
  ASSUME Stoppable = {}
  PROVE  Spec => ImplementsSubscription
<1>1. Init => Abstract!SubInit
  <2> SUFFICES ASSUME Init PROVE Abstract!SubInit
    OBVIOUS
  <2>1. Mail = Abstract!NoMail
    BY DEF Init, Mail, Listeners, Listening, Abstract!NoMail
  <2>2. ASSUME NEW s \in Service PROVE SentBy(s) = {}
    BY EmptyElements DEF Init, SentBy, Elements
  <2>3. Forwarded = [h \in Handler |-> {}]
    BY <2>2 DEF Forwarded
  <2> QED
    BY <2>1, <2>3 DEF Init, Abstract!SubInit
<1>2. ASSUME TypeOK, KeyInv, KeyInv', DeliveryInv, [Next]_vars
      PROVE  [Abstract!Next]_(Abstract!subVars)
  <2> USE <1>2
  <2>1. Unseen => UNCHANGED Abstract!subVars
    BY DEF Unseen, Abstract!subVars
  <2>2. CASE UNCHANGED vars
    <3>1. ASSUME NEW t \in Service
          PROVE  /\ thread'[t] \in Listening <=> thread[t] \in Listening
                 /\ thread[t] \in Listening => Unread(t)' = Unread(t)
      BY <2>2 DEF vars, Unread
    <3> QED
      BY <2>1, <2>2, <3>1, MailKept, ForwardedKept DEF vars, Unseen
  <2>3. ASSUME NEW s \in Service, Start(s) \/ Run(s)
        PROVE  \/ Unseen
               \/ \E h \in Handler, ch \in Channel \cup {Nil} : Abstract!Step(h, ch)
    <3>1. HandlerOf[s] \in Handler /\ ChannelOf[s] \in Channel \cup {Nil}
      BY SubscriberAssumption DEF SubscriberAssumption
    <3>2. \/ Unseen
          \/ Abstract!Step(HandlerOf[s], ChannelOf[s])
      BY <2>3, StartIsSubscribe, RunIsQuiet, FailIsReconnect, OnMessageIsDiscard,
         SendIsForward, EnsureIsEnd DEF Run, Abstract!Step
    <3> QED
      BY <3>1, <3>2
  <2>4. ASSUME NEW s \in Service, Stop(s)
        PROVE  FALSE
    BY <2>4 DEF Stop, StopKills, StopDeletes, Dies, KeyInv, NobodyStopped
  <2>5. ASSUME NEW m \in Payload, NEW ch \in Channel, Publish(m, ch)
        PROVE  Abstract!Publish(m, ch)
    BY <2>5, PublishIsPublish
  <2> QED
    BY <2>1, <2>2, <2>3, <2>4, <2>5 DEF Next, Abstract!Next
<1>3. Spec => [](KeyInv /\ DeliveryInv)
  <2>1. (Stoppable = {} => KeyInv /\ DeliveryInv) => KeyInv /\ DeliveryInv
    OBVIOUS
  <2> QED
    BY <2>1, DeliveryAlways, PTL
<1> QED
  BY <1>1, <1>2, <1>3, TypeCorrect, PTL
  DEF Spec, ImplementsSubscription, Abstract!Spec
=============================================================================
