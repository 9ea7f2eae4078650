---------------------------- MODULE PairingProofs ---------------------------
(***************************************************************************)
(* A POST gets the reply to its own command.  A reply carries no           *)
(* identifier: what pairs it with the command is that one exchange per     *)
(* reader is under way and that everything on the way to the POST is about *)
(* its item.  With it, a POST keeps the promises of RemoteCall.            *)
(***************************************************************************)
EXTENDS CommandProofs

-----------------------------------------------------------------------------
(* The invariant behind OwnReply. *)

\* A request that has found the socket of reader s and is not answered yet, and
\* one that may have sent its command.
Exchange(r, s) == http[r] \in {"send", "blpop", "blocked"} /\ post[r].channel = s
Awaits(r, s)   == http[r] \in {"blpop", "blocked"} /\ post[r].channel = s

\* The reader has no entry, and no request goes by one it had.
Unregistered(s) == connections[s] = Nil /\ \A r \in Requests : ~Exchange(r, s)

\* The command of the item that a request for the reader waits for.
Current(a, s) ==
  a[1] \in Requests /\ Awaits(a[1], s) /\ a[2] = item[a[1]]

\* A frame is the reader's registration, before anybody can ask for the reader,
\* or the reply to that command, which the reader has carried out.
Belongs(m, s) ==
  IF m.of = Nil
  THEN Unregistered(s)
  ELSE Current(m.of, s) /\ m.of[2] \in Elements(executed[m.of[1]])

Calm == faults = 0 /\ crashes = 0

OneAtATime ==
  \A q, r \in Active : post[q].channel = post[r].channel => q = r

CommandsCurrent ==
  \A c \in Ws : \A a \in Elements(down[c]) : Current(a, Device[c])

FramesBelong ==
  \A c \in Ws : \A m \in Elements(up[c]) : Belongs(m, Device[c])

CallbackBelongs ==
  reactor.pc = "lpush" => Belongs(reactor.msg, Device[reactor.ws])

ListsBelong ==
  \A s \in SN : \A m \in Elements(lists[s]) : Belongs(m, s)

ReplyOwn ==
  \A r \in Requests : reply[r] # Nil
    => reply[r].of = <<r, item[r]>> /\ item[r] \in Elements(executed[r])

\* What is on the way between a reader and the request that waits for it.
Pushing(c)  == IF reactor.pc = "lpush" /\ reactor.ws = c THEN 1 ELSE 0
Answered(s) ==
  IF \E r \in Requests : reply[r] # Nil /\ post[r].channel = s THEN 1 ELSE 0
OnTheWay(c) == Len(down[c]) + Len(up[c]) + Pushing(c) + Len(lists[Device[c]])
                 + Answered(Device[c])

OneOnTheWay == \A c \in Ws : OnTheWay(c) <= 1

\* A reader registers once, and before anything else happens to it.
NothingBefore ==
  \A c \in Ws : frames[c] = 0
    => Unregistered(Device[c]) /\ up[c] = <<>> /\ reactor.ws # c

RegisteredOnce ==
  reactor.pc # "idle" => \A m \in Elements(up[reactor.ws]) : m.of # Nil

OwnResults ==
  \A r \in Requests : \A i \in 1..Len(responses[r]) :
    responses[r][i] \in Message => responses[r][i].of = <<r, i>>

\* Everything that is on the way is about the item in progress.
PlacesInv == CommandsCurrent /\ FramesBelong /\ CallbackBelongs /\ ListsBelong

PairInv ==
  /\ Calm /\ OneAtATime /\ PlacesInv /\ ReplyOwn /\ OneOnTheWay
  /\ NothingBefore /\ RegisteredOnce /\ OwnResults

-----------------------------------------------------------------------------
(* Steps without disturbance. *)

\* Without failures, timeouts and publications these steps are left.
LEMMA QuietSteps ==
  ASSUME TypeOK, Undisturbed, Calm, [Next]_vars
  PROVE  /\ Calm'
         /\ \/ UNCHANGED vars
            \/ \E c \in Ws : Dial(c) \/ SendFrame(c, "reg") \/ Reply(c)
            \/ \E c \in Ws : (OnOpen(c) \/ OnMessage(c) \/ OnClose(c))
                               /\ UNCHANGED notReactor
            \/ MessageStep /\ UNCHANGED notReactor
            \/ \E c \in Ws : GetChat(c) /\ UNCHANGED notPool
            \/ \E r \in Requests, p \in Posts : PostChat(r, p) /\ UNCHANGED notPool
            \/ \E r \in Requests :
                 (Lookup(r) \/ SendCommand(r) \/ Blpop(r) \/ Response(r))
                   /\ UNCHANGED notPool
<1>0. /\ MaxFaults = 0 /\ MaxCrashes = 0 /\ MaxPublish = 0 /\ ~MayTimeout
      /\ Unsolicited = {} /\ faults = 0 /\ crashes = 0
  BY DEF Undisturbed, Calm
<1>1. ~Fault /\ ~Crash /\ ~Publisher
  BY <1>0 DEF Fault, Crash, Publisher
<1>2. ASSUME NEW c \in Ws, NEW s \in SN \cup {Nil}, Subscribers(c, s)
      PROVE  FALSE
  <2>1. s \in SN /\ inbox[c][s] # <<>>
    BY <1>1, <1>2 DEF Subscribers, SubscriberForwards, SubscriberDiscards,
       SubscriberReconnects, SubscriberEnds, Subscriptions!Forward,
       Subscriptions!Discard
  <2>2. inbox[c][s] \in Seq(1..MaxPublish)
    BY <2>1, TypeParts DEF HandlerTypeOK, Subscriptions!SubTypeOK
  <2>3. Head(inbox[c][s]) \in 1..MaxPublish
    BY <2>1, <2>2, TakesHead
  <2> QED
    BY <1>0, <2>3
<1>3. ~RedisCommandRaises /\ \A r \in Requests : ~Timeout(r) /\ ~BlpopRaises(r)
  BY <1>0, <1>1 DEF RedisCommandRaises, Timeout, BlpopRaises
<1>4. ASSUME NEW c \in Ws, Readers(c)
      PROVE  Dial(c) \/ SendFrame(c, "reg") \/ Reply(c)
  BY <1>0, <1>4 DEF Readers, SendFrame
<1>5. Calm'
  <2>1. ASSUME NEW c \in Ws, Readers(c)
        PROVE  UNCHANGED <<faults, crashes>>
    BY <2>1, ReadersFrame
  <2>2. ASSUME Reactor
        PROVE  UNCHANGED <<faults, crashes>>
    <3>1. UNCHANGED crashes
      BY <2>2, ReactorFrame DEF envVars
    <3>2. UNCHANGED faults
      BY <1>3, <2>2 DEF Reactor, OnOpen, OnMessage, PushResponse,
         DeleteResponses, Register, HandleReg, PublishLog, StartSubscriber,
         OnClose, configVars
    <3> QED
      BY <3>1, <3>2
  <2>3. ASSUME Pool
        PROVE  UNCHANGED <<faults, crashes>>
    <3>1. UNCHANGED crashes
      BY <2>3, PoolFrame DEF envVars
    <3>2. UNCHANGED faults
      BY <1>3, <2>3 DEF Pool, GetChat, PostChat, Lookup, SendCommand,
         Blpop, Response, configVars
    <3> QED
      BY <3>1, <3>2
  <2> QED
    BY <1>0, <1>1, <1>2, <2>1, <2>2, <2>3 DEF Next, vars, configVars, envVars, Calm
<1> QED
  BY <1>1, <1>2, <1>3, <1>4, <1>5 DEF Next, Reactor, Pool, MessageStep

\* A step after which everything is still about the same items.
Keeps ==
  /\ \A s \in SN : Unregistered(s) => Unregistered(s)'
  /\ \A r \in Requests, s \in SN :
       Awaits(r, s) => Awaits(r, s)' /\ item'[r] = item[r]
  /\ \A r \in Requests : Elements(executed[r]) \subseteq Elements(executed'[r])

\* It is such a step if no request moves and no entry is made.
LEMMA KeepsStill ==
  ASSUME UNCHANGED <<http, post, item>>,
         \A s \in SN : connections'[s] \in {connections[s], Nil},
         \A r \in Requests : Elements(executed[r]) \subseteq Elements(executed'[r])
  PROVE  Keeps
BY DEF Keeps, Unregistered, Exchange, Awaits

\* What is about an item stays so.
LEMMA BelongsKeeps ==
  ASSUME Keeps
  PROVE  \A s \in SN : /\ \A a : Current(a, s) => Current(a, s)'
                       /\ \A m : Belongs(m, s) => Belongs(m, s)'
<1>1. \A s \in SN : \A a : Current(a, s) => Current(a, s)'
  BY DEF Keeps, Current
<1>2. ASSUME NEW s \in SN, NEW m, Belongs(m, s)
      PROVE  Belongs(m, s)'
  <2>1. CASE m.of = Nil
    BY <1>2, <2>1 DEF Belongs, Keeps
  <2>2. CASE m.of # Nil
    <3>1. Current(m.of, s)'
      BY <1>1, <1>2, <2>2 DEF Belongs
    <3>2. m.of[2] \in Elements(executed'[m.of[1]])
      BY <1>2, <2>2 DEF Belongs, Keeps, Current
    <3>3. Elements(executed[m.of[1]])' = Elements(executed'[m.of[1]])
      BY DEF Elements
    <3> QED
      BY <2>2, <3>1, <3>2, <3>3 DEF Belongs
  <2> QED
    BY <2>1, <2>2
<1> QED
  BY <1>1, <1>2

-----------------------------------------------------------------------------
(* The requests. *)

\* A request under way was under way before, and asked for the same, unless it
\* has just arrived.
LEMMA ArrivesOnly ==
  ASSUME TypeOK, [Next]_vars
  PROVE  \/ \E r \in Requests, p \in Posts : PostChat(r, p)
         \/ \A r \in Active' : r \in Active /\ post'[r] = post[r]
<1>0. http \in [Requests -> {"new", "lookup", "send", "blpop", "blocked", "done",
                             "lost"}]
  BY TypeParts, ServerParts
<1>1. CASE UNCHANGED serverVars
  BY <1>1 DEF serverVars, Active
<1>2. CASE Crash
  BY <1>2 DEF Crash, Active
<1>3. ASSUME NEW r \in Requests, http[r] \notin {"new", "done", "lost"},
             UNCHANGED post,
             \E label \in {"lookup", "send", "blpop", "blocked", "done"} :
               http' = [http EXCEPT ![r] = label]
      PROVE  \A q \in Active' : q \in Active /\ post'[q] = post[q]
  BY <1>0, <1>3 DEF Active
<1>4. ASSUME NEW r \in Requests,
             Lookup(r) \/ SendCommand(r) \/ Blpop(r) \/ Response(r) \/ Timeout(r)
               \/ BlpopRaises(r)
      PROVE  \A q \in Active' : q \in Active /\ post'[q] = post[q]
  <2>1. /\ http[r] \notin {"new", "done", "lost"} /\ UNCHANGED post
        /\ \E label \in {"lookup", "send", "blpop", "blocked", "done"} :
             http' = [http EXCEPT ![r] = label]
    BY <1>4 DEF Lookup, SendCommand, Blpop, Response, Timeout, BlpopRaises,
                NextItem, Raises
  <2> QED
    BY <1>3, <2>1
<1>5. ASSUME NEW c \in Ws, GetChat(c)
      PROVE  UNCHANGED serverVars
  BY <1>5 DEF GetChat
<1>6. CASE Pool
  BY <1>1, <1>4, <1>5, <1>6 DEF Pool
<1> QED
  BY <1>1, <1>2, <1>6, ReadersFrame, ReactorFrame, SubscribersFrame,
     PublisherFrame DEF Next, vars

\* Clients that wait for a reader's answer keep one request for it under way.
LEMMA OneAtATimeNext ==
  ASSUME TypeOK, Undisturbed, OneAtATime, [Next]_vars
  PROVE  OneAtATime'
<1>1. CASE \A r \in Active' : r \in Active /\ post'[r] = post[r]
  BY <1>1 DEF OneAtATime
<1>2. ASSUME NEW r \in Requests, NEW p \in Posts, PostChat(r, p)
      PROVE  OneAtATime'
  <2>0. http \in [Requests -> {"new", "lookup", "send", "blpop", "blocked", "done",
                               "lost"}]
        /\ post \in [Requests -> Posts \cup {Nil}]
    BY TypeParts, ServerParts
  <2>1. /\ \A q \in Active : post[q].channel # p.channel
        /\ post' = [post EXCEPT ![r] = p]
        /\ \E label \in {"lookup", "done"} : http' = [http EXCEPT ![r] = label]
    BY <1>2 DEF PostChat, Undisturbed
  <2>2. \A q \in Active' : q # r => q \in Active /\ post'[q] = post[q]
    BY <2>0, <2>1 DEF Active
  <2>3. post'[r] = p /\ Active' \subseteq Requests
    BY <2>0, <2>1 DEF Active
  <2>4. ASSUME NEW a \in Active', NEW b \in Active',
               post'[a].channel = post'[b].channel
        PROVE  a = b
    BY <2>1, <2>2, <2>3, <2>4 DEF OneAtATime
  <2> QED
    BY <2>4 DEF OneAtATime
<1> QED
  BY <1>1, <1>2, ArrivesOnly

\* Each result that is a frame is the reply to its item.
LEMMA OwnResultsNext ==
  ASSUME TypeOK, WalkInv, ReplyOwn, OwnResults, [Next]_vars
  PROVE  OwnResults'
<1>1. ASSUME NEW r \in Requests
      PROVE  \A i \in 1..Len(responses'[r]) :
               responses'[r][i] \in Message => responses'[r][i].of = <<r, i>>
  <2>0. \A i \in 1..Len(responses[r]) :
          responses[r][i] \in Message => responses[r][i].of = <<r, i>>
    BY DEF OwnResults
  <2>1. CASE responses'[r] = responses[r]
    BY <2>0, <2>1
  <2>2. ASSUME NEW x \in Message \cup Failure, Returns(r, x)
        PROVE  \A i \in 1..Len(responses'[r]) :
                 responses'[r][i] \in Message => responses'[r][i].of = <<r, i>>
    <3> DEFINE S == Message \cup Failure
    <3>1. responses[r] \in Seq(S)
      BY TypeParts, ServerParts
    <3>2. responses'[r] = Append(responses[r], x) /\ http[r] # "done"
      BY <2>2 DEF Returns
    <3>3. item[r] = Len(responses[r]) + 1
      BY <3>2 DEF WalkInv, Walk
    <3>4. x \in Message => x.of = <<r, item[r]>>
      <4>1. Message \cap Failure = {}
        BY DEF Message, Failure
      <4> QED
        BY <2>2, <4>1, NilAssumption DEF Returns, ReplyOwn
    <3> HIDE DEF S
    <3>5. x \in S
      BY <2>2 DEF S
    <3>6. /\ Len(responses'[r]) = Len(responses[r]) + 1 /\ Len(responses[r]) \in Nat
          /\ responses'[r][Len(responses[r]) + 1] = x
          /\ \A i \in 1..Len(responses[r]) : responses'[r][i] = responses[r][i]
      BY <3>1, <3>2, <3>5
    <3> QED
      BY <2>0, <3>3, <3>4, <3>6, SMTT(30)
  <2> QED
    BY <2>1, <2>2, RequestStepCases DEF Stays, Arrives, Moves, Breaks
<1> QED
  BY <1>1 DEF OwnResults

-----------------------------------------------------------------------------
(* What is on the way. *)

FlightInv ==
  PlacesInv /\ ReplyOwn /\ OneOnTheWay /\ NothingBefore /\ RegisteredOnce

\* Nothing changes its place but for what is about the item in progress.
LEMMA PlacesStep ==
  ASSUME Keeps, PlacesInv,
         \A c \in Ws : \A a \in Elements(down'[c]) :
           a \in Elements(down[c]) \/ Current(a, Device[c])',
         \A c \in Ws : \A m \in Elements(up'[c]) :
           m \in Elements(up[c]) \/ Belongs(m, Device[c])',
         \A s \in SN : \A m \in Elements(lists'[s]) :
           m \in Elements(lists[s]) \/ Belongs(m, s)',
         CallbackBelongs'
  PROVE  PlacesInv'
<1>1. \A c \in Ws : Device[c] \in SN
  BY ConfigAssumption DEF ConfigAssumption
<1>2. CommandsCurrent'
  BY <1>1, BelongsKeeps DEF PlacesInv, CommandsCurrent
<1>3. FramesBelong'
  BY <1>1, BelongsKeeps DEF PlacesInv, FramesBelong
<1>4. ListsBelong'
  BY BelongsKeeps DEF PlacesInv, ListsBelong
<1> QED
  BY <1>2, <1>3, <1>4 DEF PlacesInv

\* The callback stays at its frame, or goes on to where it pushes nothing.
CallbackStays ==
  /\ reactor'.pc = "lpush" => reactor' = reactor
  /\ reactor'.ws \in {reactor.ws, Nil}
  /\ reactor'.pc # "idle" => reactor.pc # "idle" /\ reactor'.ws = reactor.ws

\* A frame the callback is about to push stays about its item.
LEMMA CallbackKeeps ==
  ASSUME TypeOK, Keeps, PlacesInv, CallbackStays
  PROVE  CallbackBelongs'
<1>1. CASE reactor'.pc = "lpush"
  <2>1. reactor' = reactor /\ reactor.pc = "lpush"
    BY <1>1 DEF CallbackStays
  <2>2. reactor.ws \in Ws /\ reactor.msg \in Message
    BY <2>1, TypeParts DEF HandlerTypeOK, Busy, Idle
  <2>3. Device[reactor.ws] \in SN /\ Belongs(reactor.msg, Device[reactor.ws])
    BY <2>1, <2>2, ConfigAssumption DEF ConfigAssumption, PlacesInv, CallbackBelongs
  <2>4. PICK m \in Message, s \in SN : m = reactor.msg /\ s = Device[reactor.ws]
    BY <2>2, <2>3
  <2>5. Belongs(m, s)'
    BY <2>3, <2>4, BelongsKeeps
  <2>6. reactor'.msg = m /\ Device[reactor'.ws] = s
    BY <2>1, <2>4
  <2> QED
    BY <2>5, <2>6 DEF CallbackBelongs
<1> QED
  BY <1>1 DEF CallbackBelongs

\* A request that has its answer keeps it.
LEMMA ReplyKeeps ==
  ASSUME TypeOK, WaiterInv, ReplyOwn, Keeps, NEW r \in Requests, reply[r] # Nil
  PROVE  /\ reply[r].of = <<r, item'[r]>> /\ item'[r] \in Elements(executed'[r])
         /\ post'[r].channel = post[r].channel
<1>1. http[r] = "blocked"
  BY DEF WaiterInv, AnswerIsAwaited
<1>2. post[r].channel \in SN
  BY <1>1, TypeParts, ServerParts, PostChannel DEF ProgressOK
<1>3. Awaits(r, post[r].channel)
  BY <1>1 DEF Awaits
<1>4. PICK s \in SN : s = post[r].channel
  BY <1>2
<1>5. Awaits(r, s)' /\ item'[r] = item[r]
  BY <1>3, <1>4 DEF Keeps
<1> QED
  BY <1>4, <1>5 DEF ReplyOwn, Keeps, Awaits

\* How many things are on the way, before a step and after it.
Counts(c, a, b, d, e, f, v, w, x, y, z) ==
  /\ a = Len(down[c]) /\ b = Len(up[c]) /\ d = Pushing(c)
  /\ e = Len(lists[Device[c]]) /\ f = Answered(Device[c])
  /\ v = Len(down'[c]) /\ w = Len(up'[c]) /\ x = Pushing(c)'
  /\ y = Len(lists'[Device[c]]) /\ z = Answered(Device[c])'
  /\ a + b + d + e + f <= 1
  /\ v + w + x + y + z <= 1 => OnTheWay(c)' <= 1

\* The counts are natural numbers.
LEMMA Counted ==
  ASSUME TypeOK, TypeOK', NEW c \in Ws, OnTheWay(c) <= 1
  PROVE  \E a, b, d, e, f, v, w, x, y, z \in Nat :
           Counts(c, a, b, d, e, f, v, w, x, y, z)
<1>1. Device[c] \in SN
  BY ConfigAssumption DEF ConfigAssumption
<1>2. /\ Len(down[c]) \in Nat /\ Len(up[c]) \in Nat /\ Len(lists[Device[c]]) \in Nat
      /\ Len(down'[c]) \in Nat /\ Len(up'[c]) \in Nat
      /\ Len(lists'[Device[c]]) \in Nat
  BY <1>1, TypeParts DEF SocketTypeOK, RedisTypeOK
<1>3. /\ Pushing(c) \in Nat /\ Pushing(c)' \in Nat
      /\ Answered(Device[c]) \in Nat /\ Answered(Device[c])' \in Nat
  BY DEF Pushing, Answered
<1>4. PICK a, b, d, e, f, v, w, x, y, z \in Nat :
        /\ a = Len(down[c]) /\ b = Len(up[c]) /\ d = Pushing(c)
        /\ e = Len(lists[Device[c]]) /\ f = Answered(Device[c])
        /\ v = Len(down'[c]) /\ w = Len(up'[c]) /\ x = Pushing(c)'
        /\ y = Len(lists'[Device[c]]) /\ z = Answered(Device[c])'
  BY <1>2, <1>3
<1>5. OnTheWay(c) = a + b + d + e + f /\ OnTheWay(c)' = v + w + x + y + z
  BY <1>4 DEF OnTheWay
<1>6. Counts(c, a, b, d, e, f, v, w, x, y, z)
  BY <1>4, <1>5 DEF Counts
<1> QED
  BY <1>6

\* A step that puts nothing on the way.
LEMMA FlightStep ==
  ASSUME TypeOK, TypeOK', WaiterInv, PairInv, Keeps, CallbackStays,
         UNCHANGED <<reply, frames>>,
         \A c \in Ws : down'[c] \in {down[c], <<>>} /\ up'[c] \in {up[c], <<>>},
         \A s \in SN : lists'[s] \in {lists[s], <<>>}
  PROVE  FlightInv'
<1>0. FlightInv
  BY DEF PairInv, FlightInv
<1>1. PlacesInv'
  BY <1>0, PlacesStep, CallbackKeeps, EmptyElements DEF FlightInv
<1>2. ReplyOwn'
  <2>1. ASSUME NEW r \in Requests, reply'[r] # Nil
        PROVE  /\ reply'[r].of = <<r, item'[r]>>
               /\ item'[r] \in Elements(executed'[r])
    BY <1>0, <2>1, ReplyKeeps DEF FlightInv
  <2> QED
    BY <2>1 DEF ReplyOwn, Elements
<1>3. OneOnTheWay'
  <2> SUFFICES ASSUME NEW c \in Ws PROVE OnTheWay(c)' <= 1
    BY DEF OneOnTheWay
  <2>1. PICK a, b, d, e, f, v, w, x, y, z \in Nat : Counts(c, a, b, d, e, f, v, w, x, y, z)
    BY <1>0, Counted DEF FlightInv, OneOnTheWay
  <2>2. v <= a /\ w <= b /\ y <= e
    <3>1. Device[c] \in SN
      BY ConfigAssumption DEF ConfigAssumption
    <3>2. down'[c] \in {down[c], <<>>} /\ up'[c] \in {up[c], <<>>}
          /\ lists'[Device[c]] \in {lists[Device[c]], <<>>}
      BY <3>1
    <3>3. a = Len(down[c]) /\ v = Len(down'[c]) /\ b = Len(up[c]) /\ w = Len(up'[c])
          /\ e = Len(lists[Device[c]]) /\ y = Len(lists'[Device[c]])
      BY <2>1 DEF Counts
    <3> QED
      BY <3>2, <3>3
  <2>3. x <= d
    BY <2>1 DEF CallbackStays, Pushing, Counts
  <2>4. z <= f
    BY <1>0, <2>1, ReplyKeeps DEF Answered, FlightInv, Counts
  <2>5. a + b + d + e + f <= 1 /\ (v + w + x + y + z <= 1 => OnTheWay(c)' <= 1)
    BY <2>1 DEF Counts
  <2> QED
    BY <2>2, <2>3, <2>4, <2>5, SMTT(30)
<1>4. NothingBefore'
  <2>1. ASSUME NEW c \in Ws, frames'[c] = 0
        PROVE  Unregistered(Device[c])' /\ up'[c] = <<>> /\ reactor'.ws # c
    <3>1. Device[c] \in SN /\ Nil \notin Ws
      BY ConfigAssumption DEF ConfigAssumption
    <3>2. Unregistered(Device[c]) /\ up[c] = <<>> /\ reactor.ws # c
      BY <1>0, <2>1 DEF FlightInv, NothingBefore
    <3> QED
      BY <3>1, <3>2 DEF Keeps, CallbackStays
  <2> QED
    BY <2>1 DEF NothingBefore
<1>5. RegisteredOnce'
  <2>1. ASSUME reactor'.pc # "idle", NEW m \in Elements(up'[reactor'.ws])
        PROVE  m.of # Nil
    <3>1. reactor.pc # "idle" /\ reactor'.ws = reactor.ws
      BY <2>1 DEF CallbackStays
    <3>2. reactor.ws \in Ws
      BY <3>1, TypeParts DEF HandlerTypeOK, Busy, Idle
    <3>3. m \in Elements(up[reactor.ws])
      BY <2>1, <3>1, <3>2, EmptyElements
    <3> QED
      BY <1>0, <3>1, <3>3 DEF FlightInv, RegisteredOnce
  <2> QED
    BY <2>1 DEF RegisteredOnce, Elements
<1> QED
  BY <1>1, <1>2, <1>3, <1>4, <1>5 DEF FlightInv

\* Sockets that open and close, and callbacks that are past lpush.
LEMMA FlightOthers ==
  ASSUME TypeOK, TypeOK', RegistryInv, WaiterInv, PairInv,
         \/ UNCHANGED vars
         \/ \E c \in Ws : Dial(c)
         \/ \E c \in Ws : (OnOpen(c) \/ OnClose(c)) /\ UNCHANGED notReactor
         \/ (DeleteResponses \/ HandleReg \/ PublishLog \/ StartSubscriber)
              /\ UNCHANGED notReactor
         \/ \E c \in Ws : GetChat(c) /\ UNCHANGED notPool
  PROVE  FlightInv'
<1>0. /\ down \in [Ws -> Seq(Command)] /\ up \in [Ws -> Seq(Message)]
      /\ lists \in [SN -> Seq(Message)] /\ connections \in [SN -> Ws \cup {Nil}]
  BY TypeParts DEF SocketTypeOK, RedisTypeOK, RegistryTypeOK
<1>1. UNCHANGED <<http, post, item, executed, frames, reply>>
  BY DEF vars, configVars, redisVars, serverVars, envVars, notReactor, notPool, Dial,
         OnOpen, OnClose, DeleteResponses, DEL, HandleReg, PublishLog,
         StartSubscriber, GetChat
<1>2. CallbackStays
  <2>0. reactor \in Busy \cup {Idle}
    BY TypeParts DEF HandlerTypeOK
  <2>1. CASE UNCHANGED reactor
    BY <2>1 DEF CallbackStays
  <2>2. CASE reactor' = Idle
    BY <2>2 DEF CallbackStays, Idle
  <2>3. CASE reactor.pc # "idle" /\ \E label \in {"register", "publish", "start"} : GoTo(label)
    <3>1. reactor \in Busy
      BY <2>0, <2>3 DEF Idle
    <3> QED
      BY <2>3, <3>1 DEF CallbackStays, GoTo, Busy
  <2> QED
    BY <2>1, <2>2, <2>3 DEF vars, handlerVars, notPool, Dial, OnOpen, OnClose,
       DeleteResponses, HandleReg, PublishLog, StartSubscriber, GetChat
<1>3. \A s \in SN : connections'[s] \in {connections[s], Nil}
  BY <1>0 DEF vars, configVars, Dial, OnOpen, OnClose, DeleteResponses, HandleReg,
              PublishLog, StartSubscriber, GetChat
<1>4. \A c \in Ws : down'[c] \in {down[c], <<>>} /\ up'[c] \in {up[c], <<>>}
  BY <1>0 DEF vars, configVars, socketVars, Dial, OnOpen, OnClose, DeleteResponses,
              HandleReg, PublishLog, StartSubscriber, GetChat
<1>5. \A s \in SN : lists'[s] \in {lists[s], <<>>}
  BY <1>0 DEF vars, configVars, redisVars, Dial, OnOpen, OnClose, DeleteResponses,
              DEL, HandleReg, PublishLog, StartSubscriber, GetChat
<1>6. Keeps
  BY <1>1, <1>3, KeepsStill
<1> QED
  BY <1>1, <1>2, <1>4, <1>5, <1>6, FlightStep

\* A request that moves, but not to a reader that was not registered, nor away
\* from one whose answer it may get.
MovesOn(r) ==
  /\ \A q \in Requests \ {r} :
       http'[q] = http[q] /\ post'[q] = post[q] /\ item'[q] = item[q]
  /\ http'[r] \in {"send", "blpop", "blocked"}
       => /\ post'[r] = post[r]
          /\ \/ http[r] \in {"send", "blpop"}
             \/ connections[post[r].channel] # Nil
  /\ http[r] # "blocked"
  /\ http[r] = "blpop"
       => http'[r] = "blocked" /\ post'[r] = post[r] /\ item'[r] = item[r]

\* Everything is still about the same items.
LEMMA KeepsMoves ==
  ASSUME NEW r \in Requests, MovesOn(r), UNCHANGED <<connections, executed>>
  PROVE  Keeps
<1>1. ASSUME NEW s \in SN, Unregistered(s)
      PROVE  Unregistered(s)'
  <2>1. \A q \in Requests \ {r} : ~Exchange(q, s)'
    BY <1>1 DEF Unregistered, Exchange, MovesOn
  <2>2. ~Exchange(r, s)'
    BY <1>1 DEF Unregistered, Exchange, MovesOn
  <2> QED
    BY <1>1, <2>1, <2>2 DEF Unregistered
<1>2. ASSUME NEW q \in Requests, NEW s \in SN, Awaits(q, s)
      PROVE  Awaits(q, s)' /\ item'[q] = item[q]
  <2>1. CASE q = r
    BY <1>2, <2>1 DEF Awaits, MovesOn
  <2>2. CASE q # r
    BY <1>2, <2>2 DEF Awaits, MovesOn
  <2> QED
    BY <2>1, <2>2
<1> QED
  BY <1>1, <1>2 DEF Keeps

\* Requests that come in, look the reader up, give up on a reader that is not
\* connected, fail at Sender, or begin to wait for a list that is empty.
LEMMA FlightRequests ==
  ASSUME TypeOK, TypeOK', WaiterInv, PairInv, NEW r \in Requests, UNCHANGED notPool,
         \/ \E p \in Posts : PostChat(r, p)
         \/ Lookup(r)
         \/ SendCommand(r) /\ UNCHANGED down
         \/ Blpop(r) /\ UNCHANGED <<lists, reply>>
  PROVE  FlightInv'
<1>0. /\ http \in [Requests -> {"new", "lookup", "send", "blpop", "blocked", "done",
                                "lost"}]
      /\ item \in [Requests -> Nat \ {0}] /\ post \in [Requests -> Posts \cup {Nil}]
  BY TypeParts, ServerParts
<1>1. UNCHANGED <<executed, frames, reactor>>
  BY DEF notPool, envVars, handlerVars
<1>2. UNCHANGED <<connections, up, down, lists, reply>>
  BY DEF PostChat, Lookup, SendCommand, WsSend, Blpop, configVars, socketVars, redisVars
<1>3. MovesOn(r)
  <2>1. CASE \E p \in Posts : PostChat(r, p)
    BY <1>0, <2>1 DEF PostChat, MovesOn
  <2>2. CASE Lookup(r)
    BY <1>0, <2>2 DEF Lookup, NextItem, MovesOn
  <2>3. CASE SendCommand(r)
    BY <1>0, <2>3 DEF SendCommand, Raises, MovesOn
  <2>4. CASE Blpop(r)
    BY <1>0, <2>4 DEF Blpop, MovesOn
  <2> QED
    BY <2>1, <2>2, <2>3, <2>4
<1>4. Keeps
  BY <1>1, <1>2, <1>3, KeepsMoves
<1>5. CallbackStays
  BY <1>1 DEF CallbackStays
<1> QED
  BY <1>1, <1>2, <1>4, <1>5, FlightStep

-----------------------------------------------------------------------------
(* The way of a command and its reply. *)

\* A sequence without elements is empty.
LEMMA NoElements ==
  ASSUME NEW S, NEW seq \in Seq(S), Elements(seq) = {}
  PROVE  seq = <<>>
<1>1. ASSUME seq # <<>>
      PROVE  FALSE
  <2>1. Elements(seq) = {Head(seq)} \cup Elements(Tail(seq))
    BY <1>1, TakesHead
  <2> QED
    BY <2>1
<1> QED
  BY <1>1

\* While nobody waits for a reader, no command and no answer is on the way.
LEMMA NobodyAwaits ==
  ASSUME TypeOK, WaiterInv, PairInv, NEW c \in Ws,
         \A r \in Requests : ~Awaits(r, Device[c])
  PROVE  /\ down[c] = <<>> /\ Answered(Device[c]) = 0
         /\ \A m : Belongs(m, Device[c]) => Unregistered(Device[c])
<1>1. down[c] = <<>>
  <2>1. Elements(down[c]) = {}
    BY DEF PairInv, PlacesInv, CommandsCurrent, Current
  <2>2. down[c] \in Seq(Command)
    BY TypeParts DEF SocketTypeOK
  <2> QED
    BY <2>1, <2>2, NoElements
<1>2. Answered(Device[c]) = 0
  BY DEF Answered, WaiterInv, AnswerIsAwaited, Awaits
<1>3. \A m : Belongs(m, Device[c]) => Unregistered(Device[c])
  BY DEF Belongs, Current
<1> QED
  BY <1>1, <1>2, <1>3

\* What a request has been answered is what it waits for, and stays so.
LEMMA ReplyStep ==
  ASSUME TypeOK, WaiterInv, ReplyOwn, Keeps, UNCHANGED reply
  PROVE  ReplyOwn' /\ \A s \in SN : Answered(s)' = Answered(s)
<1>1. ASSUME NEW r \in Requests, reply'[r] # Nil
      PROVE  /\ reply'[r].of = <<r, item'[r]>>
             /\ item'[r] \in Elements(executed'[r])
  BY <1>1, ReplyKeeps
<1>2. ReplyOwn'
  BY <1>1 DEF ReplyOwn, Elements
<1>3. \A r \in Requests : reply[r] # Nil => post'[r].channel = post[r].channel
  BY ReplyKeeps
<1>4. \A s \in SN : Answered(s)' = Answered(s)
  BY <1>3 DEF Answered
<1> QED
  BY <1>2, <1>4

\* One thing on the way, on a socket that the step does not touch.
LEMMA SameOnTheWay ==
  ASSUME TypeOK, TypeOK', NEW c \in Ws, OnTheWay(c) <= 1,
         down'[c] = down[c], up'[c] = up[c], Pushing(c)' = Pushing(c),
         lists'[Device[c]] = lists[Device[c]],
         Answered(Device[c])' = Answered(Device[c])
  PROVE  OnTheWay(c)' <= 1
<1>1. PICK a, b, d, e, f, v, w, x, y, z \in Nat : Counts(c, a, b, d, e, f, v, w, x, y, z)
  BY Counted
<1>2. v = a /\ w = b /\ x = d /\ y = e /\ z = f
  BY <1>1 DEF Counts
<1> QED
  BY <1>1, <1>2 DEF Counts

\* The registration of a reader is on the way alone.
LEMMA FlightRegistration ==
  ASSUME TypeOK, TypeOK', Undisturbed, RegistryInv, MailboxInv, WaiterInv, PairInv,
         NEW c \in Ws, SendFrame(c, "reg")
  PROVE  FlightInv'
<1> DEFINE m == [kind |-> "reg", sn |-> Device[c], of |-> Nil]
<1>0. FlightInv
  BY DEF PairInv, FlightInv
<1>1. /\ up \in [Ws -> Seq(Message)] /\ frames \in [Ws -> Nat]
      /\ \A d \in Ws : Device[d] \in SN
      /\ lists \in [SN -> Seq(Message)]
  BY TypeParts, ConfigAssumption DEF ConfigAssumption, SocketTypeOK, EnvTypeOK, RedisTypeOK
<1>2. /\ UNCHANGED <<connections, down, lists, reply, reactor, http, post, item, executed>>
      /\ frames[c] = 0 /\ frames' = [frames EXCEPT ![c] = frames[c] + 1]
      /\ up' = [up EXCEPT ![c] = Append(up[c], m)]
  BY DEF SendFrame, redisVars, handlerVars, serverVars, Undisturbed
<1>3. Unregistered(Device[c]) /\ up[c] = <<>> /\ reactor.ws # c
  BY <1>0, <1>2 DEF FlightInv, NothingBefore
<1>4. Keeps
  BY <1>2, KeepsStill
<1>5. m \in Message /\ m.of = Nil
  BY <1>1 DEF Message
<1> HIDE DEF m
<1>6. /\ Elements(up'[c]) = {m} /\ Len(up'[c]) = 1
      /\ \A d \in Ws : d # c => up'[d] = up[d]
      /\ frames'[c] # 0 /\ \A d \in Ws : d # c => frames'[d] = frames[d]
  <2>1. up'[c] = <<m>>
    BY <1>1, <1>2, <1>3
  <2>2. Elements(<<m>>) = {m}
    BY DEF Elements
  <2>3. \A d \in Ws : d # c => up'[d] = up[d]
    BY <1>1, <1>2
  <2>4. frames'[c] = 1 /\ \A d \in Ws : d # c => frames'[d] = frames[d]
    BY <1>1, <1>2
  <2>5. Len(<<m>>) = 1
    OBVIOUS
  <2> QED
    BY <2>1, <2>2, <2>3, <2>4, <2>5
<1>7. PlacesInv'
  <2>1. Unregistered(Device[c])'
    BY <1>1, <1>3, <1>4 DEF Keeps
  <2>2. Belongs(m, Device[c])'
    BY <1>5, <2>1 DEF Belongs
  <2>3. \A d \in Ws : \A k \in Elements(up'[d]) :
          k \in Elements(up[d]) \/ Belongs(k, Device[d])'
    BY <1>6, <2>2
  <2>4. CallbackBelongs'
    BY <1>0, <1>2, <1>4, CallbackKeeps DEF FlightInv, CallbackStays
  <2> QED
    BY <1>0, <1>2, <1>4, <2>3, <2>4, PlacesStep DEF FlightInv
<1>8. ReplyOwn' /\ \A s \in SN : Answered(s)' = Answered(s)
  BY <1>0, <1>2, <1>4, ReplyStep DEF FlightInv
<1>9. OneOnTheWay'
  <2>1. OnTheWay(c)' <= 1
    <3>1. down[c] = <<>> /\ Answered(Device[c]) = 0
      BY <1>3, NobodyAwaits DEF Unregistered, Exchange, Awaits
    <3>2. Pushing(c) = 0
      BY <1>3 DEF Pushing
    <3>3. lists[Device[c]] = <<>>
      <4>1. faults + crashes + InTransit(Device[c]) = 0
        <5>1. InTransit(Device[c]) = 0
          <6>1. ASSUME reactor.pc = "del", reactor.msg.sn = Device[c]
                PROVE  FALSE
            <7>1. reactor.ws \in Ws /\ reactor.msg.sn \in {Device[reactor.ws], Nil}
              BY <6>1, TypeParts DEF HandlerTypeOK, Busy, Idle, RegistryInv,
                                     CallbackOnOpenSocket
            <7>2. Device[reactor.ws] = Device[c]
              BY <1>1, <6>1, <7>1, ConfigAssumption DEF ConfigAssumption
            <7> QED
              BY <1>3, <7>1, <7>2 DEF Undisturbed
          <6> QED
            BY <6>1 DEF InTransit
        <5> QED
          BY <5>1 DEF PairInv, Calm
      <4>2. Len(lists[Device[c]]) <= 0
        BY <1>1, <4>1 DEF MailboxInv, MailboxTransient
      <4> QED
        BY <1>1, <4>2
    <3>4. PICK a, b, d, e, f, v, w, x, y, z \in Nat :
            Counts(c, a, b, d, e, f, v, w, x, y, z)
      BY <1>0, Counted DEF FlightInv, OneOnTheWay
    <3>5. Pushing(c)' = Pushing(c)
      BY <1>2 DEF Pushing
    <3>6. v = 0 /\ w = 1 /\ x = 0 /\ y = 0 /\ z = 0
      BY <1>1, <1>2, <1>6, <1>8, <3>1, <3>2, <3>3, <3>4, <3>5 DEF Counts
    <3> QED
      BY <3>4, <3>6 DEF Counts
  <2>2. ASSUME NEW d \in Ws, d # c
        PROVE  OnTheWay(d)' <= 1
    <3>1. Pushing(d)' = Pushing(d)
      BY <1>2 DEF Pushing
    <3> QED
      BY <1>0, <1>1, <1>2, <1>6, <1>8, <2>2, <3>1, SameOnTheWay DEF FlightInv, OneOnTheWay
  <2> QED
    BY <2>1, <2>2 DEF OneOnTheWay
<1>10. NothingBefore'
  BY <1>0, <1>1, <1>2, <1>4, <1>6 DEF FlightInv, NothingBefore, Keeps
<1>11. RegisteredOnce'
  <2>1. ASSUME reactor'.pc # "idle", NEW k \in Elements(up'[reactor'.ws])
        PROVE  k.of # Nil
    <3>1. reactor.ws \in Ws
      BY <1>2, <2>1, TypeParts DEF HandlerTypeOK, Busy, Idle
    <3>2. k \in Elements(up[reactor.ws])
      BY <1>2, <1>3, <1>6, <2>1, <3>1
    <3> QED
      BY <1>0, <1>2, <2>1, <3>2 DEF FlightInv, RegisteredOnce
  <2> QED
    BY <2>1 DEF RegisteredOnce, Elements
<1> QED
  BY <1>7, <1>8, <1>9, <1>10, <1>11 DEF FlightInv

\* A reply takes the place of its command.
LEMMA FlightReply ==
  ASSUME TypeOK, TypeOK', WaiterInv, PairInv, NEW c \in Ws, Reply(c)
  PROVE  FlightInv'
<1>0. FlightInv
  BY DEF PairInv, FlightInv
<1>1. /\ up \in [Ws -> Seq(Message)] /\ down \in [Ws -> Seq(Command)]
      /\ \A d \in Ws : Device[d] \in SN
  BY TypeParts, ConfigAssumption DEF ConfigAssumption, SocketTypeOK
<1>2. /\ UNCHANGED <<connections, lists, reply, reactor, http, post, item, frames>>
      /\ \E sn \in SN \cup {Nil} :
           up' = [up EXCEPT ![c] =
                    Append(up[c], [kind |-> "ret", sn |-> sn, of |-> Head(down[c])])]
  BY <1>1 DEF Reply, redisVars, handlerVars, serverVars
<1>3. PICK tag \in Requests \cup {Nil}, k \in Nat : Takes(c, tag, k)
  BY ReplyTakes
<1>4. /\ down[c] # <<>> /\ Head(down[c]) = <<tag, k>>
      /\ <<tag, k>> \in Elements(down[c])
      /\ Elements(Tail(down[c])) \subseteq Elements(down[c])
      /\ \A d \in Ws : down'[d] = IF d = c THEN Tail(down[c]) ELSE down[d]
      /\ k \in Elements(executed'[tag])
      /\ \A r \in Requests : Elements(executed[r]) \subseteq Elements(executed'[r])
  BY <1>3 DEF Takes
<1>5. tag \in Requests /\ Awaits(tag, Device[c]) /\ k = item[tag]
  <2>1. Current(<<tag, k>>, Device[c])
    BY <1>0, <1>4 DEF FlightInv, PlacesInv, CommandsCurrent
  <2> QED
    BY <2>1 DEF Current
<1>6. PICK m \in Message : /\ m.of = <<tag, k>>
                           /\ up' = [up EXCEPT ![c] = Append(up[c], m)]
  <2>1. PICK sn \in SN \cup {Nil} :
          up' = [up EXCEPT ![c] =
                   Append(up[c], [kind |-> "ret", sn |-> sn, of |-> <<tag, k>>])]
    BY <1>2, <1>4
  <2>2. [kind |-> "ret", sn |-> sn, of |-> <<tag, k>>] \in Message
    BY DEF Message, Command
  <2> QED
    BY <2>1, <2>2
<1>7. /\ Elements(up'[c]) = Elements(up[c]) \cup {m}
      /\ Len(up'[c]) = Len(up[c]) + 1
      /\ \A d \in Ws : d # c => up'[d] = up[d]
  <2>1. up'[c] = Append(up[c], m) /\ up[c] \in Seq(Message)
    BY <1>1, <1>6
  <2>2. Len(Append(up[c], m)) = Len(up[c]) + 1
    BY <2>1
  <2>3. \A d \in Ws : d # c => up'[d] = up[d]
    BY <1>1, <1>6
  <2> QED
    BY <2>1, <2>2, <2>3, AppendsOne
<1>8. m.of # Nil
  BY <1>5, <1>6, NilAssumption DEF NilAssumption, Command
<1>9. Keeps
  BY <1>2, <1>4, KeepsStill
<1>10. PlacesInv'
  <2>1. Belongs(m, Device[c])'
    <3>1. Awaits(tag, Device[c])' /\ item'[tag] = k
      BY <1>2, <1>5 DEF Awaits
    <3>2. m.of[1] = tag /\ m.of[2] = k
      BY <1>6
    <3>3. k \in Elements(executed[tag])'
      BY <1>4 DEF Elements
    <3> QED
      BY <1>5, <1>8, <3>1, <3>2, <3>3 DEF Belongs, Current
  <2>2. \A d \in Ws : \A n \in Elements(up'[d]) :
          n \in Elements(up[d]) \/ Belongs(n, Device[d])'
    BY <1>7, <2>1
  <2>3. \A d \in Ws : Elements(down'[d]) \subseteq Elements(down[d])
    BY <1>4
  <2>4. CallbackBelongs'
    BY <1>0, <1>2, <1>9, CallbackKeeps DEF FlightInv, CallbackStays
  <2> QED
    BY <1>0, <1>2, <1>9, <2>2, <2>3, <2>4, PlacesStep DEF FlightInv
<1>11. ReplyOwn' /\ \A s \in SN : Answered(s)' = Answered(s)
  BY <1>0, <1>2, <1>9, ReplyStep DEF FlightInv
<1>12. OneOnTheWay'
  <2>0. \A d \in Ws : Pushing(d)' = Pushing(d)
    BY <1>2 DEF Pushing
  <2>1. OnTheWay(c)' <= 1
    <3>1. PICK a, b, d, e, f, v, w, x, y, z \in Nat :
            Counts(c, a, b, d, e, f, v, w, x, y, z)
      BY <1>0, Counted DEF FlightInv, OneOnTheWay
    <3>2. Len(down'[c]) = Len(down[c]) - 1
      <4>1. down'[c] = Tail(down[c]) /\ down[c] \in Seq(Command) /\ down[c] # <<>>
        BY <1>1, <1>4
      <4> QED
        BY <4>1, HeadTailProperties
    <3>3. v = a - 1 /\ w = b + 1 /\ x = d /\ y = e /\ z = f
      BY <1>1, <1>2, <1>7, <1>11, <2>0, <3>1, <3>2 DEF Counts
    <3>4. a + b + d + e + f <= 1 /\ (v + w + x + y + z <= 1 => OnTheWay(c)' <= 1)
      BY <3>1 DEF Counts
    <3> QED
      BY <3>3, <3>4
  <2>2. ASSUME NEW d \in Ws, d # c
        PROVE  OnTheWay(d)' <= 1
    BY <1>0, <1>1, <1>2, <1>4, <1>7, <1>11, <2>0, <2>2, SameOnTheWay
    DEF FlightInv, OneOnTheWay
  <2> QED
    BY <2>1, <2>2 DEF OneOnTheWay
<1>13. NothingBefore'
  <2>1. ~Unregistered(Device[c])
    BY <1>5 DEF Unregistered, Exchange, Awaits
  <2> QED
    BY <1>0, <1>1, <1>2, <1>7, <1>9, <2>1 DEF FlightInv, NothingBefore, Keeps
<1>14. RegisteredOnce'
  <2>1. ASSUME reactor'.pc # "idle", NEW n \in Elements(up'[reactor'.ws])
        PROVE  n.of # Nil
    <3>1. reactor.ws \in Ws
      BY <1>2, <2>1, TypeParts DEF HandlerTypeOK, Busy, Idle
    <3>2. n \in Elements(up[reactor.ws]) \/ n = m
      BY <1>2, <1>7, <2>1, <3>1
    <3> QED
      BY <1>0, <1>2, <1>8, <2>1, <3>2 DEF FlightInv, RegisteredOnce
  <2> QED
    BY <2>1 DEF RegisteredOnce, Elements
<1> QED
  BY <1>10, <1>11, <1>12, <1>13, <1>14 DEF FlightInv

\* A frame that is read is on the way in the callback.
LEMMA FlightMessage ==
  ASSUME TypeOK, TypeOK', WaiterInv, PairInv, NEW c \in Ws, OnMessage(c),
         UNCHANGED notReactor
  PROVE  FlightInv'
<1>0. FlightInv
  BY DEF PairInv, FlightInv
<1>1. up \in [Ws -> Seq(Message)] /\ \A d \in Ws : Device[d] \in SN
  BY TypeParts, ConfigAssumption DEF ConfigAssumption, SocketTypeOK
<1>2. /\ UNCHANGED <<connections, down, lists, reply, http, post, item, frames, executed>>
      /\ reactor = Idle /\ up[c] # <<>> /\ up' = [up EXCEPT ![c] = Tail(up[c])]
      /\ \E label \in {"lpush", "handle_reg"} :
           reactor' = [pc |-> label, ws |-> c, msg |-> Head(up[c])]
  BY DEF OnMessage, redisVars, notReactor, serverVars, envVars
<1>3. /\ Head(up[c]) \in Message /\ Head(up[c]) \in Elements(up[c])
      /\ Elements(Tail(up[c])) \subseteq Elements(up[c])
      /\ Len(Tail(up[c])) = Len(up[c]) - 1
  <2>1. up[c] \in Seq(Message) /\ up[c] # <<>>
    BY <1>1, <1>2
  <2> QED
    BY <2>1, TakesHead, HeadTailProperties
<1>4. PICK m \in Message, label \in {"lpush", "handle_reg"} :
        m = Head(up[c]) /\ reactor' = [pc |-> label, ws |-> c, msg |-> m]
  BY <1>2, <1>3
<1>5. Keeps
  BY <1>2, KeepsStill
<1>6. \A d \in Ws : up'[d] = IF d = c THEN Tail(up[c]) ELSE up[d]
  BY <1>1, <1>2
<1>7. PlacesInv'
  <2>1. Belongs(m, Device[c])
    BY <1>0, <1>3, <1>4 DEF FlightInv, PlacesInv, FramesBelong
  <2>2. PICK s \in SN : s = Device[c]
    BY <1>1
  <2>3. Belongs(m, s)'
    BY <1>5, <2>1, <2>2, BelongsKeeps
  <2>4. CallbackBelongs'
    <3>1. reactor'.msg = m /\ Device[reactor'.ws] = s
      BY <1>4, <2>2
    <3> QED
      BY <2>3, <3>1 DEF CallbackBelongs
  <2>5. \A d \in Ws : \A k \in Elements(up'[d]) : k \in Elements(up[d])
    BY <1>3, <1>6
  <2> QED
    BY <1>0, <1>2, <1>5, <2>4, <2>5, PlacesStep DEF FlightInv
<1>8. ReplyOwn' /\ \A s \in SN : Answered(s)' = Answered(s)
  BY <1>0, <1>2, <1>5, ReplyStep DEF FlightInv
<1>9. OneOnTheWay' /\ Len(up[c]) <= 1
  <2>1. /\ Pushing(c) = 0 /\ Pushing(c)' \in {0, 1}
        /\ \A d \in Ws : d # c => Pushing(d)' = Pushing(d)
    BY <1>2, <1>4 DEF Pushing, Idle
  <2>2. OnTheWay(c)' <= 1 /\ Len(up[c]) <= 1
    <3>1. PICK a, b, d, e, f, v, w, x, y, z \in Nat :
            Counts(c, a, b, d, e, f, v, w, x, y, z)
      BY <1>0, Counted DEF FlightInv, OneOnTheWay
    <3>2. /\ v = a /\ b = Len(up[c]) /\ w = b - 1 /\ d = 0 /\ x \in {0, 1} /\ y = e
          /\ z = f
      BY <1>1, <1>2, <1>3, <1>6, <1>8, <2>1, <3>1 DEF Counts
    <3>3. a + b + d + e + f <= 1 /\ (v + w + x + y + z <= 1 => OnTheWay(c)' <= 1)
      BY <3>1 DEF Counts
    <3> QED
      BY <3>2, <3>3
  <2>3. ASSUME NEW d \in Ws, d # c
        PROVE  OnTheWay(d)' <= 1
    BY <1>0, <1>1, <1>2, <1>6, <1>8, <2>1, <2>3, SameOnTheWay
    DEF FlightInv, OneOnTheWay
  <2> QED
    BY <2>2, <2>3 DEF OneOnTheWay
<1>10. NothingBefore'
  <2>1. ASSUME NEW d \in Ws, frames'[d] = 0
        PROVE  Unregistered(Device[d])' /\ up'[d] = <<>> /\ reactor'.ws # d
    <3>1. Unregistered(Device[d]) /\ up[d] = <<>>
      BY <1>0, <1>2, <2>1 DEF FlightInv, NothingBefore
    <3>2. d # c
      BY <1>2, <3>1
    <3> QED
      BY <1>1, <1>4, <1>5, <1>6, <3>1, <3>2 DEF Keeps
  <2> QED
    BY <2>1 DEF NothingBefore
<1>11. RegisteredOnce'
  <2>1. Elements(up'[reactor'.ws]) = {}
    <3>1. reactor'.ws = c /\ up'[c] = Tail(up[c]) /\ Tail(up[c]) \in Seq(Message)
      BY <1>1, <1>2, <1>4, <1>6
    <3>2. Len(Tail(up[c])) = 0
      <4>1. Len(Tail(up[c])) \in Nat /\ Len(up[c]) \in Nat
        BY <1>1, <3>1
      <4>2. Len(up[c]) <= 1
        BY <1>9
      <4>3. Len(Tail(up[c])) = Len(up[c]) - 1
        BY <1>3
      <4>4. \A n, k \in Nat : n <= 1 /\ k = n - 1 => k = 0
        OBVIOUS
      <4> QED
        BY <4>1, <4>2, <4>3, <4>4, Zenon
    <3> QED
      BY <3>1, <3>2 DEF Elements
  <2> QED
    BY <2>1 DEF RegisteredOnce, Elements
<1> QED
  BY <1>7, <1>8, <1>9, <1>10, <1>11 DEF FlightInv

\* The entry of a reader is made when its registration is on the way no more.
LEMMA FlightRegister ==
  ASSUME TypeOK, TypeOK', Undisturbed, RegistryInv, MailboxInv, WaiterInv, PairInv,
         Register, UNCHANGED notReactor
  PROVE  FlightInv'
<1>0. FlightInv
  BY DEF PairInv, FlightInv
<1>1. /\ reactor.ws \in Ws /\ reactor.msg.sn = Device[reactor.ws]
      /\ \A d \in Ws : Device[d] \in SN
  <2>1. reactor.pc = "register" /\ reactor \in Busy \cup {Idle} /\ reactor.msg.sn # Nil
    BY TypeParts DEF HandlerTypeOK, Register
  <2> QED
    BY <2>1, ConfigAssumption
    DEF ConfigAssumption, Busy, Idle, RegistryInv, CallbackOnOpenSocket
<1>2. PICK c \in Ws, s \in SN : c = reactor.ws /\ s = Device[c]
  BY <1>1
<1>3. /\ UNCHANGED <<down, up, lists, reply, http, post, item, frames, executed>>
      /\ reactor.pc = "register" /\ reactor'.pc = "handle_reg" /\ reactor'.ws = c
      /\ \A k \in SN : k # s => connections'[k] = connections[k]
  <2>1. connections \in [SN -> Ws \cup {Nil}]
    BY TypeParts DEF RegistryTypeOK
  <2>2. reactor \in Busy
    BY TypeParts DEF HandlerTypeOK, Idle, Register
  <2> QED
    BY <1>1, <1>2, <2>1, <2>2 DEF Register, GoTo, socketVars, redisVars, notReactor,
       serverVars, envVars, Busy
<1>4. \A d \in Ws : d # c => Device[d] # s
  BY <1>2 DEF Undisturbed
<1>5. /\ \A a : \A k \in SN : Current(a, k)' <=> Current(a, k)
      /\ \A k \in SN : k # s => (Unregistered(k)' <=> Unregistered(k))
  BY <1>3 DEF Current, Awaits, Unregistered, Exchange
<1>6. \A m : \A k \in SN : Belongs(m, k) /\ (k # s \/ m.of # Nil) => Belongs(m, k)'
  BY <1>3, <1>5 DEF Belongs
<1>7. PlacesInv'
  <2>1. CommandsCurrent'
    BY <1>0, <1>1, <1>3, <1>5 DEF FlightInv, PlacesInv, CommandsCurrent
  <2>2. FramesBelong'
    <3>1. ASSUME NEW d \in Ws, NEW m \in Elements(up[d])
          PROVE  Belongs(m, Device[d])'
      <4>1. Belongs(m, Device[d])
        BY <1>0, <3>1 DEF FlightInv, PlacesInv, FramesBelong
      <4>2. d = c => m.of # Nil
        BY <1>0, <1>2, <1>3, <3>1 DEF FlightInv, RegisteredOnce
      <4>3. PICK k \in SN : k = Device[d]
        BY <1>1
      <4> QED
        BY <1>4, <1>6, <4>1, <4>2, <4>3
    <3> QED
      BY <1>3, <3>1 DEF FramesBelong
  <2>3. ListsBelong'
    <3>1. Elements(lists[s]) = {}
      BY <1>1, <1>2, <1>3, EmptyElements DEF MailboxInv, ClearedFirst
    <3> QED
      BY <1>0, <1>3, <1>6, <3>1 DEF FlightInv, PlacesInv, ListsBelong
  <2>4. CallbackBelongs'
    BY <1>3 DEF CallbackBelongs
  <2> QED
    BY <2>1, <2>2, <2>3, <2>4 DEF PlacesInv
<1>8. ReplyOwn'
  BY <1>0, <1>3 DEF FlightInv, ReplyOwn
<1>9. OneOnTheWay'
  <2>1. \A d \in Ws : Pushing(d)' = Pushing(d)
    BY <1>3 DEF Pushing
  <2>2. \A k \in SN : Answered(k)' = Answered(k)
    BY <1>3 DEF Answered
  <2>3. ASSUME NEW d \in Ws
        PROVE  OnTheWay(d)' <= 1
    BY <1>0, <1>1, <1>3, <2>1, <2>2, SameOnTheWay DEF FlightInv, OneOnTheWay
  <2> QED
    BY <2>3 DEF OneOnTheWay
<1>10. NothingBefore'
  <2>1. ASSUME NEW d \in Ws, frames'[d] = 0
        PROVE  Unregistered(Device[d])' /\ up'[d] = <<>> /\ reactor'.ws # d
    <3>1. Unregistered(Device[d]) /\ up[d] = <<>> /\ reactor.ws # d
      BY <1>0, <1>3, <2>1 DEF FlightInv, NothingBefore
    <3> QED
      BY <1>1, <1>2, <1>3, <1>4, <1>5, <3>1
  <2> QED
    BY <2>1 DEF NothingBefore
<1>11. RegisteredOnce'
  BY <1>0, <1>2, <1>3 DEF FlightInv, RegisteredOnce
<1> QED
  BY <1>7, <1>8, <1>9, <1>10, <1>11 DEF FlightInv

\* While a request of the reader waits, a frame of the reader is the reply to
\* its item.
LEMMA OwnFrame ==
  ASSUME TypeOK, PairInv, NEW r \in Requests, NEW s \in SN, Awaits(r, s),
         NEW m \in Message, Belongs(m, s)
  PROVE  m.of = <<r, item[r]>> /\ item[r] \in Elements(executed[r])
<1>1. m.of # Nil
  BY DEF Belongs, Unregistered, Exchange, Awaits
<1>2. /\ m.of[1] \in Requests /\ Awaits(m.of[1], s) /\ m.of[2] = item[m.of[1]]
      /\ m.of[2] \in Elements(executed[m.of[1]])
  BY <1>1 DEF Belongs, Current
<1>3. m.of[1] \in Active /\ r \in Active
      /\ post[m.of[1]].channel = s /\ post[r].channel = s
  BY <1>2 DEF Awaits, Active
<1>4. m.of[1] = r
  BY <1>3 DEF PairInv, OneAtATime
<1>5. m.of \in Command
  BY <1>1 DEF Message
<1> QED
  BY <1>2, <1>4, <1>5 DEF Command

\* A frame that is pushed goes into the list or to the request that waits.
LEMMA FlightPush ==
  ASSUME TypeOK, TypeOK', Undisturbed, RegistryInv, WaiterInv, PairInv,
         PushResponse, UNCHANGED notReactor
  PROVE  FlightInv'
<1>0. FlightInv
  BY DEF PairInv, FlightInv
<1>1. /\ reactor.ws \in Ws /\ reactor.msg.sn = Device[reactor.ws] /\ reactor.msg \in Message
      /\ \A d \in Ws : Device[d] \in SN
  <2>1. reactor.pc = "lpush" /\ reactor \in Busy \cup {Idle} /\ reactor.msg.sn # Nil
    BY TypeParts DEF HandlerTypeOK, PushResponse
  <2> QED
    BY <2>1, ConfigAssumption
    DEF ConfigAssumption, Busy, Idle, RegistryInv, CallbackOnOpenSocket
<1>2. PICK c \in Ws, s \in SN, m \in Message :
        c = reactor.ws /\ s = Device[c] /\ m = reactor.msg
  BY <1>1
<1>3. /\ UNCHANGED <<connections, down, up, http, post, item, frames, executed>>
      /\ reactor.pc = "lpush" /\ reactor'.pc = "del" /\ reactor'.ws = c
      /\ LPUSH(s, m) /\ Belongs(m, s)
  <2>1. reactor \in Busy
    BY TypeParts DEF HandlerTypeOK, Idle, PushResponse
  <2>2. Belongs(m, s)
    BY <1>0, <1>2 DEF FlightInv, PlacesInv, CallbackBelongs, PushResponse
  <2> QED
    BY <1>1, <1>2, <2>1, <2>2 DEF PushResponse, GoTo, socketVars, notReactor, serverVars,
       envVars, Busy
<1>4. \A d \in Ws : d # c => Device[d] # s
  BY <1>2 DEF Undisturbed
<1>5. Keeps
  BY <1>3, KeepsStill
<1>6. CallbackBelongs' /\ NothingBefore' /\ RegisteredOnce'
  <2>1. NothingBefore'
    BY <1>0, <1>1, <1>2, <1>3, <1>5 DEF FlightInv, NothingBefore, Keeps
  <2>2. RegisteredOnce'
    BY <1>0, <1>2, <1>3 DEF FlightInv, RegisteredOnce
  <2> QED
    BY <1>3, <2>1, <2>2 DEF CallbackBelongs
<1>7. /\ Pushing(c) = 1 /\ Pushing(c)' = 0
      /\ \A d \in Ws : d # c => Pushing(d)' = Pushing(d)
  BY <1>2, <1>3 DEF Pushing
<1>8. CASE blocked[s] = <<>>
  <2>1. lists[s] \in Seq(Message) /\ lists \in [SN -> Seq(Message)]
    BY TypeParts DEF RedisTypeOK
  <2>2. UNCHANGED reply /\ lists' = [lists EXCEPT ![s] = <<m>> \o lists[s]]
    BY <1>3, <1>8 DEF LPUSH
  <2>3. /\ Elements(lists'[s]) = {m} \cup Elements(lists[s])
        /\ Len(lists'[s]) = Len(lists[s]) + 1
        /\ \A k \in SN : k # s => lists'[k] = lists[k]
    BY <2>1, <2>2, PushesOne
  <2>4. PlacesInv'
    <3>1. Belongs(m, s)'
      BY <1>3, <1>5, BelongsKeeps
    <3>2. \A k \in SN : \A n \in Elements(lists'[k]) :
            n \in Elements(lists[k]) \/ Belongs(n, k)'
      BY <2>3, <3>1
    <3> QED
      BY <1>0, <1>3, <1>5, <1>6, <3>2, PlacesStep DEF FlightInv
  <2>5. ReplyOwn' /\ \A k \in SN : Answered(k)' = Answered(k)
    BY <1>0, <1>5, <2>2, ReplyStep DEF FlightInv
  <2>6. OnTheWay(c)' <= 1
    <3>1. PICK a, b, d, e, f, v, w, x, y, z \in Nat :
            Counts(c, a, b, d, e, f, v, w, x, y, z)
      BY <1>0, Counted DEF FlightInv, OneOnTheWay
    <3>2. v = a /\ w = b /\ d = 1 /\ x = 0 /\ y = e + 1 /\ z = f
      BY <1>1, <1>2, <1>3, <1>7, <2>3, <2>5, <3>1 DEF Counts
    <3>3. a + b + d + e + f <= 1 /\ (v + w + x + y + z <= 1 => OnTheWay(c)' <= 1)
      BY <3>1 DEF Counts
    <3> QED
      BY <3>2, <3>3
  <2>7. ASSUME NEW d \in Ws, d # c
        PROVE  OnTheWay(d)' <= 1
    BY <1>0, <1>1, <1>3, <1>4, <1>7, <2>3, <2>5, <2>7, SameOnTheWay
    DEF FlightInv, OneOnTheWay
  <2>8. OneOnTheWay'
    BY <2>6, <2>7 DEF OneOnTheWay
  <2> QED
    BY <1>6, <2>4, <2>5, <2>8 DEF FlightInv
<1>9. CASE blocked[s] # <<>>
  <2>0. blocked[s] \in Seq(Requests) /\ reply \in [Requests -> Message \cup {Nil}]
    BY TypeParts DEF RedisTypeOK
  <2>1. Head(blocked[s]) \in Requests /\ Head(blocked[s]) \in Elements(blocked[s])
    BY <1>9, <2>0, TakesHead
  <2>2. PICK q \in Requests : q = Head(blocked[s]) /\ q \in Elements(blocked[s])
    BY <2>1
  <2>3. UNCHANGED lists /\ reply' = [reply EXCEPT ![q] = m]
    BY <1>3, <1>9, <2>2 DEF LPUSH
  <2>4. Awaits(q, s) /\ post[q].channel = s
    BY <2>2 DEF WaiterInv, HeldWait, Awaits
  <2>5. m.of = <<q, item[q]>> /\ item[q] \in Elements(executed[q])
    BY <1>3, <2>4, OwnFrame
  <2>6. PlacesInv'
    BY <1>0, <1>3, <1>5, <1>6, <2>3, PlacesStep DEF FlightInv
  <2>7. ReplyOwn'
    BY <1>0, <1>3, <2>0, <2>3, <2>5 DEF FlightInv, ReplyOwn
  <2>8. Answered(s)' \in {0, 1} /\ \A k \in SN : k # s => Answered(k)' = Answered(k)
    BY <1>3, <2>0, <2>3, <2>4 DEF Answered
  <2>9. OnTheWay(c)' <= 1
    <3>1. PICK a, b, d, e, f, v, w, x, y, z \in Nat :
            Counts(c, a, b, d, e, f, v, w, x, y, z)
      BY <1>0, Counted DEF FlightInv, OneOnTheWay
    <3>2. v = a /\ w = b /\ d = 1 /\ x = 0 /\ y = e /\ z \in {0, 1}
      BY <1>2, <1>3, <1>7, <2>3, <2>8, <3>1 DEF Counts
    <3>3. a + b + d + e + f <= 1 /\ (v + w + x + y + z <= 1 => OnTheWay(c)' <= 1)
      BY <3>1 DEF Counts
    <3> QED
      BY <3>2, <3>3
  <2>10. ASSUME NEW d \in Ws, d # c
         PROVE  OnTheWay(d)' <= 1
    BY <1>0, <1>1, <1>3, <1>4, <1>7, <2>3, <2>8, <2>10, SameOnTheWay
    DEF FlightInv, OneOnTheWay
  <2>11. OneOnTheWay'
    BY <2>9, <2>10 DEF OneOnTheWay
  <2> QED
    BY <1>6, <2>6, <2>7, <2>11 DEF FlightInv
<1> QED
  BY <1>8, <1>9

\* A command is sent when nothing is on the way.
LEMMA FlightSend ==
  ASSUME TypeOK, TypeOK', Undisturbed, RegistryInv, CommandInv, WaiterInv, PairInv,
         NEW r \in Requests, SendCommand(r), ~UNCHANGED down, UNCHANGED notPool
  PROVE  FlightInv'
<1>0. FlightInv
  BY DEF PairInv, FlightInv
<1>1. /\ UNCHANGED <<connections, executed, frames, reactor, up, lists, reply, post, item>>
      /\ http[r] = "send" /\ http' = [http EXCEPT ![r] = "blpop"]
      /\ \A d \in Ws : Device[d] \in SN
  BY ConfigAssumption DEF ConfigAssumption, SendCommand, WsSend, notPool, envVars,
     handlerVars, redisVars, socketVars
<1>2. /\ conn[r] \in Ws /\ Device[conn[r]] = post[r].channel /\ <<r, item[r]>> \in Command
      /\ WsSend(conn[r], <<r, item[r]>>)
  BY <1>1, SendsItem DEF CommandInv, HoldsReadersSocket
<1>3. PICK c \in Ws, s \in SN, b \in Command :
        c = conn[r] /\ s = Device[c] /\ b = <<r, item[r]>>
  BY <1>1, <1>2
<1>4. Adds(c, b) /\ post[r].channel = s /\ b[1] = r /\ b[2] = item[r]
  BY <1>2, <1>3, WireAdds
<1>5. http \in [Requests -> {"new", "lookup", "send", "blpop", "blocked", "done",
                             "lost"}]
      /\ down \in [Ws -> Seq(Command)] /\ up \in [Ws -> Seq(Message)]
      /\ lists \in [SN -> Seq(Message)]
  BY TypeParts, ServerParts DEF SocketTypeOK, RedisTypeOK
<1>6. Keeps
  <2>1. MovesOn(r)
    BY <1>1, <1>5 DEF MovesOn
  <2> QED
    BY <1>1, <2>1, KeepsMoves
<1>7. /\ down[c] = <<>> /\ Answered(s) = 0 /\ up[c] = <<>> /\ lists[s] = <<>>
      /\ Pushing(c) = 0
  <2>1. \A q \in Requests : ~Awaits(q, s)
    <3>1. ASSUME NEW q \in Requests, Awaits(q, s)
          PROVE  FALSE
      <4>1. q \in Active /\ r \in Active /\ post[q].channel = post[r].channel
        BY <1>1, <1>4, <3>1 DEF Awaits, Active
      <4>2. q = r
        BY <4>1 DEF PairInv, OneAtATime
      <4> QED
        BY <1>1, <3>1, <4>2 DEF Awaits
    <3> QED
      BY <3>1
  <2>2. ~Unregistered(s)
    BY <1>1, <1>4 DEF Unregistered, Exchange
  <2>3. /\ down[c] = <<>> /\ Answered(s) = 0
        /\ \A m : ~Belongs(m, s)
    BY <1>3, <2>1, <2>2, NobodyAwaits
  <2>4. Elements(up[c]) = {}
    BY <1>0, <1>3, <2>3 DEF FlightInv, PlacesInv, FramesBelong
  <2>5. Elements(lists[s]) = {}
    BY <1>0, <2>3 DEF FlightInv, PlacesInv, ListsBelong
  <2>6. Pushing(c) = 0
    BY <1>0, <1>3, <2>3 DEF FlightInv, PlacesInv, CallbackBelongs, Pushing
  <2>7. up[c] \in Seq(Message) /\ lists[s] \in Seq(Message)
    BY <1>5
  <2> QED
    BY <2>3, <2>4, <2>5, <2>6, <2>7, NoElements
<1>8. PlacesInv'
  <2>1. Current(b, Device[c])'
    BY <1>1, <1>3, <1>4, <1>5 DEF Current, Awaits
  <2>2. \A d \in Ws : \A a \in Elements(down'[d]) :
          a \in Elements(down[d]) \/ Current(a, Device[d])'
    BY <1>4, <2>1, AddsOne
  <2>3. CallbackBelongs'
    BY <1>0, <1>1, <1>6, CallbackKeeps DEF FlightInv, CallbackStays
  <2> QED
    BY <1>0, <1>1, <1>6, <2>2, <2>3, PlacesStep DEF FlightInv
<1>9. ReplyOwn' /\ \A k \in SN : Answered(k)' = Answered(k)
  BY <1>0, <1>1, <1>6, ReplyStep DEF FlightInv
<1>10. OneOnTheWay'
  <2>0. \A d \in Ws : Pushing(d)' = Pushing(d)
    BY <1>1 DEF Pushing
  <2>1. OnTheWay(c)' <= 1
    <3>1. PICK i, j, d, e, f, v, w, x, y, z \in Nat :
            Counts(c, i, j, d, e, f, v, w, x, y, z)
      BY <1>0, Counted DEF FlightInv, OneOnTheWay
    <3>2. Len(down'[c]) \in {0, 1}
      <4>1. down'[c] = <<>> \/ down'[c] = Append(<<>>, b)
        BY <1>4, <1>7 DEF Adds
      <4>2. Len(<<>>) = 0 /\ Len(Append(<<>>, b)) = 1
        OBVIOUS
      <4> QED
        BY <4>1, <4>2
    <3>3. v \in {0, 1} /\ w = 0 /\ x = 0 /\ y = 0 /\ z = 0
      BY <1>1, <1>3, <1>7, <1>9, <2>0, <3>1, <3>2 DEF Counts
    <3>4. v + w + x + y + z <= 1 => OnTheWay(c)' <= 1
      BY <3>1 DEF Counts
    <3> QED
      BY <3>3, <3>4
  <2>2. ASSUME NEW d \in Ws, d # c
        PROVE  OnTheWay(d)' <= 1
    <3>1. down'[d] = down[d]
      BY <1>4, <2>2 DEF Adds
    <3> QED
      BY <1>0, <1>1, <1>9, <2>0, <2>2, <3>1, SameOnTheWay DEF FlightInv, OneOnTheWay
  <2> QED
    BY <2>1, <2>2 DEF OneOnTheWay
<1>11. NothingBefore' /\ RegisteredOnce'
  <2>1. NothingBefore'
    BY <1>0, <1>1, <1>6 DEF FlightInv, NothingBefore, Keeps
  <2>2. RegisteredOnce'
    BY <1>0, <1>1 DEF FlightInv, RegisteredOnce
  <2> QED
    BY <2>1, <2>2
<1> QED
  BY <1>8, <1>9, <1>10, <1>11 DEF FlightInv

\* A request that finds a frame in the list takes it away.
LEMMA FlightBlpop ==
  ASSUME TypeOK, TypeOK', Undisturbed, WaiterInv, PairInv,
         NEW r \in Requests, Blpop(r), ~UNCHANGED <<lists, reply>>, UNCHANGED notPool
  PROVE  FlightInv'
<1>0. FlightInv
  BY DEF PairInv, FlightInv
<1>1. /\ UNCHANGED <<connections, executed, frames, reactor, up, down, post, item>>
      /\ http[r] = "blpop" /\ http' = [http EXCEPT ![r] = "blocked"]
      /\ BLPOP(r, post[r].channel) /\ \A d \in Ws : Device[d] \in SN
  BY ConfigAssumption DEF ConfigAssumption, Blpop, notPool, envVars, handlerVars,
     socketVars
<1>2. /\ http \in [Requests -> {"new", "lookup", "send", "blpop", "blocked", "done",
                                "lost"}]
      /\ reply \in [Requests -> Message \cup {Nil}] /\ lists \in [SN -> Seq(Message)]
  BY TypeParts, ServerParts DEF RedisTypeOK
<1>3. PICK s \in SN : s = post[r].channel
  BY <1>1, TypeParts, ServerParts, PostChannel DEF ProgressOK
<1>4. /\ lists[s] # <<>> /\ reply' = [reply EXCEPT ![r] = Head(lists[s])]
      /\ lists' = [lists EXCEPT ![s] = Tail(lists[s])]
  BY <1>1, <1>3 DEF BLPOP
<1>5. lists[s] \in Seq(Message)
  BY <1>2
<1>6. /\ Head(lists[s]) \in Message /\ Head(lists[s]) \in Elements(lists[s])
      /\ Elements(Tail(lists[s])) \subseteq Elements(lists[s])
      /\ Len(Tail(lists[s])) = Len(lists[s]) - 1
  BY <1>4, <1>5, TakesHead, HeadTailProperties
<1>7. PICK m \in Message : m = Head(lists[s]) /\ m \in Elements(lists[s])
  BY <1>6
<1>8. m.of = <<r, item[r]>> /\ item[r] \in Elements(executed[r])
  <2>1. Awaits(r, s) /\ Belongs(m, s)
    BY <1>0, <1>1, <1>3, <1>7 DEF Awaits, FlightInv, PlacesInv, ListsBelong
  <2> QED
    BY <2>1, OwnFrame
<1>9. Keeps
  <2>1. MovesOn(r)
    BY <1>1, <1>2 DEF MovesOn
  <2> QED
    BY <1>1, <2>1, KeepsMoves
<1>10. /\ lists'[s] = Tail(lists[s]) /\ \A k \in SN : k # s => lists'[k] = lists[k]
       /\ reply'[r] = m /\ \A q \in Requests \ {r} : reply'[q] = reply[q]
  BY <1>2, <1>4, <1>7
<1>11. PlacesInv'
  <2>1. \A k \in SN : \A n \in Elements(lists'[k]) : n \in Elements(lists[k])
    BY <1>6, <1>10
  <2>2. CallbackBelongs'
    BY <1>0, <1>1, <1>9, CallbackKeeps DEF FlightInv, CallbackStays
  <2> QED
    BY <1>0, <1>1, <1>9, <2>1, <2>2, PlacesStep DEF FlightInv
<1>12. ReplyOwn'
  BY <1>0, <1>1, <1>8, <1>10 DEF FlightInv, ReplyOwn
<1>13. Answered(s)' \in {0, 1} /\ \A k \in SN : k # s => Answered(k)' = Answered(k)
  BY <1>1, <1>3, <1>10 DEF Answered
<1>14. OneOnTheWay'
  <2>0. \A d \in Ws : Pushing(d)' = Pushing(d)
    BY <1>1 DEF Pushing
  <2>1. ASSUME NEW c \in Ws, Device[c] = s
        PROVE  OnTheWay(c)' <= 1
    <3>1. PICK a, b, d, e, f, v, w, x, y, z \in Nat :
            Counts(c, a, b, d, e, f, v, w, x, y, z)
      BY <1>0, Counted DEF FlightInv, OneOnTheWay
    <3>2. v = a /\ w = b /\ x = d /\ y = e - 1 /\ z \in {0, 1}
      BY <1>1, <1>6, <1>10, <1>13, <2>0, <2>1, <3>1 DEF Counts
    <3>3. a + b + d + e + f <= 1 /\ (v + w + x + y + z <= 1 => OnTheWay(c)' <= 1)
      BY <3>1 DEF Counts
    <3> QED
      BY <3>2, <3>3
  <2>2. ASSUME NEW c \in Ws, Device[c] # s
        PROVE  OnTheWay(c)' <= 1
    BY <1>0, <1>1, <1>10, <1>13, <2>0, <2>2, SameOnTheWay DEF FlightInv, OneOnTheWay
  <2> QED
    BY <2>1, <2>2 DEF OneOnTheWay
<1>15. NothingBefore' /\ RegisteredOnce'
  <2>1. NothingBefore'
    BY <1>0, <1>1, <1>9 DEF FlightInv, NothingBefore, Keeps
  <2>2. RegisteredOnce'
    BY <1>0, <1>1 DEF FlightInv, RegisteredOnce
  <2> QED
    BY <2>1, <2>2
<1> QED
  BY <1>11, <1>12, <1>14, <1>15 DEF FlightInv

\* A frame in a list is one that the callback has pushed and not deleted.
LEMMA ListInCallback ==
  ASSUME TypeOK, RegistryInv, MailboxInv, Calm, NEW s \in SN, lists[s] # <<>>
  PROVE  \E c \in Ws : Device[c] = s
<1>1. lists[s] \in Seq(Message) /\ faults = 0 /\ crashes = 0
  BY TypeParts DEF RedisTypeOK, Calm
<1>2. Len(lists[s]) <= faults + crashes + InTransit(s)
  BY DEF MailboxInv, MailboxTransient
<1>3. InTransit(s) # 0
  <2>1. Len(lists[s]) \in Nat /\ Len(lists[s]) # 0
    BY <1>1, EmptySeq
  <2> QED
    BY <1>1, <1>2, <2>1
<1>4. reactor.pc = "del" /\ reactor.msg.sn = s
  BY <1>3 DEF InTransit
<1>5. reactor.ws \in Ws /\ reactor.msg.sn \in {Device[reactor.ws], Nil}
  BY <1>4, TypeParts DEF HandlerTypeOK, Busy, Idle, RegistryInv, CallbackOnOpenSocket
<1> QED
  BY <1>4, <1>5, ConfigAssumption DEF ConfigAssumption

\* When a request goes on with its answer, nothing is on the way that is about
\* its item.
LEMMA FlightResponse ==
  ASSUME TypeOK, TypeOK', Undisturbed, RegistryInv, MailboxInv, WaiterInv, PairInv,
         NEW r \in Requests, Response(r), UNCHANGED notPool
  PROVE  FlightInv'
<1>0. FlightInv
  BY DEF PairInv, FlightInv
<1>1. /\ UNCHANGED <<connections, executed, frames, reactor, up, down, lists, post>>
      /\ http[r] = "blocked" /\ reply[r] # Nil
      /\ \A d \in Ws : Device[d] \in SN
  BY ConfigAssumption DEF ConfigAssumption, Response, NextItem, notPool, envVars,
     handlerVars, socketVars
<1>2. /\ \A q \in Requests \ {r} :
           http'[q] = http[q] /\ item'[q] = item[q] /\ reply'[q] = reply[q]
      /\ http'[r] \in {"lookup", "done"} /\ reply'[r] = Nil
  <2>1. /\ http \in [Requests -> {"new", "lookup", "send", "blpop", "blocked", "done",
                                  "lost"}]
        /\ item \in [Requests -> Nat \ {0}]
        /\ reply \in [Requests -> Message \cup {Nil}]
    BY TypeParts, ServerParts DEF RedisTypeOK
  <2> QED
    BY <2>1 DEF Response, NextItem
<1>3. PICK s \in SN : s = post[r].channel
  BY <1>1, TypeParts, ServerParts, PostChannel DEF ProgressOK
<1>4. Answered(s) = 1
  BY <1>1, <1>3 DEF Answered
<1>5. ASSUME NEW c \in Ws, Device[c] = s
      PROVE  /\ Len(down[c]) = 0 /\ Len(up[c]) = 0 /\ Pushing(c) = 0
             /\ Len(lists[s]) = 0
  <2>1. PICK a, b, d, e, f, v, w, x, y, z \in Nat :
          Counts(c, a, b, d, e, f, v, w, x, y, z)
    BY <1>0, Counted DEF FlightInv, OneOnTheWay
  <2>2. a + b + d + e + f <= 1 /\ f = 1
    BY <1>4, <1>5, <2>1 DEF Counts
  <2>3. a = 0 /\ b = 0 /\ d = 0 /\ e = 0
    BY <2>2
  <2> QED
    BY <1>5, <2>1, <2>3 DEF Counts
<1>6. Elements(lists[s]) = {}
  <2>1. CASE \E c \in Ws : Device[c] = s
    BY <1>5, <2>1 DEF Elements
  <2>2. CASE lists[s] = <<>>
    BY <2>2, EmptyElements
  <2> QED
    BY <2>1, <2>2, ListInCallback DEF PairInv
<1>7. /\ \A k \in SN : Unregistered(k) => Unregistered(k)'
      /\ \A a : \A k \in SN : k # s /\ Current(a, k) => Current(a, k)'
  BY <1>1, <1>2, <1>3 DEF Unregistered, Exchange, Current, Awaits
<1>8. \A m : \A k \in SN : k # s /\ Belongs(m, k) => Belongs(m, k)'
  BY <1>1, <1>7 DEF Belongs
<1>9. PlacesInv'
  <2>1. ASSUME NEW c \in Ws, NEW a \in Elements(down[c])
        PROVE  Current(a, Device[c])'
    <3>1. Device[c] # s
      BY <1>5, <2>1 DEF Elements
    <3>2. Current(a, Device[c])
      BY <1>0, <2>1 DEF FlightInv, PlacesInv, CommandsCurrent
    <3> QED
      BY <1>1, <1>7, <3>1, <3>2
  <2>2. ASSUME NEW c \in Ws, NEW m \in Elements(up[c])
        PROVE  Belongs(m, Device[c])'
    <3>1. Device[c] # s
      BY <1>5, <2>2 DEF Elements
    <3>2. Belongs(m, Device[c])
      BY <1>0, <2>2 DEF FlightInv, PlacesInv, FramesBelong
    <3> QED
      BY <1>1, <1>8, <3>1, <3>2
  <2>3. ListsBelong'
    BY <1>0, <1>1, <1>6, <1>8 DEF FlightInv, PlacesInv, ListsBelong
  <2>4. CallbackBelongs'
    <3>1. ASSUME reactor.pc = "lpush"
          PROVE  Belongs(reactor.msg, Device[reactor.ws])'
      <4>1. reactor.ws \in Ws /\ reactor.msg \in Message
        BY <3>1, TypeParts DEF HandlerTypeOK, Busy, Idle
      <4>2. PICK c \in Ws, m \in Message : c = reactor.ws /\ m = reactor.msg
        BY <4>1
      <4>3. Device[c] # s /\ Belongs(m, Device[c])
        BY <1>0, <1>5, <3>1, <4>2
        DEF FlightInv, PlacesInv, CallbackBelongs, Pushing
      <4>4. Belongs(m, Device[c])'
        BY <1>1, <1>8, <4>3
      <4>5. reactor'.msg = m /\ reactor'.ws = c
        BY <1>1, <4>2
      <4> QED
        BY <4>4, <4>5
    <3> QED
      BY <1>1, <3>1 DEF CallbackBelongs
  <2>5. CommandsCurrent' /\ FramesBelong'
    BY <1>1, <2>1, <2>2 DEF CommandsCurrent, FramesBelong
  <2> QED
    BY <2>3, <2>4, <2>5 DEF PlacesInv
<1>10. ReplyOwn'
  BY <1>0, <1>1, <1>2 DEF FlightInv, ReplyOwn
<1>11. Answered(s)' \in {0, 1} /\ \A k \in SN : k # s => Answered(k)' = Answered(k)
  BY <1>1, <1>2, <1>3 DEF Answered
<1>12. OneOnTheWay'
  <2>0. \A d \in Ws : Pushing(d)' = Pushing(d)
    BY <1>1 DEF Pushing
  <2>1. ASSUME NEW c \in Ws, Device[c] = s
        PROVE  OnTheWay(c)' <= 1
    <3>1. PICK a, b, d, e, f, v, w, x, y, z \in Nat :
            Counts(c, a, b, d, e, f, v, w, x, y, z)
      BY <1>0, Counted DEF FlightInv, OneOnTheWay
    <3>2. v = 0 /\ w = 0 /\ x = 0 /\ y = 0 /\ z \in {0, 1}
      BY <1>1, <1>5, <1>11, <2>0, <2>1, <3>1 DEF Counts
    <3>3. v + w + x + y + z <= 1 => OnTheWay(c)' <= 1
      BY <3>1 DEF Counts
    <3> QED
      BY <3>2, <3>3
  <2>2. ASSUME NEW c \in Ws, Device[c] # s
        PROVE  OnTheWay(c)' <= 1
    BY <1>0, <1>1, <1>11, <2>0, <2>2, SameOnTheWay DEF FlightInv, OneOnTheWay
  <2> QED
    BY <2>1, <2>2 DEF OneOnTheWay
<1>13. NothingBefore' /\ RegisteredOnce'
  <2>1. NothingBefore'
    BY <1>0, <1>1, <1>7 DEF FlightInv, NothingBefore
  <2>2. RegisteredOnce'
    BY <1>0, <1>1 DEF FlightInv, RegisteredOnce
  <2> QED
    BY <2>1, <2>2
<1> QED
  BY <1>9, <1>10, <1>12, <1>13 DEF FlightInv

-----------------------------------------------------------------------------
(* The reply to one's own command. *)

\* Every step without disturbance preserves the invariant.
LEMMA PairNext ==
  ASSUME Undisturbed, TypeOK, TypeOK', RegistryInv, MailboxInv, WaiterInv,
         CommandInv, WalkInv, PairInv, [Next]_vars
  PROVE  PairInv'
<1>1. Calm /\ OneAtATime /\ ReplyOwn /\ OwnResults
  BY DEF PairInv
<1>2. Calm' /\ OneAtATime' /\ OwnResults'
  BY <1>1, QuietSteps, OneAtATimeNext, OwnResultsNext
<1>3. FlightInv'
  <2>1. ASSUME NEW r \in Requests, UNCHANGED notPool,
               Lookup(r) \/ SendCommand(r) \/ Blpop(r) \/ Response(r)
        PROVE  FlightInv'
    <3>1. CASE Lookup(r)
      BY <2>1, <3>1, FlightRequests
    <3>2. CASE SendCommand(r)
      BY <2>1, <3>2, FlightRequests, FlightSend
    <3>3. CASE Blpop(r)
      BY <2>1, <3>3, FlightRequests, FlightBlpop
    <3>4. CASE Response(r)
      BY <2>1, <3>4, FlightResponse
    <3> QED
      BY <2>1, <3>1, <3>2, <3>3, <3>4
  <2>2. ASSUME NEW c \in Ws, Dial(c) \/ SendFrame(c, "reg") \/ Reply(c)
        PROVE  FlightInv'
    BY <2>2, FlightOthers, FlightRegistration, FlightReply
  <2>3. ASSUME NEW c \in Ws, OnOpen(c) \/ OnMessage(c) \/ OnClose(c),
               UNCHANGED notReactor
        PROVE  FlightInv'
    BY <2>3, FlightOthers, FlightMessage
  <2>4. ASSUME MessageStep, UNCHANGED notReactor
        PROVE  FlightInv'
    BY <2>4, FlightOthers, FlightPush, FlightRegister DEF MessageStep
  <2>5. ASSUME NEW r \in Requests, NEW p \in Posts, PostChat(r, p), UNCHANGED notPool
        PROVE  FlightInv'
    BY <2>5, FlightRequests
  <2>6. ASSUME NEW c \in Ws, GetChat(c), UNCHANGED notPool
        PROVE  FlightInv'
    BY <2>6, FlightOthers
  <2>7. CASE UNCHANGED vars
    BY <2>7, FlightOthers
  <2> QED
    BY <1>1, <2>1, <2>2, <2>3, <2>4, <2>5, <2>6, <2>7, QuietSteps
<1> QED
  BY <1>2, <1>3 DEF PairInv, FlightInv

\* Nothing is on the way at first.
LEMMA PairInit == Init => PairInv
<1> SUFFICES ASSUME Init PROVE PairInv
  OBVIOUS
<1>1. /\ \A c \in Ws : down[c] = <<>> /\ up[c] = <<>> /\ Device[c] \in SN
      /\ \A s \in SN : lists[s] = <<>> /\ connections[s] = Nil
      /\ \A r \in Requests : reply[r] = Nil /\ http[r] = "new" /\ responses[r] = <<>>
      /\ faults = 0 /\ crashes = 0 /\ reactor = Idle /\ Nil \notin Ws
  BY ConfigAssumption
  DEF ConfigAssumption, Init, ConfigInit, HandlerInit, ServerInit
<1>2. Calm /\ OneAtATime /\ ReplyOwn /\ RegisteredOnce
  BY <1>1 DEF Calm, OneAtATime, Active, ReplyOwn, RegisteredOnce, Idle
<1>3. PlacesInv
  BY <1>1, EmptyElements DEF PlacesInv, CommandsCurrent, FramesBelong, CallbackBelongs,
                             ListsBelong, Idle
<1>4. NothingBefore
  BY <1>1 DEF NothingBefore, Unregistered, Exchange, Idle
<1>5. OneOnTheWay
  <2>1. ASSUME NEW c \in Ws
        PROVE  OnTheWay(c) <= 1
    <3>1. /\ Len(down[c]) = 0 /\ Len(up[c]) = 0 /\ Len(lists[Device[c]]) = 0
          /\ Pushing(c) = 0 /\ Answered(Device[c]) = 0
      BY <1>1 DEF Pushing, Answered, Idle
    <3> QED
      BY <3>1 DEF OnTheWay
  <2> QED
    BY <2>1 DEF OneOnTheWay
<1>6. OwnResults
  BY <1>1 DEF OwnResults
<1> QED
  BY <1>2, <1>3, <1>4, <1>5, <1>6 DEF PairInv

\* The invariant holds in every reachable state of an undisturbed gateway.
LEMMA PairAlways ==
  ASSUME Undisturbed
  PROVE  Spec => []PairInv
BY PairInit, PairNext, TypeCorrect, RegistryAlways, MailboxAlways, WaiterAlways,
   CommandAlways, WalkAlways, PTL DEF Spec

\* With clients that wait for a reader's answer, readers that answer in time and
\* keep one socket, and a Redis that does not fail, every result of a POST is the
\* reader's reply to that very item, although a reply names no command: nothing
\* of an earlier exchange is left in the list, on the socket or in the callback.
THEOREM RepliesAreOwn ==
  ASSUME Undisturbed
  PROVE  Spec => []OwnReply
<1>1. WalkInv /\ PairInv => OwnReply
  BY DEF WalkInv, Walk, PairInv, OwnResults, OwnReply
<1> QED
  BY <1>1, PairAlways, WalkAlways, PTL

-----------------------------------------------------------------------------
(* The gateway implements RemoteCall. *)

\* The outcomes of the results so far, and of one more.
LEMMA OutcomesAppend ==
  ASSUME NEW S, NEW seq \in Seq(S), NEW x \in S
  PROVE  /\ Len(Outcomes(seq)) = Len(seq)
         /\ Outcomes(Append(seq, x)) = Append(Outcomes(seq), Outcome(x))
<1> DEFINE t == Append(seq, x)
           f == Outcomes(seq)
           g == Outcomes(t)
           o == Outcome(x)
           T == {"error", "reply"}
<1>1. /\ Len(seq) \in Nat /\ Len(t) = Len(seq) + 1
      /\ t[Len(seq) + 1] = x /\ \A i \in 1..Len(seq) : t[i] = seq[i]
  OBVIOUS
<1>2. \A y : Outcome(y) \in T
  BY DEF Outcome
<1> HIDE DEF t
<1>3. f \in Seq(T) /\ Len(f) = Len(seq) /\ \A i \in 1..Len(seq) : f[i] = Outcome(seq[i])
  BY <1>1, <1>2 DEF Outcomes
<1>4. g \in Seq(T) /\ Len(g) = Len(t) /\ \A i \in 1..Len(t) : g[i] = Outcome(t[i])
  <2>1. Len(t) \in Nat
    BY <1>1
  <2> QED
    BY <1>2, <2>1 DEF Outcomes
<1>5. o \in T
  BY <1>2
<1> HIDE DEF f, g, o, T
<1>6. /\ Append(f, o) \in Seq(T) /\ Len(Append(f, o)) = Len(seq) + 1
      /\ Append(f, o)[Len(seq) + 1] = o /\ \A i \in 1..Len(seq) : Append(f, o)[i] = f[i]
  BY <1>1, <1>3, <1>5
<1>7. \A i \in 1..Len(g) : g[i] = Append(f, o)[i]
  <2>1. ASSUME NEW i \in 1..Len(seq) + 1
        PROVE  g[i] = Append(f, o)[i]
    <3>1. CASE i = Len(seq) + 1
      <4>1. g[i] = Outcome(t[i])
        BY <1>1, <1>4, <3>1
      <4>2. t[i] = x
        BY <1>1, <3>1, Zenon
      <4>3. Append(f, o)[i] = o
        BY <1>6, <3>1, Zenon
      <4> QED
        BY <4>1, <4>2, <4>3, Zenon DEF o
    <3>2. CASE i \in 1..Len(seq)
      <4>1. g[i] = Outcome(t[i])
        BY <1>1, <1>4, <3>2
      <4>2. t[i] = seq[i]
        BY <1>1, <3>2, Zenon
      <4>3. Append(f, o)[i] = f[i]
        BY <1>6, <3>2, Zenon
      <4>4. f[i] = Outcome(seq[i])
        BY <1>3, <3>2, Zenon
      <4> QED
        BY <4>1, <4>2, <4>3, <4>4, Zenon
    <3>3. \A n \in Nat : \A k \in 1..n + 1 : k = n + 1 \/ k \in 1..n
      OBVIOUS
    <3> QED
      BY <1>1, <2>1, <3>1, <3>2, <3>3, Zenon
  <2> QED
    BY <1>1, <1>4, <2>1
<1>8. g = Append(f, o)
  BY <1>1, <1>4, <1>6, <1>7, SeqEqual
<1> QED
  BY <1>3, <1>8 DEF t, f, g, o

\* A step of one request, seen as one of RemoteCall.
LEMMA CallStep ==
  ASSUME TypeOK, TypeOK', NEW r \in Requests, \A q \in Requests \ {r} : Stays(q),
         \A q \in Requests : executed'[q] = executed[q]
  PROVE  /\ CallPhase' = [CallPhase EXCEPT ![r] = Phase(http'[r])]
         /\ CallSize' = [CallSize EXCEPT ![r] = Len(args'[r])]
         /\ CallResults' = [CallResults EXCEPT ![r] = Outcomes(responses'[r])]
         /\ CallCarried' = CallCarried
         /\ status' = [status EXCEPT ![r] = status'[r]]
<1>1. \A q \in Requests \ {r} : /\ http'[q] = http[q] /\ args'[q] = args[q]
                                /\ responses'[q] = responses[q] /\ status'[q] = status[q]
  BY DEF Stays
<1>2. /\ status \in [Requests -> {0, 200, 400, 500}]
      /\ status' \in [Requests -> {0, 200, 400, 500}]
  BY TypeParts, ServerParts, SMTT(30)
<1>3. status' = [status EXCEPT ![r] = status'[r]]
  BY <1>1, <1>2
<1>4. CallPhase' = [CallPhase EXCEPT ![r] = Phase(http'[r])]
  BY <1>1 DEF CallPhase
<1>5. CallSize' = [CallSize EXCEPT ![r] = Len(args'[r])]
  BY <1>1 DEF CallSize
<1>6. CallResults' = [CallResults EXCEPT ![r] = Outcomes(responses'[r])]
  BY <1>1 DEF CallResults
<1>7. CallCarried' = CallCarried
  BY DEF CallCarried
<1> QED
  BY <1>3, <1>4, <1>5, <1>6, <1>7

\* A request is lost only with the process.
LEMMA LostWithProcess ==
  ASSUME TypeOK, [Next]_vars, ~Crash, NEW r \in Requests, http'[r] = "lost"
  PROVE  http[r] = "lost"
<1>0. http \in [Requests -> {"new", "lookup", "send", "blpop", "blocked", "done",
                             "lost"}]
  BY TypeParts, ServerParts
<1>1. CASE UNCHANGED serverVars
  BY <1>1 DEF serverVars
<1>2. ASSUME NEW q \in Requests, NEW label \in {"lookup", "send", "blpop", "blocked", "done"},
             http' = [http EXCEPT ![q] = label]
      PROVE  http[r] = "lost"
  BY <1>0, <1>2
<1>3. CASE Pool
  <2>1. UNCHANGED http
        \/ \E q \in Requests : \E label \in {"lookup", "send", "blpop", "blocked", "done"} :
             http' = [http EXCEPT ![q] = label]
    BY <1>3, ZenonT(30) DEF Pool, GetChat, serverVars, PostChat, Lookup, SendCommand, Blpop,
       Response, Timeout, BlpopRaises, NextItem, Raises
  <2> QED
    BY <1>2, <2>1
<1> QED
  BY <1>1, <1>3, ReadersFrame, ReactorFrame, SubscribersFrame, PublisherFrame
  DEF Next, vars

\* A request that arrives is accepted or rejected.
LEMMA CallArrives ==
  ASSUME TypeOK, TypeOK', WalkInv, NEW r \in Requests, Arrives(r),
         \A q \in Requests \ {r} : Stays(q),
         \A q \in Requests : executed'[q] = executed[q]
  PROVE  Calls!Accept(r) \/ Calls!Reject(r)
<1>1. /\ CallPhase' = [CallPhase EXCEPT ![r] = Phase(http'[r])]
      /\ CallSize' = [CallSize EXCEPT ![r] = Len(args'[r])]
      /\ CallResults' = [CallResults EXCEPT ![r] = Outcomes(responses'[r])]
      /\ CallCarried' = CallCarried
      /\ status' = [status EXCEPT ![r] = status'[r]]
  BY CallStep
<1>2. /\ CallPhase[r] = "new" /\ CallResults[r] = Outcomes(responses[r])
      /\ CallSize[r] = Len(args[r]) /\ CallSize'[r] = Len(args'[r])
  BY DEF CallPhase, CallResults, CallSize, Phase, Arrives
<1>3. CallResults' = CallResults
  BY <1>1, <1>2, ZenonT(30) DEF Arrives, CallResults
<1>4. CASE http'[r] = "lookup"
  <2>1. /\ Phase(http'[r]) = "open" /\ Len(args'[r]) > 0 /\ status'[r] = status[r]
    BY <1>4 DEF Phase, Arrives
  <2>2. status' = status
    BY <1>1, <2>1, TypeParts, ServerParts
  <2> QED
    BY <1>1, <1>2, <1>3, <2>1, <2>2 DEF Calls!Accept
<1>5. CASE http'[r] = "done"
  <2>1. Phase(http'[r]) = "over" /\ args'[r] = args[r] /\ status'[r] \in {400, 500}
    BY <1>5 DEF Phase, Arrives
  <2>2. CallSize' = CallSize
    BY <1>1, <1>2, <2>1, ZenonT(30) DEF CallSize
  <2> QED
    BY <1>1, <1>2, <1>3, <2>1, <2>2 DEF Calls!Reject
<1> QED
  BY <1>4, <1>5 DEF Arrives

\* A request that moves on between two results is not seen.
LEMMA CallMoves ==
  ASSUME TypeOK, TypeOK', NEW r \in Requests, Moves(r) \/ Stays(r),
         \A q \in Requests \ {r} : Stays(q),
         \A q \in Requests : executed'[q] = executed[q]
  PROVE  UNCHANGED Calls!callVars
<1>1. /\ CallPhase' = [CallPhase EXCEPT ![r] = Phase(http'[r])]
      /\ CallSize' = [CallSize EXCEPT ![r] = Len(args'[r])]
      /\ CallResults' = [CallResults EXCEPT ![r] = Outcomes(responses'[r])]
      /\ CallCarried' = CallCarried
      /\ status' = [status EXCEPT ![r] = status'[r]]
  BY CallStep
<1>2. /\ Phase(http'[r]) = Phase(http[r]) /\ args'[r] = args[r]
      /\ responses'[r] = responses[r] /\ status'[r] = status[r]
  BY DEF Moves, Stays, Phase
<1>3. /\ CallPhase' = CallPhase /\ CallSize' = CallSize /\ CallResults' = CallResults
  BY <1>1, <1>2 DEF CallPhase, CallSize, CallResults
<1>4. status' = status
  BY <1>1, <1>2, TypeParts, ServerParts
<1> QED
  BY <1>1, <1>3, <1>4 DEF Calls!callVars

\* An exception aborts the request.
LEMMA CallBreaks ==
  ASSUME TypeOK, TypeOK', NEW r \in Requests, Breaks(r), http'[r] = "done",
         \A q \in Requests \ {r} : Stays(q),
         \A q \in Requests : executed'[q] = executed[q]
  PROVE  Calls!Abort(r)
<1>1. /\ CallPhase' = [CallPhase EXCEPT ![r] = Phase(http'[r])]
      /\ CallSize' = [CallSize EXCEPT ![r] = Len(args'[r])]
      /\ CallResults' = [CallResults EXCEPT ![r] = Outcomes(responses'[r])]
      /\ CallCarried' = CallCarried
      /\ status' = [status EXCEPT ![r] = status'[r]]
  BY CallStep
<1>2. /\ CallPhase[r] = "open" /\ Phase(http'[r]) = "over" /\ args'[r] = args[r]
      /\ responses'[r] = responses[r] /\ status'[r] = 500
  BY DEF Breaks, CallPhase, Phase
<1>3. CallSize' = CallSize /\ CallResults' = CallResults
  <2>1. CallSize[r] = Len(args'[r]) /\ CallResults[r] = Outcomes(responses'[r])
    BY <1>2 DEF CallSize, CallResults
  <2>2. [CallSize EXCEPT ![r] = CallSize[r]] = CallSize
    BY DEF CallSize
  <2>3. [CallResults EXCEPT ![r] = CallResults[r]] = CallResults
    BY DEF CallResults
  <2> QED
    BY <1>1, <2>1, <2>2, <2>3, Zenon
<1> QED
  BY <1>1, <1>2, <1>3 DEF Calls!Abort

\* A result is returned for the item in progress; undisturbed, a reply is the
\* reply to it.
LEMMA CallReturns ==
  ASSUME TypeOK, TypeOK', WalkInv, Undisturbed => PairInv,
         NEW r \in Requests, NEW x \in Message \cup Failure, Returns(r, x),
         \A q \in Requests \ {r} : Stays(q),
         \A q \in Requests : executed'[q] = executed[q]
  PROVE  \E result \in {"reply", "error"} : Calls!Return(r, result)
<1> DEFINE S == Message \cup Failure
           i == Len(CallResults[r]) + 1
<1>1. /\ CallPhase' = [CallPhase EXCEPT ![r] = Phase(http'[r])]
      /\ CallSize' = [CallSize EXCEPT ![r] = Len(args'[r])]
      /\ CallResults' = [CallResults EXCEPT ![r] = Outcomes(responses'[r])]
      /\ CallCarried' = CallCarried
      /\ status' = [status EXCEPT ![r] = status'[r]]
  BY CallStep
<1>2. responses[r] \in Seq(S) /\ x \in S
  BY TypeParts, ServerParts
<1>3. /\ http[r] \in {"lookup", "blocked"} /\ args'[r] = args[r]
      /\ responses'[r] = Append(responses[r], x)
  BY DEF Returns
<1> HIDE DEF S
<1>4. /\ Len(CallResults[r]) = Len(responses[r])
      /\ Outcomes(responses'[r]) = Append(CallResults[r], Outcome(x))
  <2>1. CallResults[r] = Outcomes(responses[r])
    BY DEF CallResults
  <2> QED
    BY <1>2, <1>3, <2>1, OutcomesAppend
<1>5. /\ item[r] = i /\ item[r] <= Len(args[r]) /\ Len(args[r]) \in Nat /\ item[r] \in Nat
      /\ CallSize[r] = Len(args[r])
  <2>1. item[r] = Len(responses[r]) + 1
    BY <1>3 DEF WalkInv, Walk
  <2>2. item[r] \in 1..Len(args[r]) /\ args[r] \in Seq(Nat)
    BY <1>3, TypeParts, ServerParts, ZenonT(30) DEF ProgressOK
  <2> QED
    BY <1>4, <2>1, <2>2 DEF CallSize
<1>6. ASSUME Undisturbed, Outcome(x) = "reply"
      PROVE  \E k \in 1..Len(CallCarried[r]) : CallCarried[r][k] = i
  <2>1. x \in Message /\ x = reply[r]
    BY <1>6 DEF Outcome, Failure, Returns
  <2>2. item[r] \in Elements(executed[r])
    BY <1>6, <2>1, NilAssumption DEF NilAssumption, PairInv, ReplyOwn
  <2>3. CallCarried[r] = executed[r]
    BY DEF CallCarried
  <2> QED
    BY <1>5, <2>2, <2>3 DEF Elements
<1>7. CallPhase[r] = "open" /\ CallSize' = CallSize
  BY <1>1, <1>3 DEF CallPhase, CallSize, Phase
<1>8. CASE item[r] < Len(args[r])
  <2>1. http'[r] = "lookup" /\ status'[r] = status[r] /\ i # CallSize[r]
    BY <1>5, <1>8 DEF Returns
  <2>2. CallPhase' = CallPhase
    BY <1>1, <1>7, <2>1 DEF CallPhase, Phase
  <2>3. status' = status
    BY <1>1, <2>1, TypeParts, ServerParts
  <2>4. Calls!Return(r, Outcome(x))
    BY <1>1, <1>4, <1>6, <1>7, <2>1, <2>2, <2>3 DEF Calls!Return
  <2> QED
    BY <2>4 DEF Outcome
<1>9. CASE ~(item[r] < Len(args[r]))
  <2>1. http'[r] = "done" /\ status'[r] = 200 /\ i = CallSize[r]
    BY <1>5, <1>9 DEF Returns
  <2>2. Phase(http'[r]) = "over"
    BY <2>1 DEF Phase
  <2>3. Calls!Return(r, Outcome(x))
    BY <1>1, <1>4, <1>6, <1>7, <2>1, <2>2 DEF Calls!Return
  <2> QED
    BY <2>3 DEF Outcome
<1> QED
  BY <1>8, <1>9

\* The end of the process.
LEMMA CallCrash ==
  ASSUME TypeOK, Crash
  PROVE  Calls!Crash
<1>1. /\ UNCHANGED <<args, responses, executed, status>>
      /\ \A r \in Requests : http'[r] = IF r \in Active THEN "lost" ELSE http[r]
  BY DEF Crash
<1>2. \A r \in Requests :
        Phase(http'[r]) = IF Phase(http[r]) = "open" THEN "over" ELSE Phase(http[r])
  BY <1>1 DEF Active, Phase
<1>3. CallPhase' = [r \in Requests |-> IF CallPhase[r] = "open" THEN "over" ELSE CallPhase[r]]
  BY <1>2 DEF CallPhase
<1>4. UNCHANGED <<CallSize, CallResults, CallCarried>>
  BY <1>1 DEF CallSize, CallResults, CallCarried
<1> QED
  BY <1>1, <1>3, <1>4 DEF Calls!Crash

\* A reader carries out an item that has its turn, after all it carried out for
\* the request before, or a command that no request sent.
LEMMA CallCarries ==
  ASSUME TypeOK, WalkInv, TurnInv, OrderInv, NEW c \in Ws, Reply(c)
  PROVE  \/ UNCHANGED Calls!callVars
         \/ \E r \in Requests : \E i \in 1..CallSize[r] : Calls!CarryOut(r, i)
<1>1. PICK tag \in Requests \cup {Nil}, k \in Nat : Takes(c, tag, k)
  BY ReplyTakes
<1>2. /\ <<tag, k>> \in Elements(down[c]) /\ executed'[tag] = Append(executed[tag], k)
      /\ \A r \in (Requests \cup {Nil}) \ {tag} : executed'[r] = executed[r]
  BY <1>1 DEF Takes
<1>3. UNCHANGED <<http, args, responses, status>> /\ dialled[Device[c]] = c
  BY DEF Reply, serverVars
<1>4. UNCHANGED <<CallPhase, CallSize, CallResults, status>>
  BY <1>3 DEF CallPhase, CallSize, CallResults
<1>5. CASE tag \notin Requests
  <2>1. CallCarried' = CallCarried
    BY <1>2, <1>5 DEF CallCarried
  <2> QED
    BY <1>4, <2>1 DEF Calls!callVars
<1>6. CASE tag \in Requests
  <2>1. tag # Nil
    BY <1>6, ConfigAssumption DEF ConfigAssumption
  <2>2. SentItem(tag, k)
    BY <1>2, <2>1 DEF TurnInv, SentOnWire
  <2>3. k \in 1..CallSize[tag] /\ k <= item[tag]
    BY <1>6, <2>2 DEF SentItem, CallSize
  <2>4. k <= Len(CallResults[tag]) + 1
    <3> DEFINE S == Message \cup Failure
    <3>1. responses[tag] \in Seq(S) /\ item[tag] \in Nat
      BY <1>6, TypeParts, ServerParts
    <3>2. item[tag] \in {Len(responses[tag]), Len(responses[tag]) + 1}
      BY <1>6 DEF WalkInv, Walk
    <3> HIDE DEF S
    <3>3. Len(CallResults[tag]) = Len(responses[tag]) /\ Len(responses[tag]) \in Nat
      <4>1. CallResults[tag] = Outcomes(responses[tag])
        BY <1>6 DEF CallResults
      <4>2. Len(responses[tag]) \in Nat
        BY <3>1
      <4> QED
        BY <4>1, <4>2 DEF Outcomes
    <3> QED
      BY <2>3, <3>1, <3>2, <3>3
  <2>5. \A j \in 1..Len(CallCarried[tag]) : CallCarried[tag][j] < k
    <3>1. CallCarried[tag] = executed[tag]
      BY <1>6 DEF CallCarried
    <3>2. ASSUME NEW e \in Elements(executed[tag])
          PROVE  e < k
      <4>1. Before(<<tag, e>>, <<tag, k>>)
        BY <1>2, <1>3, <3>2 DEF OrderInv, WireAfterDone
      <4> QED
        BY <2>1, <4>1 DEF Before
    <3> QED
      BY <3>1, <3>2 DEF Elements
  <2>6. CallCarried' = [CallCarried EXCEPT ![tag] = Append(CallCarried[tag], k)]
    BY <1>2, <1>6 DEF CallCarried
  <2>7. Calls!CarryOut(tag, k)
    BY <1>4, <2>4, <2>5, <2>6 DEF Calls!CarryOut
  <2> QED
    BY <1>6, <2>3, <2>7
<1> QED
  BY <1>5, <1>6

\* Every step is one of RemoteCall, or is not seen.
LEMMA CallNext ==
  ASSUME TypeOK, TypeOK', WalkInv, TurnInv, OrderInv, Undisturbed => PairInv,
         [Next]_vars
  PROVE  [Calls!Next]_(Calls!callVars)
<1>1. CASE \E c \in Ws : Reply(c)
  BY <1>1, CallCarries DEF Calls!Next
<1>2. CASE Crash
  BY <1>2, CallCrash DEF Calls!Next
<1>3. CASE UNCHANGED executed /\ ~Crash
  <2>0. \A q \in Requests : executed'[q] = executed[q]
    BY <1>3
  <2>1. CASE UNCHANGED WalkVars
    <3>1. UNCHANGED <<CallPhase, CallSize, CallResults, CallCarried, status>>
      BY <1>3, <2>1 DEF WalkVars, CallPhase, CallSize, CallResults, CallCarried
    <3> QED
      BY <3>1 DEF Calls!callVars
  <2>2. ASSUME NEW r \in Requests, \A q \in Requests \ {r} : Stays(q),
               \/ Arrives(r) \/ Moves(r) \/ Breaks(r)
               \/ \E x \in Message \cup Failure : Returns(r, x)
        PROVE  [Calls!Next]_(Calls!callVars)
    <3>1. CASE Arrives(r)
      BY <2>0, <2>2, <3>1, CallArrives DEF Calls!Next
    <3>2. CASE Moves(r)
      BY <2>0, <2>2, <3>2, CallMoves
    <3>3. CASE Breaks(r)
      <4>1. http'[r] = "done"
        BY <1>3, <3>3, LostWithProcess DEF Breaks
      <4> QED
        BY <2>0, <2>2, <3>3, <4>1, CallBreaks DEF Calls!Next
    <3>4. CASE \E x \in Message \cup Failure : Returns(r, x)
      BY <2>0, <2>2, <3>4, CallReturns DEF Calls!Next
    <3> QED
      BY <2>2, <3>1, <3>2, <3>3, <3>4
  <2> QED
    BY <1>3, <2>1, <2>2, RequestCases
<1> QED
  BY <1>1, <1>2, <1>3, WireCases

\* Undisturbed or not, the invariant that pairs replies holds where it is needed.
LEMMA PairWhenUndisturbed == Spec => [](Undisturbed => PairInv)
<1>1. CASE Undisturbed
  BY <1>1, PairAlways, PTL
<1>2. CASE ~Undisturbed
  BY <1>2, PTL
<1> QED
  BY <1>1, <1>2

\* A POST keeps the promises of RemoteCall: for any numbers of readers, sockets,
\* requests and items, timeouts, failures and restarts, the reader carries out
\* its items in order, each at most once and none ahead of its turn, and the
\* request ends once, with a result per item if it is answered with 200.
THEOREM PostsImplementRemoteCall == Spec => ImplementsRemoteCall
<1>1. Init => Calls!Init
  <2> SUFFICES ASSUME Init PROVE Calls!Init
    OBVIOUS
  <2>1. \A r \in Requests : /\ http[r] = "new" /\ args[r] = <<>>
                            /\ responses[r] = <<>> /\ executed[r] = <<>>
    BY DEF Init, ServerInit
  <2>2. status = [r \in Requests |-> 0]
    BY DEF Init, ServerInit
  <2>3. Outcomes(<<>>) = <<>>
    BY DEF Outcomes
  <2>4. CallPhase = [r \in Requests |-> "new"]
    BY <2>1 DEF CallPhase, Phase
  <2>5. CallSize = [r \in Requests |-> 0]
    BY <2>1 DEF CallSize
  <2>6. CallResults = [r \in Requests |-> <<>>]
    BY <2>1, <2>3 DEF CallResults
  <2>7. CallCarried = [r \in Requests |-> <<>>]
    BY <2>1 DEF CallCarried
  <2> QED
    BY <2>2, <2>4, <2>5, <2>6, <2>7 DEF Calls!Init
<1>2. Spec => [](/\ TypeOK /\ WalkInv /\ TurnInv /\ OrderInv
                 /\ Undisturbed => PairInv)
  BY TypeCorrect, WalkAlways, TurnAlways, OrderAlways, PairWhenUndisturbed, PTL
<1> QED
  BY <1>1, <1>2, CallNext, PTL DEF Spec, ImplementsRemoteCall, Calls!Spec
=============================================================================
