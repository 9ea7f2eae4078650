# evo-gw in TLA+

evo-gw is a Ruby gateway between face readers and PTRP. Readers keep a web
socket open to it; PTRP talks to a reader by a POST that names the reader's
serial number, or by publishing on the reader's Redis channel. This directory
models the gateway's own code (about 600 lines: `server.rb`, `app/helpers`,
`app/services`), checks the models with TLC and proves with TLAPS, for instances of
any size, nearly all of what TLC checks except liveness.

## 1. Inventory

| Component | State | Operations | Talks to |
|---|---|---|---|
| `server.rb` | `CONNECTIONS`, the shared Redis client, two mutexes | `GET /pub/chat` (upgrade), `POST /pub/chat/:channel/:command` | creates a `WebSocketHandler` per socket; calls `handle_ws_command` per item |
| `handle_ws_command` | locals of one request | look up, send, `BLPOP response:<sn>` for 1000 s | `CONNECTIONS`, `Devices::Sender`, Redis |
| `WebSocketHandler` | `@subscribed_channels` of one socket | `:open`, `:message`, `:error`, `:close` | Redis (`lpush`, `del`, `publish`), `CONNECTIONS`, `Devices.handle_reg`, `RedisSubscriberService` |
| `Devices.handle_reg` | none | answers `reg` and `sendlog` | the socket |
| `Devices::Sender` | the table `COMMANDS` | `send` | the socket |
| `RedisSubscriberService` | a thread, `@stop_requested`, the handler's `@subscribed_channels` under a mutex all handlers share | `start`, the thread's loop, `stop` | Redis PUB/SUB, `Devices::Sender` |
| `ApiCallService` | none | two HTTP requests to PTRP | never required by `server.rb` |
| `mock_usuarios.rb`, `app/views`, `public`, `openssl-3.4.0` | | | not part of the running gateway |

Who runs what. All web-socket callbacks run on one EventMachine reactor thread,
one at a time. Every POST, and every web-socket upgrade while it lasts, runs on
a thread of Puma's pool. Every subscription has a thread. The reactor and a POST
meet in three places: `CONNECTIONS` (which the POST reads without the mutex), the
socket, and the Redis list `response:<sn>`, into which *every* frame of the
reader is pushed and from which it is deleted at once, so that only a client
that is already blocked gets it.

What is hard here: the order in which a reply and the POST's `BLPOP` arrive; two
POSTs on one list; replies after a timeout; frames and `:close` events of a
reader's old socket after the reader came back on a new one; exceptions between
two Redis commands of one callback; a pool that waiting POSTs can use up; the
check-then-mark of `start` against the `ensure` of dying threads; a mutex held
while sending; subscriptions that outlive their socket and still receive what is
published; and an end of the process at any of these points, with Redis keeping what
was pushed. `PROJECT.json` lists these hazards with the line where each bites
and the property that covers it.

What makes each component correct: `CONNECTIONS` leads to an open socket of the
right reader and loses an entry only with its socket; a registered reader is
found; commands and responses stay with their reader and, under stated
conditions, with their request; nothing stale is left in Redis and no request
that is over still waits there; acknowledged logs are published; every POST is
answered and every reader gets its socket; the items of a POST are carried out in
their order, each at most once; one subscription thread per handler and channel,
which frees the channel when it ends, and through which a published command is sent
at most once.

## 2. Modules

| Module | Models | Notes |
|---|---|---|
| `Sender` | `app/services/devices/sender.rb` | the commands with their arities; payloads left out |
| `Config` | `Server::CONFIG`; Redis and Faye (external) | shared state and the Redis commands the gateway uses |
| `Subscription` | what a handler may expect of its subscription threads | abstract specification; `WebSocketHandler` is built on its operations, `RedisSubscriberService` implements it |
| `WebSocketHandler` | `websocket_handler.rb`, `devices/evo.rb` | one action per callback, the `:message` callback cut into one step per visible call; subscriptions through `INSTANCE Subscription` |
| `Server` | `server.rb`, `handle_ws_command_helper.rb` | one action per step of a request |
| `RemoteCall` | what a POST promises its client | abstract specification; `Gateway` implements it |
| `Gateway` | composition of the above with the readers (external) and the end of the process | the specification, fairness, the properties, and the refinement of `RemoteCall` |
| `RedisSubscriberService` | `redis_subscriber_service.rb` in detail | a specification of its own, with the refinement of `Subscription` |
| `MCGateway`, `MCSubscriber` | instances for TLC | |
| `GatewayProofs` | proofs: types | extends `Gateway` |
| `IsolationProofs` | proofs: entries, channels and commands stay with their reader | extends `GatewayProofs` |
| `MailboxProofs` | proofs: the lists, the waiting requests, the logs | extends `IsolationProofs`, `SequenceLemmas` |
| `ReachabilityProofs` | proofs: registered readers, commands without a body | extends `MailboxProofs` |
| `CommandProofs` | proofs: the order of commands, published commands | extends `MailboxProofs` |
| `PairingProofs` | proofs: replies and their items, the refinement of `RemoteCall` | extends `CommandProofs` |
| `SubscriberProofs` | proofs about `RedisSubscriberService`, the refinement of `Subscription` | |
| `SequenceLemmas` | lemmas about queues | |

State and code.

* `connections` holds the serial-number keys of `CONNECTIONS`, `ws_keys` its
  `ws => nil` entries, which `:open` adds and nothing removes.
* `lists`, `blocked` and `reply` are Redis: the list of a reader, the clients in
  `BLPOP` on it in the order they came, and what a client was given. `LPUSH`
  serves the client that has waited longest.
* `reactor` is the program counter of the message callback. Its steps are
  `lpush`, `del`, `register` (`@connections[sn] = ws`), `handle_reg`, then
  `publish` for a `sendlog` and `start` for everything else. `RedisCommandRaises`
  is an exception of a Redis command: the rest of the callback is skipped.
  `MUTEX_CONNECTIONS` is taken by the reactor only, hence never waited for.
* `http` is the program counter of a request: `lookup`, `send`, `blpop`,
  `blocked`, `done`. `PostChat` stands for everything before the first item (an
  early 400, or the 500 of an empty array, included), `NextItem` for the loop and
  the answer, `Raises` for every exception nobody rescues. `BlpopRaises` is a
  connection lost before `BLPOP`, while it waits, or after Redis has handed over an
  element, which is then gone.
* `socket` goes `none`, `connecting` (dialled), `accepted` (a pool thread took
  it), `open`, `closed`. `up` and `down` are the frames and commands on the wire.
* `subscribed_channels`, `published`, `inbox` and `forwarded` are the state of
  `Subscription`: the keys of each handler's hash, the channel each message was
  published on, what a subscription has received and not yet dealt with, and what it
  passed on. `:close` leaves them alone, as the code does: a subscription of a closed
  socket goes on receiving, and what it sends Faye drops.
* `acked`, `logs`, `heard`, `forwarded`, `faults`, `frames`, `executed`, `crashes` are
  histories. A command is `<<r, i>>` for item `i` of POST `r` and `<<Nil, m>>` for
  message `m` of PUB/SUB; the tag `of` of a frame says which command a reply answers.
  The wire has no such identifiers, and no action of the gateway looks at them.
  `executed` records what the readers carried out, in order.
* `Crash` is the end of the process at any point of any thread, followed by the
  restart of `docker-compose.yml` (`restart: always`): memory, sockets, subscriptions
  and the blocked clients are gone, requests in progress are `lost`, and the lists in
  Redis stay. Readers dial again on fresh sockets.
* In `RedisSubscriberService`, `thread` is the program counter of a service:
  `new`, `checked` and `marked` inside `start`, `spawned`, `connecting`,
  `subscribed`, `waiting` and `sending` (for and under the mutex), `sleeping`
  (before `retry`), `ensure`, `dead`; `ignored` when the key was there. `sent` is the
  history of what each service sent, a sequence, so that a second send of a command
  shows, by whichever thread.

The two refinements.

* `RedisSubscriberService!ImplementsSubscription`. The abstract inbox of a handler and
  channel is the message in progress of its one listening thread followed by that
  thread's unread ones; `forwarded` is what all threads of the handler sent. Threads,
  retries, the mutex and the two critical sections of `start` disappear. It holds
  unless somebody calls `stop`, and it is what entitles `WebSocketHandler` to use
  `Subscription`'s operations in place of the threads.
* `Gateway!ImplementsRemoteCall`. `phase`, `results` and `size` are read off `http`,
  `responses` and `args`; `carried` is `executed`. A reader carries out the items of a
  POST in order, each at most once, none before its predecessors have a result, and
  the POST ends once. This holds with timeouts, reconnections, exceptions and
  restarts. The stronger promise that a reply is the reply to the item it is returned
  for (`Paired`) is made only where nothing disturbs the exchange (`Undisturbed`: one
  POST per reader at a time, no timeouts, no unasked frames, no PUB/SUB, no faults,
  one socket per reader), for only there does the code keep it.

Definitions named `Mutant` in their comment are altered copies of the definition
that follows them: each stands for a plausible bug, and the property it is paired
with in `PROJECT.json` fails when it takes the definition's place.

Abstractions. Payloads, logging and the answers' fields are left out. A body is
its form (empty, invalid, object, array) and the number of arguments of each
item. A frame that is not JSON raises before any state changes and is left out.
What the reactor does with an exception of a callback is EventMachine's and
Faye's business; the model lets any open socket close at any time, before or
after. A reader uses the socket it dialled last; frames it sent on the one before
may still be unread. A reader answers the commands of a socket in order.
A message may reach any of the subscriptions to its channel, and need not reach all:
the key is set before the thread is connected and stays while it reconnects.
A Redis command of the message callback that raises has had no effect. One that took
effect and lost only its answer leads to a state that is reached anyway: after an
`lpush` it is the state in which `del` raised, after a `del` the state in which
`lpush` raised (or served a waiting POST before `del` raised), and after `publish`
nothing of the callback is left to skip.

## 3. Runs

`tlc -workers 2 -config X.cfg MCGateway` (or `MCSubscriber`). No run checks for
deadlock: readers and clients may fall silent, and then the gateway rightly has
nothing to do.

| Run | Instance | Checks |
|---|---|---|
| `core` | 2 readers, 3 sockets (two of one reader, overlapping), 2 POSTs with timeouts (`SYMMETRY` on the POSTs), replies with and without `sn` | `TypeOK`, `RegistryLive`, `CommandReachesItsReader`, `ResponsesFromItsReader`, `ReplyGivenOnce`, `EntryOutlivesOtherSockets` |
| `faults` | 1 reader with 2 sockets one after the other, logs, a POST of two items, 2 Redis exceptions anywhere, 1 end of the process | `MailboxTransient`, `LogsLostPerFailure`, `AckedReaderReachable`, `ImplementsRemoteCall` |
| `restart` | 2 readers, 3 overlapping sockets, a POST, a PUB/SUB command, 1 end of the process | `CommandReachesItsReader`, `FreshMailbox`, `PublishedOnce`, `RegisteredReaderSubscribed` |
| `serial_exchange` | 2 readers that only answer, one POST per reader at a time, every command and every form of body, no timeouts | `OwnReply`, `BodylessNeverRaises`, `ImplementsRemoteCall` (with `Paired`) |
| `liveness` | a pool of one thread, 2 sockets, 2 POSTs, 1 end of the process | `NoGhostWaiter`, `EveryPostAnswered`, `HandshakeCompletes` |
| `subscriber` | 4 services of 2 handlers, one without `sn`; 3 messages, one of each form; 3 Redis failures | `TypeOK`, `KeyMeansOneThread`, `NoDoubleSend`, `ImplementsSubscription` |
| `subscriber_liveness` | 2 services of 2 handlers that share the mutex, one may be stopped, 2 failures | `StartReturns`, `SlotIsFreed`, `ReceivedCommandIsSent`, `StopEndsThread` |

What the passing runs show, beyond the type invariants: the lookup without the
mutex and the send that follows never send a command to another reader, even when
the reader comes back in between; the late `:close` of an old socket spares the new
socket's entry, because `:close` looks the entry up by socket; `lpush` and `del`
leave a frame behind only when Redis fails or the process ends between them, one
frame each time, and after a restart no POST is handed such a frame, because the
reader's first frame clears the list before it makes the reader's entry; each failure
costs at most one acknowledged batch of logs; although old connections of a reader
leave subscriptions behind, a command published once is carried out at most once,
because only one of their sockets is still open at the reader's end; a request that
timed out is no longer known to Redis; a reply may go to the wrong one of two POSTs
(see below), but never to both, for `LPUSH` serves one waiter and the others find the
list empty; a command sent by a subscription is not sent again when its thread retries
or is replaced; a thread that gives up drops its key even if a kill cuts its `ensure`
short, for `stop` drops it too (the second disjunct of `SlotIsFreed` is for a service
that has taken the channel since, which takes two services of one handler: the
properties hold with `Service = {a, b}` as well); and one `BLPOP` that ends is enough for the
pool to recover.

Five runs end in a counterexample, each against a line of the repository quoted
in `PROJECT.json`:

* `overlapping_sockets`: a reader's new socket registers, then a frame still unread
  on its old socket is processed and moves the entry back, then the old socket
  closes and takes the entry along. The reader is connected and acknowledged, and
  POSTs answer `Dispositivo não conectado`. `AckedReaderReachable` in `faults` shows
  that this takes overlapping sockets.
* `unsolicited_frame`: a `sendlog` that arrives while a POST waits is returned as
  the response of the POST. `serial_exchange` shows under which conditions replies
  and requests do match: serial clients, no timeouts, readers that only answer.
  None of the first two can be spared: `serial_exchange.cfg` with `Serial = FALSE`, or
  with `MayTimeout = TRUE`, gives a counterexample to `OwnReply`, in which the POST that
  blocks first takes the reply to the other one, or the late reply to an item that
  timed out answers the next item, or the next POST.
* `fast_reply`: the reply is pushed and deleted before the POST's `BLPOP`; 1000
  seconds later the client is told that the reader did not answer.
  `TimeoutMeansSilence` is about the step of the timeout: a reply that comes only
  later does not violate it.
* `publish_fails`: logs are acknowledged before they are published.
* `lost_subscription`: a subscription thread whose Redis connection fails ends without
  a retry, and a reader that then sends nothing but logs never gets its channel back,
  for a `sendlog` starts no subscription. `RegisteredReaderSubscribed` shows that it
  takes a Redis failure. (The run uses `FairSpec`: the gateway does everything it is
  going to do.)

Bounds. `Requests`, `Ws` and `Service` bound how many ever exist; `MaxFrames`,
`MaxFaults`, `MaxPublish` and `MaxCrashes` bound frames sent unasked, exceptions,
PUB/SUB commands and ends of the process. One end of the process is enough for
something of the first life to meet the second. Two POSTs are what it takes to swap
or swallow a response; two sockets of one reader are what it takes for events of the
old one to hit the new one; a second reader is what it takes to mix readers up; a pool
of one thread is the smallest that one POST exhausts; two services of one handler race for a key, and a
third starts after a failure. The interleavings within these bounds are complete.

Fairness (`FairSpec`). The reactor finishes a callback it began (weak) and, between
callbacks, gets to a socket that was accepted (strong, as callbacks of other
sockets keep disabling it). Each request's thread goes on (weak); that includes
the end of `BLPOP` after 1000 seconds, which Redis guarantees. Puma hands a free
thread to an upgrade (weak: requests are finitely many here, so the run shows that
the pool recovers, not that endless POSTs cannot starve a reader). For the
subscribers: a begun `start` and a thread go on, a killed thread dies (weak), and
whoever waits for the mutex, be it a thread, the reactor in `start` or the caller of
`stop`, gets it if it is free again and again (strong: Ruby's `Mutex` queues its
waiters). Readers, clients, publishers, failures and
`stop` have no fairness.

## 4. Proofs

`tlapm M.tla` checks them. All hold for any sets of readers, sockets, requests and
services and any bounds, ends of the process included, from the named assumptions of
the modules (`ConfigAssumption`, `NilAssumption`, `HandlerAssumption`,
`ServerAssumption`, `GatewayAssumption`, `SubscriberAssumption`): the constants have
their types, and `Nil` is none of the values. A theorem that needs more names it in its `ASSUME`. Each
inductive invariant was also checked with TLC on the instances of section 3.

* `GatewayProofs!TypeCorrect`: `Spec => []TypeOK`. The type invariant says more than
  types: a request within its loop is at an item of its body, and a callback in the
  `if sn` part has a serial number; both are needed to type the next step. One lemma
  per Redis operator, then one per thread (readers, reactor, subscribers, pool) and one for the
  end of the process.
* `IsolationProofs!RegistryIsLive`: `Spec => []RegistryLive`. `RegistryLive` is not
  inductive: that an entry's socket is open after `Register` needs that the socket
  of a callback in progress is open (`CallbackOnOpenSocket`: `:close` cannot run
  inside it), and that it is the right reader's needs that unread frames carry their
  reader's serial number (`FramesOfReader`).
* `IsolationProofs!EntryOutlives`: the action property `EntryOutlivesOtherSockets`.
* `IsolationProofs!CommandsReachTheirReader`: `Spec => []CommandReachesItsReader`. For a
  POST, from `RegistryLive` at the lookup, `HoldsReadersSocket` between lookup and send,
  and the fact that requests on the wire have arrived and do not change; for PUB/SUB,
  from `MailOfReader`, that what a subscription has received was published on its own
  reader's channel, and the fact that a message is published once (`Monotone` holds
  both facts). A handler only ever subscribes to its own reader's channel
  (`ExclusiveChannels`, by `FramesOfReader`).
* `MailboxProofs`. `LogsLossIsBounded` (`[]LogsLostPerFailure`) is inductive once the
  batch that the reactor is about to publish is counted (`LogInv`).
  `MailboxIsTransient` and `MailboxIsFresh` (`[]MailboxTransient`, `[]FreshMailbox`) go
  together with `ClearedFirst`: the callback that makes a reader's entry has just
  deleted the reader's list. `WaitersAreReal` (`[]NoGhostWaiter`) needs the converse of
  each of its parts, in particular that what Redis answers is for a request that is
  blocked (`WaiterInv`). `ResponsesComeFromTheReader` (`[]ResponsesFromItsReader`)
  follows a frame from the socket through the list and the answer to the results
  (`OriginInv`), and needs `WaiterInv` for the step in which `LPUSH` serves a waiter.
* `ReachabilityProofs`. `RegisteredAreSubscribed` (`[]RegisteredReaderSubscribed`): the
  order of the callback's steps, by `RegistrationInv`: the entry is made before the
  answer, and between the answer and the subscription the callback is still about
  that socket. `AckedAreReachable` assumes `~Overlap`, that is, readers that dial again
  only when their old socket is closed; what it adds is `SingleSocket`. The run
  `overlapping_sockets` shows that the assumption is needed. `BodylessIsSafe`
  (`[]BodylessNeverRaises`) rests on the agreement of `server.rb`'s list of commands
  with the lambdas of `Sender`.
* `CommandProofs!PublishedAtMostOnce`: `Spec => []PublishedOnce`. A subscription that an
  earlier connection left behind passes the message on as well, so this is about the
  wires: `OrderInv` says that commands wait on a socket in the order they were
  passed on, after everything carried out, and only on the socket the reader dialled last
  are they carried out. The module also proves how a request walks through its
  items (`WalkInv`) and that what is on the wire or carried out for a POST is an item
  it has sent (`TurnInv`), both needed below.
* `PairingProofs!RepliesAreOwn`: `Undisturbed` implies `Spec => []OwnReply`. A reply
  carries no identifier, so the argument counts: between a reader and the one
  request that waits for it at most one thing is on the way, be it the command,
  the frame, the frame in the callback, the element of the list or the answer of
  Redis (`OneOnTheWay`), and it is about the item in progress (`PlacesInv`,
  `ReplyOwn`). The registration of the reader is the one frame that answers nothing; it
  is through before anybody can ask for the reader (`NothingBefore`, `RegisteredOnce`).
* `PairingProofs!PostsImplementRemoteCall`: `Spec => ImplementsRemoteCall`, with no
  assumption on what disturbs. Each step of `Next` is a step of `RemoteCall` or changes
  nothing of it: the loop by `WalkInv`, the reader's step by `TurnInv` and `OrderInv`,
  which together say that the item is the next one, and `Paired`, where it is
  promised, by `RepliesAreOwn`'s invariant.
* `SubscriberProofs!TypeCorrect` and `SubscriberProofs!OneThreadPerKey`:
  `Spec => []KeyMeansOneThread`. The two critical sections of `start` are safe because
  the reactor runs one `start` at a time (`StartIsAlone`), so that no key appears
  between check and mark.
* `SubscriberProofs!SentAtMostOnce`: `Spec => []NoDoubleSend`. A thread never has a
  message twice among what it has sent, is sending or has unread (`Tidy`): with
  the thread's own second send excluded that way, two threads of a handler that sent
  the same message would be of one channel, the one it was published on
  (`GotPublished`), and of those only one ever gets it (`GotOnce`), because only one
  listens when it arrives (`KeyInv`).
* `SubscriberProofs!ServicesImplementSubscription`: `Spec => ImplementsSubscription` under
  `Stoppable = {}` (nobody calls `stop`; nothing in the gateway does). The abstract
  inbox is read off the one listening thread, so every step needs `KeyInv`.
* `SequenceLemmas`: the elements of queues under append, tail and removal, and that
  distinct elements stay distinct.

Proving found one definition that could not be reasoned about: `EarlyStatus` was a
`CASE` whose arms did not cover every body, and is now the chain of early returns that
`server.rb` has. It also called for the assumption that `Nil` is no message and no
command (`NilAssumption`), which every instance satisfies.

Every invariant, action property and refinement of the passing runs but
`ReplyGivenOnce` is stated by a theorem. Only model-checked: `ReplyGivenOnce`, and the
liveness properties `EveryPostAnswered`,
`HandshakeCompletes`, `StartReturns`, `SlotIsFreed`, `ReceivedCommandIsSent` and
`StopEndsThread` (fairness is out of the prover's reach).

## 5. Not modelled

`ApiCallService` (nothing requires it: no state of the running gateway depends on it),
the mock script, the HTML pages, and the OpenSSL source tree checked in beside the
gateway, which is a third party's library and no part of its logic; the payloads of
commands and answers; Redis restarts that lose lists (the model's lists only ever hold
what the next frame deletes); a `ws => nil` entry's memory (`ws_keys` records the leak,
which changes no answer).

## 6. Plan

Done: all components of the gateway, their composition, the restart, the two abstract
specifications and the refinements, and the proofs of everything the runs check but
`ReplyGivenOnce` and liveness. Left:

1. the proof of `ReplyGivenOnce`: the tag of a reply is at most once among the frames on
   the wire, the one in the callback, the lists, the answers of Redis and the results,
   and a command that is not carried out yet (`OrderInv`) has no reply anywhere;
2. weaker conditions for `OwnReply`: `Undisturbed` also excludes restarts, PUB/SUB
   commands to other readers and sockets that follow one another, and some of these
   may be harmless;
3. the steps the liveness properties rest on, as action properties: a request's thread
   only moves forward, and a channel's slot, once being freed, is freed.
