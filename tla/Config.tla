------------------------------- MODULE Config -------------------------------
(***************************************************************************)
(* The state the threads of the gateway share: Server::CONFIG of server.rb *)
(* (CONNECTIONS and the Redis server behind REDIS) and the web sockets of  *)
(* Faye.  Redis and Faye are external: their operators say what the        *)
(* commands the gateway issues do to this state.                           *)
(***************************************************************************)
EXTENDS Naturals, Sequences, FiniteSets

CONSTANTS
  SN,        \* the serial numbers of the readers
  Ws,        \* the web sockets ever opened, one WebSocketHandler each
  Device,    \* Device[ws]: the serial number of the reader that opened ws
  Requests,  \* the POST requests ever received
  Nil,       \* Ruby's nil
  MaxFaults  \* bound: Redis commands that may raise

ASSUME ConfigAssumption ==
  /\ Device \in [Ws -> SN]
  /\ Nil \notin SN
  /\ Nil \notin Ws
  /\ Nil \notin Requests
  /\ MaxFaults \in Nat

(***************************************************************************)
(* A command on its way to a reader carries the request and the item of    *)
(* the request's body it was sent for, or Nil and the number of the        *)
(* message it came with over PUB/SUB.  A frame from a reader is a          *)
(* registration, a batch of logs or the reply to a command, `of' naming    *)
(* that command.                                                           *)
(* The tags are history: neither frame carries an identifier on the wire.  *)
(***************************************************************************)
Command == (Requests \cup {Nil}) \X Nat

Message == [kind: {"reg", "sendlog", "ret"},
            sn:   SN \cup {Nil},
            of:   Command \cup {Nil}]

\* Neither a frame nor a command is nil: handle_ws_command can tell a response
\* from a timeout.
ASSUME NilAssumption == Nil \notin Message /\ Nil \notin Command

VARIABLES
  connections,  \* CONNECTIONS, its serial-number keys: [SN -> Ws or Nil]
  ws_keys,      \* CONNECTIONS, its `ws => nil' entries
  socket,       \* what Faye knows of each web socket
  up,           \* frames a reader has sent and the reactor has not read
  down,         \* commands sent to a reader and not yet read by it
  lists,        \* Redis: the list under the key "response:<sn>"
  blocked,      \* Redis: the clients blocked on that key, longest first
  reply,        \* what Redis answered a client's BLPOP, Nil while it waits
  faults        \* history: Redis commands that raised so far

socketVars == <<socket, up, down>>
redisVars  == <<lists, blocked, reply>>
configVars == <<connections, ws_keys, socketVars, redisVars, faults>>

ConfigTypeOK ==
  /\ connections \in [SN -> Ws \cup {Nil}]
  /\ ws_keys \subseteq Ws
  /\ socket \in [Ws -> {"none", "connecting", "accepted", "open", "closed"}]
  /\ up \in [Ws -> Seq(Message)]
  /\ down \in [Ws -> Seq(Command)]
  /\ lists \in [SN -> Seq(Message)]
  /\ blocked \in [SN -> Seq(Requests)]
  /\ reply \in [Requests -> Message \cup {Nil}]
  /\ faults \in Nat

ConfigInit ==
  /\ connections = [s \in SN |-> Nil]
  /\ ws_keys = {}
  /\ socket = [c \in Ws |-> "none"]
  /\ up = [c \in Ws |-> <<>>]
  /\ down = [c \in Ws |-> <<>>]
  /\ lists = [s \in SN |-> <<>>]
  /\ blocked = [s \in SN |-> <<>>]
  /\ reply = [r \in Requests |-> Nil]
  /\ faults = 0

-----------------------------------------------------------------------------
(* The Redis commands the gateway issues on "response:<sn>". *)

\* A pushed element goes to the client that has been blocked longest, if any.
LPUSH(s, m) ==
  \/ /\ blocked[s] = <<>>
     /\ lists' = [lists EXCEPT ![s] = <<m>> \o @]
     /\ UNCHANGED <<blocked, reply>>
  \/ /\ blocked[s] # <<>>
     /\ reply' = [reply EXCEPT ![Head(blocked[s])] = m]
     /\ blocked' = [blocked EXCEPT ![s] = Tail(@)]
     /\ UNCHANGED lists

DEL(s) ==
  /\ lists' = [lists EXCEPT ![s] = <<>>]
  /\ UNCHANGED <<blocked, reply>>

BLPOP(r, s) ==
  \/ /\ lists[s] = <<>>
     /\ blocked' = [blocked EXCEPT ![s] = Append(@, r)]
     /\ UNCHANGED <<lists, reply>>
  \/ /\ lists[s] # <<>>
     /\ reply' = [reply EXCEPT ![r] = Head(lists[s])]
     /\ lists' = [lists EXCEPT ![s] = Tail(@)]
     /\ UNCHANGED blocked

\* A Redis command raises in the thread that issued it.
Fault == faults < MaxFaults /\ faults' = faults + 1

\* Redis forgets a blocked client: its time is up, or its connection is gone.
Unblock(r, s) ==
  /\ \E i \in 1..Len(blocked[s]) :
       /\ blocked[s][i] = r
       /\ blocked' = [blocked EXCEPT ![s] = SubSeq(@, 1, i - 1)
                                              \o SubSeq(@, i + 1, Len(@))]
  /\ UNCHANGED <<lists, reply>>

-----------------------------------------------------------------------------
\* Faye's ws.send: a socket that is closed ignores the frame and returns false.
WsSend(c, command) ==
  /\ down' = IF socket[c] = "open"
             THEN [down EXCEPT ![c] = Append(@, command)]
             ELSE down
  /\ UNCHANGED <<socket, up>>
=============================================================================
