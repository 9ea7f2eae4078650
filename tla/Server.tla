------------------------------- MODULE Server -------------------------------
(***************************************************************************)
(* The HTTP side (server.rb) with handle_ws_command                        *)
(* (app/helpers/handle_ws_command_helper.rb): each request runs on a       *)
(* thread of Puma's pool, which the web-socket upgrades share.             *)
(*                                                                         *)
(* A POST walks through the items of its body, one exchange with the       *)
(* reader each: look the web socket up, send the command, BLPOP.           *)
(***************************************************************************)
EXTENDS Config, Sender

CONSTANTS
  Posts,       \* the requests clients may make
  PoolSize,    \* threads in Puma's pool
  Serial,      \* do clients wait for a reader's answer before asking again?
  MayTimeout   \* can an exchange take longer than BLPOP's 1000 seconds?

\* A request, its body reduced to its form and the arguments of each item.
Post == [channel: SN, command: STRING,
         body: {"empty", "invalid", "object", "array"}, args: Seq(Nat)]

ASSUME ServerAssumption ==
  /\ Nil \notin Posts
  /\ \A p \in Posts : /\ p \in Post
                      /\ p.body = "object" => Len(p.args) = 1
  /\ PoolSize \in Nat \ {0}
  /\ Serial \in BOOLEAN
  /\ MayTimeout \in BOOLEAN

VARIABLES
  http,       \* where the thread of a request is, lost with the process or not
  post,       \* the request, Nil until it arrives
  args,       \* the arguments of each item of its body
  item,       \* the item in progress
  conn,       \* handle_ws_command's `ws'
  responses,  \* what the items came to so far
  status      \* the HTTP status answered, 0 until then

serverVars == <<http, post, args, item, conn, responses, status>>

\* { error: ... }, what handle_ws_command returns when there is no reply.
Failure == [kind: {"not_connected", "timeout"}, sn: {Nil}, of: {Nil}]

Fail(kind) == [kind |-> kind, sn |-> Nil, of |-> Nil]

ServerTypeOK ==
  /\ http \in [Requests -> {"new", "lookup", "send", "blpop", "blocked", "done",
                            "lost"}]
  /\ post \in [Requests -> Posts \cup {Nil}]
  /\ args \in [Requests -> Seq(Nat)]
  /\ item \in [Requests -> Nat \ {0}]
  /\ conn \in [Requests -> Ws \cup {Nil}]
  /\ responses \in [Requests -> Seq(Message \cup Failure)]
  /\ status \in [Requests -> {0, 200, 400, 500}]
  /\ \A r \in Requests :
       /\ http[r] = "new" => item[r] = 1
       /\ http[r] \notin {"new", "done", "lost"}
            => post[r] # Nil /\ item[r] \in 1..Len(args[r])

ServerInit ==
  /\ http = [r \in Requests |-> "new"]
  /\ post = [r \in Requests |-> Nil]
  /\ args = [r \in Requests |-> <<>>]
  /\ item = [r \in Requests |-> 1]
  /\ conn = [r \in Requests |-> Nil]
  /\ responses = [r \in Requests |-> <<>>]
  /\ status = [r \in Requests |-> 0]

Active == {r \in Requests : http[r] \notin {"new", "done", "lost"}}

PoolHasRoom == Cardinality(Active) < PoolSize

-----------------------------------------------------------------------------
\* get '/pub/chat': a thread of the pool hands the socket to the reactor.
GetChat(c) ==
  /\ socket[c] = "connecting"
  /\ PoolHasRoom
  /\ socket' = [socket EXCEPT ![c] = "accepted"]
  /\ UNCHANGED <<connections, ws_keys, up, down, redisVars, faults, serverVars>>

-----------------------------------------------------------------------------
(* post 'pub/chat/:channel/:command' *)

\* Mutant: a command with an argument is taken for one that needs no body.
CommandsWithoutBodySetTime ==
  {"user_list", "clean_user", "get_new_log", "clean_log", "initsys", "reboot",
   "clean_admin", "set_time"}

commands_without_body ==
  {"user_list", "clean_user", "get_new_log", "clean_log", "initsys", "reboot",
   "clean_admin"}

\* The items to go through, the body being read only if the command needs one.
Items(p) == IF p.command \in commands_without_body THEN <<0>> ELSE p.args

\* The status of a request that is answered before any exchange, else 0: an
\* empty array gets as far as `responses.last[:response]', which raises.
EarlyStatus(p) ==
  IF p.command \in commands_without_body THEN 0
  ELSE IF p.body \in {"empty", "invalid"} THEN 400
  ELSE IF p.args = <<>>                   THEN 500
  ELSE 0

PostChat(r, p) ==
  /\ http[r] = "new"
  /\ PoolHasRoom
  /\ Serial => \A q \in Active : post[q].channel # p.channel
  /\ post' = [post EXCEPT ![r] = p]
  /\ IF EarlyStatus(p) = 0
     THEN /\ args' = [args EXCEPT ![r] = Items(p)]
          /\ http' = [http EXCEPT ![r] = "lookup"]
          /\ UNCHANGED status
     ELSE /\ http' = [http EXCEPT ![r] = "done"]
          /\ status' = [status EXCEPT ![r] = EarlyStatus(p)]
          /\ UNCHANGED args
  /\ UNCHANGED <<configVars, item, conn, responses>>

\* Mutant: the loop goes one item too far.
NextItemOffByOne(r, result) ==
  /\ responses' = [responses EXCEPT ![r] = Append(@, result)]
  /\ IF item[r] <= Len(args[r])
     THEN /\ item' = [item EXCEPT ![r] = @ + 1]
          /\ http' = [http EXCEPT ![r] = "lookup"]
          /\ UNCHANGED status
     ELSE /\ http' = [http EXCEPT ![r] = "done"]
          /\ status' = [status EXCEPT ![r] = 200]
          /\ UNCHANGED item
  /\ UNCHANGED <<post, args>>

\* The result of an item is added to the response and the loop goes on.
NextItem(r, result) ==
  /\ responses' = [responses EXCEPT ![r] = Append(@, result)]
  /\ IF item[r] < Len(args[r])
     THEN /\ item' = [item EXCEPT ![r] = @ + 1]
          /\ http' = [http EXCEPT ![r] = "lookup"]
          /\ UNCHANGED status
     ELSE /\ http' = [http EXCEPT ![r] = "done"]
          /\ status' = [status EXCEPT ![r] = 200]
          /\ UNCHANGED item
  /\ UNCHANGED <<post, args>>

\* Nothing rescues what is not a JSON::ParserError.
Raises(r) ==
  /\ http' = [http EXCEPT ![r] = "done"]
  /\ status' = [status EXCEPT ![r] = 500]
  /\ UNCHANGED <<post, args, item, conn, responses>>

-----------------------------------------------------------------------------
(* handle_ws_command *)

\* Mutant: some connected reader will do.
LookupAny(r) ==
  /\ http[r] = "lookup"
  /\ \E s \in SN :
       /\ connections[s] # Nil
       /\ conn' = [conn EXCEPT ![r] = connections[s]]
  /\ http' = [http EXCEPT ![r] = "send"]
  /\ UNCHANGED <<configVars, post, args, item, responses, status>>

\* ws = config[:connections][channel], without the mutex.
Lookup(r) ==
  /\ http[r] = "lookup"
  /\ LET ws == connections[post[r].channel]
     IN  \/ /\ ws = Nil
            /\ NextItem(r, Fail("not_connected"))
            /\ UNCHANGED conn
         \/ /\ ws # Nil
            /\ conn' = [conn EXCEPT ![r] = ws]
            /\ http' = [http EXCEPT ![r] = "send"]
            /\ UNCHANGED <<post, args, item, responses, status>>
  /\ UNCHANGED configVars

\* Mutant: the command is sent again for good measure.
SendCommandTwice(r) ==
  /\ http[r] = "send"
  /\ http' = [http EXCEPT ![r] = "blpop"]
  /\ down' = IF socket[conn[r]] = "open"
             THEN [down EXCEPT ![conn[r]] = @ \o <<<<r, item[r]>>, <<r, item[r]>>>>]
             ELSE down
  /\ UNCHANGED <<connections, ws_keys, socket, up, redisVars, faults>>
  /\ UNCHANGED <<post, args, item, conn, responses, status>>

\* Devices::Sender.send(ws, command, *args): an unknown command is logged and
\* the request waits for a response all the same.
SendCommand(r) ==
  /\ http[r] = "send"
  /\ LET command == post[r].command
         nargs   == args[r][item[r]]
     IN  \/ /\ BadArity(command, nargs)
            /\ Raises(r)
            /\ UNCHANGED socketVars
         \/ /\ ~BadArity(command, nargs)
            /\ http' = [http EXCEPT ![r] = "blpop"]
            /\ IF Sends(command, nargs)
               THEN WsSend(conn[r], <<r, item[r]>>)
               ELSE UNCHANGED socketVars
            /\ UNCHANGED <<post, args, item, conn, responses, status>>
  /\ UNCHANGED <<connections, ws_keys, redisVars, faults>>

\* Mutant: the key is not the one of the reader the request names.
BlpopAnyKey(r) ==
  /\ http[r] = "blpop"
  /\ \E s \in SN : BLPOP(r, s)
  /\ http' = [http EXCEPT ![r] = "blocked"]
  /\ UNCHANGED <<connections, ws_keys, socketVars, faults>>
  /\ UNCHANGED <<post, args, item, conn, responses, status>>

\* redis.blpop(key, timeout: 1000), on a connection of the request's own.
Blpop(r) ==
  /\ http[r] = "blpop"
  /\ BLPOP(r, post[r].channel)
  /\ http' = [http EXCEPT ![r] = "blocked"]
  /\ UNCHANGED <<connections, ws_keys, socketVars, faults>>
  /\ UNCHANGED <<post, args, item, conn, responses, status>>

\* BLPOP returned a message: JSON.parse(raw_response).
Response(r) ==
  /\ http[r] = "blocked"
  /\ reply[r] # Nil
  /\ NextItem(r, reply[r])
  /\ reply' = [reply EXCEPT ![r] = Nil]
  /\ UNCHANGED <<connections, ws_keys, socketVars, lists, blocked, faults, conn>>

\* Mutant: the request gives up by a timer of its own, Redis still holds it.
TimeoutLeavesWaiter(r) ==
  /\ MayTimeout
  /\ http[r] = "blocked"
  /\ reply[r] = Nil
  /\ NextItem(r, Fail("timeout"))
  /\ UNCHANGED <<configVars, conn>>

\* Mutant: redis.blpop(key) waits for ever.
TimeoutNever(r) ==
  /\ MayTimeout
  /\ http[r] = "blocked"
  /\ FALSE
  /\ UNCHANGED <<configVars, serverVars>>

\* Mutant: after a timeout the item is tried again.
TimeoutRetries(r) ==
  /\ MayTimeout
  /\ http[r] = "blocked"
  /\ reply[r] = Nil
  /\ Unblock(r, post[r].channel)
  /\ http' = [http EXCEPT ![r] = "lookup"]
  /\ UNCHANGED <<post, args, item, conn, responses, status>>
  /\ UNCHANGED <<connections, ws_keys, socketVars, faults>>

\* BLPOP returned nil.
Timeout(r) ==
  /\ MayTimeout
  /\ http[r] = "blocked"
  /\ reply[r] = Nil
  /\ Unblock(r, post[r].channel)
  /\ NextItem(r, Fail("timeout"))
  /\ UNCHANGED <<connections, ws_keys, socketVars, faults, conn>>

\* BLPOP raises: the request's connection to Redis is lost, before the command,
\* while the request waits or with the message that Redis has sent it.
BlpopRaises(r) ==
  /\ Fault
  /\ \/ http[r] = "blpop" /\ UNCHANGED redisVars
     \/ http[r] = "blocked" /\ reply[r] = Nil /\ Unblock(r, post[r].channel)
     \/ /\ http[r] = "blocked"
        /\ reply[r] # Nil
        /\ reply' = [reply EXCEPT ![r] = Nil]
        /\ UNCHANGED <<lists, blocked>>
  /\ Raises(r)
  /\ UNCHANGED <<connections, ws_keys, socketVars>>

RequestStep(r) ==
  Lookup(r) \/ SendCommand(r) \/ Blpop(r) \/ Response(r) \/ Timeout(r)
=============================================================================
