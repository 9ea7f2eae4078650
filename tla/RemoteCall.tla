----------------------------- MODULE RemoteCall -----------------------------
(***************************************************************************)
(* What a POST of server.rb promises its client.  The items of its body    *)
(* are commands for one reader; the reader carries them out in the order   *)
(* of the body, each at most once, and none before its predecessors have   *)
(* their results.  The request ends once: with a result per item (200),    *)
(* refused before any exchange (400, 500), by an exception in the middle   *)
(* (500), or with the process.  An item without a result may have been     *)
(* carried out all the same.                                               *)
(***************************************************************************)
EXTENDS Naturals, Sequences

CONSTANTS
  Requests,
  Paired    \* is a reply always the reply to the item it is the result of?

VARIABLES
  phase,    \* a request is new, open or over
  size,     \* how many items it has
  results,  \* what they came to so far: a reply or an error
  carried,  \* the items the reader has carried out, in that order
  status    \* the HTTP status answered, 0 if none

callVars == <<phase, size, results, carried, status>>

Init ==
  /\ phase = [r \in Requests |-> "new"]
  /\ size = [r \in Requests |-> 0]
  /\ results = [r \in Requests |-> <<>>]
  /\ carried = [r \in Requests |-> <<>>]
  /\ status = [r \in Requests |-> 0]

\* A request with at least one item to carry out.
Accept(r) ==
  /\ phase[r] = "new"
  /\ phase' = [phase EXCEPT ![r] = "open"]
  /\ size'[r] > 0
  /\ size' = [size EXCEPT ![r] = size'[r]]
  /\ UNCHANGED <<results, carried, status>>

\* A request that is answered at once.
Reject(r) ==
  /\ phase[r] = "new"
  /\ phase' = [phase EXCEPT ![r] = "over"]
  /\ status'[r] \in {400, 500}
  /\ status' = [status EXCEPT ![r] = status'[r]]
  /\ UNCHANGED <<size, results, carried>>

\* The reader carries out an item: the one in progress, or an earlier one it
\* has only now got to.
CarryOut(r, i) ==
  /\ i <= Len(results[r]) + 1
  /\ \A k \in 1..Len(carried[r]) : carried[r][k] < i
  /\ carried' = [carried EXCEPT ![r] = Append(@, i)]
  /\ UNCHANGED <<phase, size, results, status>>

\* The item in progress gets its result; the last one ends the request.
Return(r, result) ==
  LET i == Len(results[r]) + 1
  IN  /\ phase[r] = "open"
      /\ Paired /\ result = "reply" => \E k \in 1..Len(carried[r]) : carried[r][k] = i
      /\ results' = [results EXCEPT ![r] = Append(@, result)]
      /\ IF i = size[r]
         THEN /\ phase' = [phase EXCEPT ![r] = "over"]
              /\ status' = [status EXCEPT ![r] = 200]
         ELSE UNCHANGED <<phase, status>>
      /\ UNCHANGED <<size, carried>>

\* An exception ends the request, whatever its earlier items came to.
Abort(r) ==
  /\ phase[r] = "open"
  /\ phase' = [phase EXCEPT ![r] = "over"]
  /\ status' = [status EXCEPT ![r] = 500]
  /\ UNCHANGED <<size, results, carried>>

\* The process ends, and with it every open request.
Crash ==
  /\ phase' = [r \in Requests |-> IF phase[r] = "open" THEN "over" ELSE phase[r]]
  /\ UNCHANGED <<size, results, carried, status>>

Next ==
  \/ Crash
  \/ \E r \in Requests :
       \/ Accept(r) \/ Reject(r) \/ Abort(r)
       \/ \E i \in 1..size[r] : CarryOut(r, i)
       \/ \E result \in {"reply", "error"} : Return(r, result)

Spec == Init /\ [][Next]_callVars
=============================================================================
