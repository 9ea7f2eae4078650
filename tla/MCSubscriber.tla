---------------------------- MODULE MCSubscriber ----------------------------
(* Instances of RedisSubscriberService for TLC. *)
EXTENDS RedisSubscriberService

CONSTANTS a, b, c, d, h1, h2, ch, m1, m2, m3

\* Two services of one handler, the third of the reader's next connection.
TwoHandlers == [s \in Service |-> IF s = c THEN h2 ELSE h1]

OneChannel == [s \in Service |-> ch]

\* Service d was made for a frame without `sn'.
WithNil == [s \in Service |-> IF s = d THEN Nil ELSE ch]

\* One message of each form.
Forms ==
  [m \in Payload |-> CASE m = m1 -> "command"
                       [] m = m2 -> "raises"
                       [] OTHER  -> "junk"]
=============================================================================
