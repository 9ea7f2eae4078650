----------------------------- MODULE MCGateway ------------------------------
(* Instances of Gateway for TLC. *)
EXTENDS Gateway, TLC

CONSTANTS s1, s2, w1, w2, w3, r1, r2

\* POSTs are interchangeable: no action tells two of them apart by name.
RequestSymmetry == Permutations(Requests)

\* Two sockets of one reader, one of another.
Device3 == [c \in Ws |-> IF c = w3 THEN s2 ELSE s1]

\* All sockets belong to reader s1.
DeviceOne == [c \in Ws |-> s1]

\* A socket per reader.
DeviceEach == [c \in Ws |-> IF c = w1 THEN s1 ELSE s2]

P(s, command, body, items) ==
  [channel |-> s, command |-> command, body |-> body, args |-> items]

PostsList == {P(s, "user_list", "empty", <<>>) : s \in SN}

PostsTwoItems == {P(s1, "set_user_info", "array", <<3, 3>>)}

\* Every command without a body; every form of body for one of them, with too
\* few arguments and with enough; an unknown command; and the other reader.
PostsMixed ==
  PostsList \cup PostsTwoItems
    \cup {P(s1, command, "empty", <<>>) : command \in DOMAIN COMMANDS}
    \cup {P(s1, "set_user_info", "invalid", <<>>),
          P(s1, "set_user_info", "array", <<>>),
          P(s1, "set_user_info", "array", <<3, 1>>),
          P(s1, "set_user_info", "object", <<3>>),
          P(s1, "unknown", "object", <<1>>)}
=============================================================================
