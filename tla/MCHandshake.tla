---------------------------- MODULE MCHandshake ----------------------------
(* Scripted peers of either end, which wait for nothing.                      *)
EXTENDS Handshake

MCLiterals == {ToText(<<9, 9, 9, 9>>)}
MCNames == {<<65>>, <<58, 58>>}
MCOutcomes == {[code |-> SUCCEEDED, bound |-> <<>>],
               [code |-> SUCCEEDED, bound |-> ToText(Unspecified)],
               [code |-> CONNECTION_REFUSED, bound |-> <<>>]}

(* A message in two fragments. *)
Cut(m, k) == <<SubSeq(m, 1, k), SubSeq(m, k + 1, Len(m))>>

(* Servers of both versions, with replies whole, cut before and behind every  *)
(* byte that decides their length, and followed by payload; refusals, replies *)
(* that do not fit, nonsense, and silence.                                    *)
Ok4 == Reply(SUCCEEDED, <<>>, 0)
Ok6 == Reply(SUCCEEDED, ToText(Unspecified), 0)
OkName == Reply(SUCCEEDED, <<65>>, 0)

MCServerScripts ==
    {<<>>, <<<<99>>>>,
     <<HelloAck, Ok4, <<101>>, <<102>>>>,
     <<HelloAckV2, Ok6 \o <<101, 102>>>>,
     <<HelloAckV2, Ok6 \o <<101, 102, 103>>>>,
     <<HelloAckV2, <<VERSION, 0, 0, 9>>>>,
     <<HelloAckV2, <<VERSION, 0, 0, DOMAIN_NAME, 0>>>>,
     <<HelloAckV2>> \o Cut(Reply(CONNECTION_REFUSED, <<>>, 0), 2)}
    \cup {<<HelloAckV2>> \o Cut(Ok4 \o <<101>>, k) \o <<<<102>>>> : k \in {1, 3, 4, 9}}
    \cup {<<HelloAck>> \o Cut(OkName \o <<101>>, k) : k \in {4, 5, 7}}

(* Clients with a HELLO of either version or none, requests whole and cut,    *)
(* payload behind them and payload that looks like a request, another command, *)
(* requests that do not fit, and nonsense.                                    *)
Name == Request([host |-> <<65>>, port |-> 443])
Literal == Request([host |-> ToText(<<9, 9, 9, 9>>), port |-> 443])

MCClientScripts ==
    {<<>>,
     <<Hello, Literal, <<101>>>>,
     <<HelloV2, Name, Name, <<101>>>>,
     <<Name \o <<101, 102>>, <<103>>>>,
     <<HelloV2, <<VERSION, 3>> \o SubSeq(Name, 3, Len(Name)), <<101>>>>,
     <<HelloV2, <<VERSION, CONNECT, 0, 9>>>>,
     <<HelloV2, <<VERSION, CONNECT, 0, DOMAIN_NAME, 99>>, [i \in 1 .. 20 |-> 65]>>,
     <<HelloV2, HelloV2, <<0, 0, 0>>>>}
    \cup {<<HelloV2>> \o Cut(Name \o <<101>>, k) \o <<<<102>>>> : k \in {1, 4, 5, 7}}
    \cup {Cut(Literal, k) \o <<<<101>>, <<102>>>> : k \in {3, 9}}
=============================================================================
