------------------------------ MODULE Messages ------------------------------
(***************************************************************************)
(* What the two ends of a tunnel say to each other during the handshake: a *)
(* control string is one token, everything else is a sequence of bytes.    *)
(* The SOCKS5 request and reply (socks5.cpp, address.cpp) are modelled byte *)
(* by byte, because both ends parse them out of fragments of any length    *)
(* and take the bytes behind them for payload.                             *)
(***************************************************************************)
EXTENDS Integers, Sequences

(* The bytes of a sequence of messages. *)
FlattenSeq(messages) ==
    LET upTo[n \in 0 .. Len(messages)] ==
            IF n = 0 THEN <<>> ELSE upTo[n - 1] \o messages[n]
    IN  upTo[Len(messages)]

Front(q) == SubSeq(q, 1, Len(q) - 1)
Last(q) == q[Len(q)]

(* Tokens beyond a byte. *)
Hello == <<256>>
HelloV2 == <<257>>
HelloAck == <<258>>
HelloAckV2 == <<259>>

VERSION == 5
CONNECT == 1
IPV4 == 1
DOMAIN_NAME == 3
IPV6 == 4

SUCCEEDED == 0
GENERAL_FAILURE == 1
NOT_ALLOWED == 2
NETWORK_UNREACHABLE == 3
HOST_UNREACHABLE == 4
CONNECTION_REFUSED == 5
TTL_EXPIRED == 6
COMMAND_NOT_SUPPORTED == 7
ADDRESS_TYPE_NOT_SUPPORTED == 8

-----------------------------------------------------------------------------
(***************************************************************************)
(* Addresses.  ToText and MakeAddress stand for asio's rendering and       *)
(* parsing of IP addresses: a rendered IPv4 address starts with a dot, an  *)
(* IPv6 address with a colon, and "::" is the unspecified IPv6 address.    *)
(***************************************************************************)
Unspecified == [i \in 1 .. 16 |-> 0]

ToText(bytes) ==
    IF bytes = Unspecified THEN <<58, 58>>
    ELSE IF Len(bytes) = 4 THEN <<46>> \o bytes ELSE <<58>> \o bytes

(* The bytes of an address in text form; none for any other name. *)
MakeAddress(text) ==
    IF text = <<58, 58>> THEN Unspecified
    ELSE IF \/ Len(text) = 5 /\ Head(text) = 46
            \/ Len(text) = 17 /\ Head(text) = 58
    THEN Tail(text) ELSE <<>>

(* The address at the start of d: host as text, and port. *)
ParseAddress(d) ==
    LET from == IF d[1] = DOMAIN_NAME THEN 3 ELSE 2
        to == CASE d[1] = IPV4 -> 5 [] d[1] = IPV6 -> 17 [] d[1] = DOMAIN_NAME -> 2 + d[2]
        bytes == SubSeq(d, from, to)
    IN  [host |-> IF d[1] = DOMAIN_NAME THEN bytes ELSE ToText(bytes),
         port |-> d[to + 1] * 256 + d[to + 2]]

(* A host that is an address in text form is encoded as that address. *)
EncodeAddress(host, port) ==
    LET ip == MakeAddress(host) IN
    (CASE Len(ip) = 4 -> <<IPV4>> \o ip
       [] Len(ip) = 16 -> <<IPV6>> \o ip
       [] OTHER -> <<DOMAIN_NAME, Len(host)>> \o host)
        \o <<port \div 256, port % 256>>

-----------------------------------------------------------------------------
(* The length of the request or reply that d starts with, once it is known. *)
MessageLength(d) ==
    CASE d[4] = IPV4 -> 4 + 4 + 2
      [] d[4] = IPV6 -> 4 + 16 + 2
      [] d[4] = DOMAIN_NAME -> 4 + 1 + d[5] + 2

(***************************************************************************)
(* parse_socks5_request and parse_socks5_reply, which differ only in that  *)
(* the reply parser does not tell an unknown address type from other       *)
(* nonsense.                                                               *)
(***************************************************************************)
Status(d) ==
    IF Len(d) < 4 THEN "NeedMore"
    ELSE IF d[1] # VERSION \/ d[3] # 0 THEN "Invalid"
    ELSE IF d[4] \notin {IPV4, IPV6, DOMAIN_NAME} THEN "BadAddressType"
    ELSE IF d[4] = DOMAIN_NAME /\ Len(d) < 5 THEN "NeedMore"
    ELSE IF d[4] = DOMAIN_NAME /\ d[5] = 0 THEN "Invalid"
    ELSE IF Len(d) < MessageLength(d) THEN "NeedMore" ELSE "Complete"

(* The command of a request or the code of a reply, its address, and what      *)
(* follows it.                                                                 *)
Code(d) == d[2]
Address(d) == ParseAddress(SubSeq(d, 4, MessageLength(d)))
Trailing(d) == SubSeq(d, MessageLength(d) + 1, Len(d))

(* The request the client sends on. *)
Request(address) ==
    <<VERSION, CONNECT, 0>> \o EncodeAddress(address.host, address.port)

(* SOCKS5Response::build; an error, or a socket without a name, has no host. *)
Reply(code, host, port) ==
    <<VERSION, code, 0>>
        \o IF host = <<>> THEN <<IPV4, 0, 0, 0, 0, port \div 256, port % 256>>
           ELSE EncodeAddress(host, port)
=============================================================================
