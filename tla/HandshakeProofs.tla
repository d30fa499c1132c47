-------------------------- MODULE HandshakeProofs --------------------------
(***************************************************************************)
(* Proofs about Handshake: what either end promises its peer holds for     *)
(* every script, every outcome of a connect and every bound, in all three  *)
(* modes.  HandshakeInv joins an invariant of the client (what the app has *)
(* been told at each step of the chain, and that a pending connect is the  *)
(* one completion to come) and an invariant of the server (which read may  *)
(* be outstanding in which phase, and that a session that replied and      *)
(* still runs has finished its handshake).  The ends meet only in the      *)
(* messages in flight, of which it needs no more than their type.          *)
(***************************************************************************)
EXTENDS Handshake, TLAPS

(* A message is a sequence of bytes and tokens. *)
Message == Seq(Nat)

(* The session of the client. *)
ClientSession ==
    [running : BOOLEAN, connected : BOOLEAN, connectPending : BOOLEAN,
     timer : {"off", "armed", "expired"}, read : {"none", "pending", "message", "aborted"},
     posted : Message, closing : BOOLEAN, inq : Seq(Message), fin : BOOLEAN]

(* What the app has been told at each step of the chain: nothing before the    *)
(* method selection, nothing else before the reply.  A pending connect is the  *)
(* one completion still to come; what is told or done comes after it.          *)
ClientInv ==
    /\ session \in ClientSession /\ toClient \in Seq(Message)
    /\ told \in Message /\ accum \in Message
    /\ cancelled \in BOOLEAN /\ done \in BOOLEAN
    /\ completions \in {0, 1}
    /\ step = "accept" => completions = 0 /\ ~session.connectPending
    /\ session.connectPending =>
          /\ completions = 0 /\ session.running
          /\ step \in {"tunnel", "none"} /\ told = <<>> /\ accum = <<>>
    /\ step \in {"accept", "tunnel", "greeting", "methods"} => told = <<>> /\ accum = <<>>
    /\ step \in {"selecting", "header", "address", "domain"} =>
          told = <<C!METHOD_SELECTED>> /\ accum = <<>>
    /\ step = "reply" => told = <<C!METHOD_SELECTED>> /\ ~C!Answered
    /\ step = "telling" \/ done => cancelled
    /\ done => step = "none"
    /\ ReplyProtocol

(* The fields of a server session. *)
SessionFields ==
    {"running", "inTable", "protoDone", "hsDone", "fin", "readFlag", "connectFlag", "reader",
     "read", "data", "inq", "accum", "up", "initial", "dest", "deadline", "fired", "sent",
     "target", "requests", "stacked"}

(* The peer has its SOCKS5 reply. *)
Replied(x) == \E i \in 1 .. Len(x.sent) : x.sent[i] \notin S!Acks

(* One acknowledgement, first, and one reply. *)
Answers(x) ==
    /\ x.sent \in Seq(Message)
    /\ \A i, j \in 1 .. Len(x.sent) :
          x.sent[i] \notin S!Acks /\ x.sent[j] \notin S!Acks => i = j
    /\ \A i \in 1 .. Len(x.sent) : x.sent[i] \in S!Acks => i = 1

(* Whose read is outstanding: the HELLO's only before the protocol is known,   *)
(* the request's only before a request is known, both under the flag; the      *)
(* forwarding loop's only after the handshake.                                 *)
Reading(x) ==
    /\ x.read \in {"pending", "data"} =>
          /\ x.reader = "hello" => ~x.protoDone
          /\ x.reader = "request" => x.protoDone /\ x.requests = 0
    /\ x.running /\ x.read # "none" =>
          /\ x.read \in {"pending", "data"}
          /\ \/ x.reader \in {"hello", "request"} /\ x.readFlag
             \/ x.reader = "forward" /\ x.hsDone

(* The rest: the flags under which the handlers start a read, a connect or a   *)
(* reply.                                                                      *)
Core(x) ==
    /\ DOMAIN x = SessionFields
    /\ x.running \in BOOLEAN /\ x.inTable \in BOOLEAN /\ x.protoDone \in BOOLEAN
    /\ x.hsDone \in BOOLEAN /\ x.readFlag \in BOOLEAN /\ x.connectFlag \in BOOLEAN
    /\ x.fired \in BOOLEAN
    /\ ~x.stacked /\ x.requests \in {0, 1}
    /\ Answers(x) /\ Reading(x)
    /\ x.running => x.inTable
    /\ ~x.protoDone => x.sent = <<>> /\ x.requests = 0
    /\ x.requests = 0 => x.up = "none" /\ x.deadline = "off" /\ ~x.hsDone
    /\ x.running /\ x.requests > 0 => x.connectFlag \/ x.hsDone
    /\ x.hsDone => x.fired
    /\ x.up \in {"writing", "forwarding"} => x.hsDone

(* A session that replied and still runs has finished the handshake. *)
ServerInv(x) == Core(x) /\ (x.running /\ Replied(x) => x.hsDone)

(* The inductive invariant. *)
HandshakeInv ==
    /\ ClientInv /\ ServerInv(s)
    /\ payload \in [app : Nat, target : Nat]

-----------------------------------------------------------------------------
(* Messages. *)

(* Both ends have the same messages. *)
LEMMA SameReply ==
    \A code, host, port : S!Reply(code, host, port) = Reply(code, host, port)
<1>1. S!VERSION = VERSION /\ S!IPV4 = IPV4 /\ S!IPV6 = IPV6 /\ S!DOMAIN_NAME = DOMAIN_NAME
  BY Zenon DEF S!VERSION, VERSION, S!IPV4, IPV4, S!IPV6, IPV6, S!DOMAIN_NAME, DOMAIN_NAME
<1>2. \A host : S!MakeAddress(host) = MakeAddress(host)
  BY Zenon DEF S!MakeAddress, MakeAddress, S!Unspecified, Unspecified
<1>3. \A host, port : S!EncodeAddress(host, port) = EncodeAddress(host, port)
  BY <1>1, <1>2, Zenon DEF S!EncodeAddress, EncodeAddress
<1> QED  BY <1>1, <1>3 DEF S!Reply, Reply

(* Both ends have the same parser. *)
LEMMA SameParser ==
    \A d : /\ S!Status(d) = Status(d) /\ C!Status(d) = Status(d)
           /\ C!Code(d) = Code(d) /\ C!Trailing(d) = Trailing(d)
<1>1. /\ S!VERSION = VERSION /\ S!IPV4 = IPV4 /\ S!IPV6 = IPV6 /\ S!DOMAIN_NAME = DOMAIN_NAME
      /\ C!VERSION = VERSION /\ C!IPV4 = IPV4 /\ C!IPV6 = IPV6 /\ C!DOMAIN_NAME = DOMAIN_NAME
  BY Zenon DEF S!VERSION, VERSION, S!IPV4, IPV4, S!IPV6, IPV6, S!DOMAIN_NAME, DOMAIN_NAME,
               C!VERSION, C!IPV4, C!IPV6, C!DOMAIN_NAME
<1>2. \A d : S!MessageLength(d) = MessageLength(d) /\ C!MessageLength(d) = MessageLength(d)
  BY <1>1 DEF S!MessageLength, C!MessageLength, MessageLength
<1>3. \A d : S!Status(d) = Status(d)
  BY <1>1, <1>2 DEF S!Status, Status
<1>4. \A d : C!Status(d) = Status(d)
  BY <1>1, <1>2 DEF C!Status, Status
<1>5. \A d : C!Trailing(d) = Trailing(d)
  BY <1>2, Zenon DEF C!Trailing, Trailing
<1> QED  BY <1>3, <1>4, <1>5 DEF C!Code, Code

(* The parser has one of four answers; nothing is not a whole message. *)
LEMMA StatusValues ==
    /\ \A d : Status(d) \in {"NeedMore", "Invalid", "BadAddressType", "Complete"}
    /\ Status(<<>>) = "NeedMore"
BY DEF Status

(* A suffix of a message is a message. *)
LEMMA Suffix ==
    ASSUME NEW D, NEW q \in Seq(D), NEW k \in Nat
    PROVE  SubSeq(q, k + 1, Len(q)) \in Seq(D)
<1>1. Len(q) \in Nat /\ \A i \in k + 1 .. Len(q) : q[i] \in D
  OBVIOUS
<1> QED  BY <1>1

(* A whole message has a code, and what follows it is a message again. *)
LEMMA WholeMessage ==
    ASSUME NEW d \in Message, Status(d) = "Complete"
    PROVE  Code(d) \in Nat /\ Trailing(d) \in Message
<1>1. Len(d) \in Nat /\ Len(d) >= 4 /\ d[4] \in {IPV4, IPV6, DOMAIN_NAME}
      /\ (d[4] = DOMAIN_NAME => Len(d) >= 5)
  BY DEF Status, Message
<1>2. d[2] \in Nat /\ (d[4] = DOMAIN_NAME => d[5] \in Nat)
  BY <1>1 DEF Message
<1>3. MessageLength(d) \in Nat
  BY <1>1, <1>2 DEF MessageLength, IPV4, IPV6, DOMAIN_NAME
<1>4. Trailing(d) \in Message
  BY <1>3, Suffix DEF Trailing, Message
<1> QED  BY <1>2, <1>4 DEF Code

(* An encoded address is a sequence of bytes. *)
LEMMA EncodedAddress ==
    ASSUME NEW host \in Message, NEW port \in Nat
    PROVE  EncodeAddress(host, port) \in Message
<1> DEFINE ip == MakeAddress(host)
<1>1. ip \in Message
  <2>1. Unspecified \in Message
    BY DEF Unspecified, Message
  <2>2. ASSUME Len(host) = 5 \/ Len(host) = 17 PROVE Tail(host) \in Message
    <3>1. host # <<>>
      BY <2>2
    <3> QED  BY <3>1 DEF Message
  <2>3. <<>> \in Message
    BY DEF Message
  <2> QED  BY <2>1, <2>2, <2>3 DEF MakeAddress
<1>2. <<port \div 256, port % 256>> \in Message
  BY DEF Message
<1> HIDE DEF ip
<1>3. /\ <<IPV4>> \o ip \in Message /\ <<IPV6>> \o ip \in Message
      /\ <<DOMAIN_NAME, Len(host)>> \o host \in Message
  BY <1>1 DEF Message, IPV4, IPV6, DOMAIN_NAME
<1> DEFINE tagged == CASE Len(ip) = 4 -> <<IPV4>> \o ip
                       [] Len(ip) = 16 -> <<IPV6>> \o ip
                       [] OTHER -> <<DOMAIN_NAME, Len(host)>> \o host
<1>4. tagged \in Message
  BY <1>3
<1>5. EncodeAddress(host, port) = tagged \o <<port \div 256, port % 256>>
  BY DEF EncodeAddress, ip
<1> HIDE DEF tagged
<1> QED  BY <1>2, <1>4, <1>5 DEF Message

(* A SOCKS5 reply is not an acknowledgement: it starts with the version. *)
LEMMA ReplyIsNoAck ==
    ASSUME NEW code \in Nat, NEW host \in Message, NEW port \in Nat
    PROVE  S!Reply(code, host, port) \in Message /\ S!Reply(code, host, port) \notin S!Acks
<1> DEFINE rest == IF host = <<>> THEN <<IPV4, 0, 0, 0, 0, port \div 256, port % 256>>
                   ELSE EncodeAddress(host, port)
<1>1. rest \in Message
  <2>1. <<IPV4, 0, 0, 0, 0, port \div 256, port % 256>> \in Message
    BY DEF Message, IPV4
  <2> QED  BY <2>1, EncodedAddress
<1>2. S!Reply(code, host, port) = <<VERSION, code, 0>> \o rest
  BY SameReply, Zenon DEF Reply
<1> HIDE DEF rest
<1>3. <<VERSION, code, 0>> \o rest \in Message /\ (<<VERSION, code, 0>> \o rest)[1] = VERSION
  BY <1>1 DEF Message, VERSION
<1>4. S!HelloAck[1] # VERSION /\ S!HelloAckV2[1] # VERSION
  BY DEF S!HelloAck, S!HelloAckV2, VERSION
<1> QED  BY <1>2, <1>3, <1>4, Zenon DEF S!Acks

(* The acknowledgements are messages, the codes numbers. *)
LEMMA AcksAndCodes ==
    /\ S!Acks \subseteq Message
    /\ S!SUCCEEDED \in Nat /\ S!GENERAL_FAILURE \in Nat /\ S!NOT_ALLOWED \in Nat
    /\ S!HOST_UNREACHABLE \in Nat /\ S!TTL_EXPIRED \in Nat
    /\ S!COMMAND_NOT_SUPPORTED \in Nat /\ S!ADDRESS_TYPE_NOT_SUPPORTED \in Nat
<1>1. <<258>> \in Seq(Nat) /\ <<259>> \in Seq(Nat)
  OBVIOUS
<1>2. S!HelloAck \in Message /\ S!HelloAckV2 \in Message
  BY <1>1, Zenon DEF Message, S!HelloAck, S!HelloAckV2
<1>3. S!Acks \subseteq Message
  BY <1>2, Zenon DEF S!Acks
<1> QED
  BY <1>3 DEF S!SUCCEEDED, S!GENERAL_FAILURE, S!NOT_ALLOWED, S!HOST_UNREACHABLE,
              S!TTL_EXPIRED, S!COMMAND_NOT_SUPPORTED, S!ADDRESS_TYPE_NOT_SUPPORTED

-----------------------------------------------------------------------------
(* The helpers of the server. *)

(* y differs from x in the fields F only. *)
Same(x, y, F) == DOMAIN y = SessionFields /\ \A f \in SessionFields \ F : y[f] = x[f]

(* Two updates in a row. *)
LEMMA SameTransitive ==
    ASSUME NEW x, NEW y, NEW z, NEW F, NEW G, Same(x, y, F), Same(y, z, G)
    PROVE  Same(x, z, F \cup G)
BY DEF Same

(* A reply to a session that has sent none; it still has to be closed. *)
LEMMA SendReply ==
    ASSUME NEW x, ServerInv(x), x.running => x.protoDone /\ ~x.hsDone,
           NEW m \in Message, m \notin S!Acks
    PROVE  Core(S!SendData(x, m)) /\ Same(x, S!SendData(x, m), {"sent"})
<1> DEFINE y == S!SendData(x, m)
<1>1. CASE ~x.running
  BY <1>1 DEF S!SendData, ServerInv, Core, Same
<1>2. CASE x.running
  <2>1. y = [x EXCEPT !.sent = Append(x.sent, m)] /\ DOMAIN x = SessionFields
    BY <1>2 DEF S!SendData, ServerInv, Core
  <2>2. y.sent = Append(x.sent, m) /\ Same(x, y, {"sent"})
    BY <2>1 DEF SessionFields, Same
  <2> HIDE DEF y
  <2>3. Answers(x) /\ \A i \in 1 .. Len(x.sent) : x.sent[i] \in S!Acks
    BY <1>2 DEF ServerInv, Core, Replied
  <2>4. Answers(y)
    BY <2>2, <2>3 DEF Answers
  <2>5. /\ y.running = x.running /\ y.inTable = x.inTable /\ y.protoDone = x.protoDone
        /\ y.hsDone = x.hsDone /\ y.readFlag = x.readFlag /\ y.connectFlag = x.connectFlag
        /\ y.fired = x.fired /\ y.stacked = x.stacked /\ y.requests = x.requests
        /\ y.up = x.up /\ y.deadline = x.deadline /\ y.reader = x.reader /\ y.read = x.read
        /\ DOMAIN y = SessionFields
    BY <2>2 DEF SessionFields, Same
  <2>6. Reading(y)
    BY <2>5 DEF ServerInv, Core, Reading
  <2>7. Core(y)
    BY <1>2, <2>4, <2>5, <2>6 DEF ServerInv, Core
  <2> QED  BY <2>2, <2>7 DEF y
<1> QED  BY <1>1, <1>2

(* What Stop changes in a running session. *)
LEMMA Stopped ==
    ASSUME NEW x, DOMAIN x = SessionFields, x.running
    PROVE  LET y == S!Stop(x) IN
           /\ y.running = FALSE /\ y.readFlag = FALSE /\ y.connectFlag = FALSE
           /\ y.read = (IF x.read = "pending" THEN "error" ELSE x.read)
           /\ Same(x, y, {"running", "readFlag", "connectFlag", "read"})
<1> DEFINE r == IF x.read = "pending" THEN "error" ELSE x.read
           y == [x EXCEPT !.running = FALSE, !.readFlag = FALSE, !.connectFlag = FALSE,
                          !.read = r]
<1>1. S!Stop(x) = y
  BY Zenon DEF S!Stop
<1> HIDE DEF r
<1>2. y.running = FALSE /\ y.readFlag = FALSE /\ y.connectFlag = FALSE /\ y.read = r
  BY DEF SessionFields
<1>3. Same(x, y, {"running", "readFlag", "connectFlag", "read"})
  BY Zenon DEF SessionFields, Same
<1> QED  BY <1>1, <1>2, <1>3, Zenon DEF r

(* Stop. *)
LEMMA StopKeeps ==
    ASSUME NEW x, Core(x)
    PROVE  ServerInv(S!Stop(x))
<1> DEFINE y == S!Stop(x)
<1>1. CASE ~x.running
  BY <1>1 DEF S!Stop, ServerInv
<1>2. CASE x.running
  <2>1. DOMAIN x = SessionFields
    BY DEF Core
  <2>2. /\ y.running = FALSE /\ y.readFlag = FALSE /\ y.connectFlag = FALSE
        /\ y.read = (IF x.read = "pending" THEN "error" ELSE x.read)
        /\ Same(x, y, {"running", "readFlag", "connectFlag", "read"})
    BY <1>2, <2>1, Stopped, ZenonT(30)
  <2> HIDE DEF y
  <2>3. /\ y.inTable = x.inTable /\ y.protoDone = x.protoDone /\ y.hsDone = x.hsDone
        /\ y.fired = x.fired /\ y.stacked = x.stacked /\ y.requests = x.requests
        /\ y.sent = x.sent /\ y.up = x.up /\ y.deadline = x.deadline
        /\ y.reader = x.reader /\ DOMAIN y = SessionFields
    BY <2>2, SMTT(20) DEF SessionFields, Same
  <2>4. Answers(y) /\ Reading(y)
    BY <2>2, <2>3 DEF Core, Answers, Reading
  <2> QED  BY <2>2, <2>3, <2>4, Zenon DEF ServerInv, Core, y
<1> QED  BY <1>1, <1>2

(* close_connection. *)
LEMMA CloseKeeps ==
    ASSUME NEW x, Core(x)
    PROVE  ServerInv(S!CloseConnection(x))
<1> DEFINE z == [x EXCEPT !.inTable = FALSE]
           y == S!Stop(z)
<1>1. CASE ~x.inTable
  BY <1>1 DEF S!CloseConnection, ServerInv, Core
<1>2. CASE x.inTable
  <2>1. S!CloseConnection(x) = y /\ DOMAIN x = SessionFields
    BY <1>2 DEF S!CloseConnection, Core
  <2>2. z.inTable = FALSE /\ Same(x, z, {"inTable"})
    BY <2>1 DEF SessionFields, Same
  <2> HIDE DEF z
  <2>3. /\ z.running = x.running /\ z.protoDone = x.protoDone
        /\ z.hsDone = x.hsDone /\ z.readFlag = x.readFlag /\ z.connectFlag = x.connectFlag
        /\ z.fired = x.fired /\ z.stacked = x.stacked /\ z.requests = x.requests
        /\ z.sent = x.sent /\ z.up = x.up /\ z.deadline = x.deadline
        /\ z.reader = x.reader /\ z.read = x.read
        /\ DOMAIN z = SessionFields
    BY <2>2 DEF SessionFields, Same
  <2>4. CASE ~z.running
    <3>1. y = z
      BY <2>4 DEF S!Stop
    <3>2. Answers(z) /\ Reading(z)
      BY <2>3 DEF Core, Answers, Reading
    <3> QED  BY <2>1, <2>2, <2>3, <2>4, <3>1, <3>2, ZenonT(30) DEF ServerInv, Core
  <2>5. CASE z.running
    <3>1. /\ y.running = FALSE /\ y.readFlag = FALSE /\ y.connectFlag = FALSE
          /\ y.read = (IF z.read = "pending" THEN "error" ELSE z.read)
          /\ Same(z, y, {"running", "readFlag", "connectFlag", "read"})
      BY <2>3, <2>5, Stopped, Zenon
    <3> HIDE DEF y
    <3>2. /\ y.inTable = z.inTable /\ y.protoDone = z.protoDone /\ y.hsDone = z.hsDone
          /\ y.fired = z.fired /\ y.stacked = z.stacked /\ y.requests = z.requests
          /\ y.sent = z.sent /\ y.up = z.up /\ y.deadline = z.deadline
          /\ y.reader = z.reader /\ DOMAIN y = SessionFields
      BY <3>1 DEF SessionFields, Same
    <3>3. Answers(y) /\ Reading(y)
      BY <2>3, <3>1, <3>2 DEF Core, Answers, Reading
    <3> QED  BY <2>1, <2>2, <2>3, <3>1, <3>2, <3>3, ZenonT(30) DEF ServerInv, Core
  <2> QED  BY <2>3, <2>4, <2>5 DEF Core
<1> QED  BY <1>1, <1>2

(* A failure reply, then close_connection. *)
LEMMA FailKeeps ==
    ASSUME NEW x, ServerInv(x), x.running => x.protoDone /\ ~x.hsDone, NEW code \in Nat
    PROVE  ServerInv(S!Fail(x, code))
<1>1. S!Reply(code, <<>>, 0) \in Message /\ S!Reply(code, <<>>, 0) \notin S!Acks
  <2>1. <<>> \in Message
    BY SMTT(20) DEF Message
  <2> QED  BY <2>1, ReplyIsNoAck
<1> QED  BY <1>1, SendReply, CloseKeeps DEF S!Fail

(* Fields that no flag is about. *)
DataFields == {"inq", "data", "accum", "fin", "initial", "dest", "target"}

(* An update of those fields alone keeps the invariant. *)
LEMMA DataKeeps ==
    ASSUME NEW x, NEW y, ServerInv(x), Same(x, y, DataFields)
    PROVE  ServerInv(y)
<1>1. /\ y.running = x.running /\ y.inTable = x.inTable /\ y.protoDone = x.protoDone
      /\ y.hsDone = x.hsDone /\ y.readFlag = x.readFlag /\ y.connectFlag = x.connectFlag
      /\ y.fired = x.fired /\ y.stacked = x.stacked /\ y.requests = x.requests
      /\ y.up = x.up /\ y.deadline = x.deadline /\ y.reader = x.reader /\ y.read = x.read
      /\ y.sent = x.sent /\ DOMAIN y = SessionFields
  BY SMTT(20) DEF SessionFields, Same, DataFields
<1>2. Answers(y) /\ Reading(y) /\ (Replied(y) => Replied(x))
  BY <1>1, SMTT(20) DEF ServerInv, Core, Answers, Reading, Replied
<1> QED  BY <1>1, <1>2, SMTT(20) DEF ServerInv, Core

(* async_read_some, when no read is outstanding and the caller has set its     *)
(* flag.                                                                       *)
LEMMA AsyncReadKeeps ==
    ASSUME NEW x, ServerInv(x), NEW who \in {"hello", "request", "forward"},
           x.running => /\ x.read = "none"
                        /\ who = "hello" => ~x.protoDone /\ x.readFlag
                        /\ who = "request" => x.protoDone /\ x.requests = 0 /\ x.readFlag
                        /\ who = "forward" => x.hsDone
    PROVE  ServerInv(S!AsyncReadSome(x, who))
<1> DEFINE y == S!AsyncReadSome(x, who)
<1>0. DOMAIN x = SessionFields /\ x.running \in BOOLEAN
  BY SMTT(20) DEF ServerInv, Core
<1>1. CASE ~x.running
  <2>1. \/ y = [x EXCEPT !.reader = who, !.read = "error"]
        \/ y = [x EXCEPT !.readFlag = FALSE]
    BY <1>1 DEF S!AsyncReadSome
  <2>2. /\ Same(x, y, {"reader", "read", "readFlag"})
        /\ y.readFlag \in BOOLEAN
        /\ y.read \in {"pending", "data"} => y.read = x.read /\ y.reader = x.reader
    BY <1>0, <2>1, ZenonT(30) DEF SessionFields, Same, ServerInv, Core
  <2> HIDE DEF y
  <2>3. /\ y.running = x.running /\ y.inTable = x.inTable /\ y.protoDone = x.protoDone
        /\ y.hsDone = x.hsDone /\ y.connectFlag = x.connectFlag
        /\ y.fired = x.fired /\ y.stacked = x.stacked /\ y.requests = x.requests
        /\ y.up = x.up /\ y.deadline = x.deadline /\ y.sent = x.sent /\ DOMAIN y = SessionFields
    BY <2>2, SMTT(20) DEF SessionFields, Same
  <2>4. Answers(y) /\ Reading(y)
    BY <1>1, <2>2, <2>3, ZenonT(30) DEF ServerInv, Core, Answers, Reading
  <2> QED  BY <1>1, <2>2, <2>3, <2>4, ZenonT(30) DEF ServerInv, Core, y
<1>2. CASE x.running
  <2> DEFINE z == [x EXCEPT !.reader = who, !.read = "pending"]
  <2>1. y = S!TryFulfillRead(z)
    BY <1>2, Zenon DEF S!AsyncReadSome
  <2>2. z.reader = who /\ z.read = "pending" /\ Same(x, z, {"reader", "read"})
    BY <1>0, ZenonT(30) DEF SessionFields, Same
  <2> HIDE DEF z
  <2>3. y = z \/ y = [z EXCEPT !.read = "data", !.data = Head(z.inq), !.inq = Tail(z.inq)]
    BY <2>1, ZenonT(30) DEF S!TryFulfillRead
  <2>4. /\ y.reader = who /\ y.read \in {"pending", "data"}
        /\ Same(x, y, {"reader", "read", "data", "inq"})
    <3>1. CASE y = z
      BY <2>2, <3>1, SMTT(20) DEF Same
    <3>2. CASE y = [z EXCEPT !.read = "data", !.data = Head(z.inq), !.inq = Tail(z.inq)]
      <4>1. y.reader = who /\ y.read = "data" /\ Same(z, y, {"read", "data", "inq"})
        BY <2>2, <3>2, ZenonT(30) DEF SessionFields, Same
      <4>2. Same(x, y, {"reader", "read"} \cup {"read", "data", "inq"})
        BY <2>2, <4>1, SameTransitive
      <4> QED  BY <4>1, <4>2, SMTT(20) DEF Same
    <3> QED  BY <2>3, <3>1, <3>2, SMTT(20)
  <2> HIDE DEF y
  <2>5. /\ y.running = x.running /\ y.inTable = x.inTable /\ y.protoDone = x.protoDone
        /\ y.hsDone = x.hsDone /\ y.readFlag = x.readFlag /\ y.connectFlag = x.connectFlag
        /\ y.fired = x.fired /\ y.stacked = x.stacked /\ y.requests = x.requests
        /\ y.up = x.up /\ y.deadline = x.deadline /\ y.sent = x.sent /\ DOMAIN y = SessionFields
    BY <2>4, SMTT(20) DEF SessionFields, Same
  <2>6. Answers(y) /\ Reading(y) /\ (Replied(y) => Replied(x))
    BY <1>2, <2>4, <2>5, ZenonT(30) DEF ServerInv, Core, Answers, Reading, Replied
  <2> QED  BY <2>5, <2>6, ZenonT(30) DEF ServerInv, Core, y
<1> QED  BY <1>0, <1>1, <1>2, SMTT(20)

(* try_fulfill_read. *)
LEMMA TryFulfillKeeps ==
    ASSUME NEW x, ServerInv(x)
    PROVE  ServerInv(S!TryFulfillRead(x))
<1> DEFINE y == S!TryFulfillRead(x)
<1>1. CASE x.read # "pending" \/ x.inq = <<>>
  BY <1>1 DEF S!TryFulfillRead
<1>2. CASE x.read = "pending" /\ x.inq # <<>>
  <2>1. y = [x EXCEPT !.read = "data", !.data = Head(x.inq), !.inq = Tail(x.inq)]
        /\ DOMAIN x = SessionFields
    BY <1>2 DEF S!TryFulfillRead, ServerInv, Core
  <2>2. y.read = "data" /\ Same(x, y, {"read", "data", "inq"})
    BY <2>1, ZenonT(30) DEF SessionFields, Same
  <2> HIDE DEF y
  <2>3. /\ y.running = x.running /\ y.inTable = x.inTable /\ y.protoDone = x.protoDone
        /\ y.hsDone = x.hsDone /\ y.readFlag = x.readFlag /\ y.connectFlag = x.connectFlag
        /\ y.fired = x.fired /\ y.stacked = x.stacked /\ y.requests = x.requests
        /\ y.up = x.up /\ y.deadline = x.deadline /\ y.sent = x.sent /\ y.reader = x.reader
        /\ DOMAIN y = SessionFields
    BY <2>2, SMTT(20) DEF SessionFields, Same
  <2>4. Answers(y) /\ Reading(y) /\ (Replied(y) => Replied(x))
    BY <1>2, <2>2, <2>3, ZenonT(30) DEF ServerInv, Core, Answers, Reading, Replied
  <2> QED  BY <2>3, <2>4, ZenonT(30) DEF ServerInv, Core, y
<1> QED  BY <1>1, <1>2

(* forward_kcp_to_tcp. *)
LEMMA ForwardKeeps ==
    ASSUME NEW x, ServerInv(x)
    PROVE  ServerInv(S!ForwardKcpToTcp(x))
<1>1. CASE x.running /\ x.inTable /\ x.up = "forwarding" /\ x.reader # "forward"
  <2>1. x.hsDone /\ x.protoDone /\ x.requests # 0
    BY <1>1, SMTT(20) DEF ServerInv, Core
  <2>2. x.read = "none"
    BY <1>1, <2>1, SMTT(20) DEF ServerInv, Core, Reading
  <2> QED  BY <1>1, <2>1, <2>2, AsyncReadKeeps, SMTT(20) DEF S!ForwardKcpToTcp
<1>2. CASE ~(x.running /\ x.inTable /\ x.up = "forwarding" /\ x.reader # "forward")
  BY <1>2 DEF S!ForwardKcpToTcp
<1> QED  BY <1>1, <1>2

(* start_forwarding. *)
LEMMA StartForwardingKeeps ==
    ASSUME NEW x, ServerInv(x), x.hsDone
    PROVE  ServerInv(S!StartForwarding(x))
<1>1. ASSUME NEW v \in {"forwarding", "over"} PROVE ServerInv([x EXCEPT !.up = v])
  <2> DEFINE y == [x EXCEPT !.up = v]
  <2>1. y.up = v /\ Same(x, y, {"up"})
    BY DEF SessionFields, Same, ServerInv, Core
  <2> HIDE DEF y
  <2>2. /\ y.running = x.running /\ y.inTable = x.inTable /\ y.protoDone = x.protoDone
        /\ y.hsDone = x.hsDone /\ y.readFlag = x.readFlag /\ y.connectFlag = x.connectFlag
        /\ y.fired = x.fired /\ y.stacked = x.stacked /\ y.requests = x.requests
        /\ y.deadline = x.deadline /\ y.sent = x.sent /\ y.reader = x.reader /\ y.read = x.read
        /\ DOMAIN y = SessionFields
    BY <2>1, ZenonT(30) DEF SessionFields, Same
  <2>3. Answers(y) /\ Reading(y) /\ (Replied(y) => Replied(x))
    BY <2>2, ZenonT(30) DEF ServerInv, Core, Answers, Reading, Replied
  <2> QED  BY <2>2, <2>3, ZenonT(30) DEF ServerInv, Core, y
<1> QED  BY <1>1, ForwardKeeps DEF S!StartForwarding

(* A count of one. *)
LEMMA OneOfTwo == \A r : r = 1 => r # 0 /\ r \in {0, 1}
OBVIOUS

(* handle_connect_command, on the first request. *)
LEMMA ConnectKeeps ==
    ASSUME NEW x, ServerInv(x), x.protoDone, x.requests = 0, x.read = "none",
           NEW z \in S!ConnectCommands(x)
    PROVE  ServerInv(z)
<1> DEFINE y == [x EXCEPT !.connectFlag = TRUE, !.initial = S!Trailing(x.accum),
                          !.dest = S!Address(x.accum), !.requests = x.requests + 1]
           resolve == [y EXCEPT !.up = "resolving", !.deadline = "armed"]
           over == [y EXCEPT !.up = "over", !.fired = TRUE]
<1>1. z = resolve \/ z = S!Fail(over, S!NOT_ALLOWED)
  BY ZenonT(30) DEF S!ConnectCommands
<1>2. /\ y.connectFlag = TRUE /\ y.requests = 1
      /\ Same(x, y, {"connectFlag", "initial", "dest", "requests"})
  <2>1. DOMAIN x = SessionFields
    BY DEF ServerInv, Core
  <2>2. y.connectFlag = TRUE /\ y.requests = x.requests + 1
    BY <2>1 DEF SessionFields
  <2>3. Same(x, y, {"connectFlag", "initial", "dest", "requests"})
    BY <2>1, ZenonT(30) DEF SessionFields, Same
  <2> QED  BY <2>2, <2>3, SMTT(20)
<1> HIDE DEF y
<1>3. /\ y.running = x.running /\ y.inTable = x.inTable /\ y.protoDone = x.protoDone
      /\ y.hsDone = x.hsDone /\ y.readFlag = x.readFlag /\ y.fired = x.fired
      /\ y.stacked = x.stacked /\ y.sent = x.sent /\ y.reader = x.reader /\ y.read = x.read
      /\ DOMAIN y = SessionFields
  BY <1>2, ZenonT(30) DEF SessionFields, Same
<1>4. ASSUME NEW w, Same(y, w, {"up", "deadline", "fired"}), w.up \in {"resolving", "over"},
             w.fired \in BOOLEAN, y.fired => w.fired
      PROVE  ServerInv(w) /\ w.protoDone /\ ~w.hsDone
  <2>1. /\ w.running = x.running /\ w.inTable = x.inTable /\ w.protoDone = x.protoDone
        /\ w.hsDone = x.hsDone /\ w.readFlag = x.readFlag /\ w.connectFlag = TRUE
        /\ w.stacked = x.stacked /\ w.requests = 1
        /\ w.sent = x.sent /\ w.reader = x.reader /\ w.read = x.read /\ DOMAIN w = SessionFields
    <3>1. /\ w.running = y.running /\ w.inTable = y.inTable /\ w.protoDone = y.protoDone
          /\ w.hsDone = y.hsDone /\ w.readFlag = y.readFlag /\ w.connectFlag = y.connectFlag
          /\ w.stacked = y.stacked /\ w.requests = y.requests /\ w.sent = y.sent
          /\ w.reader = y.reader /\ w.read = y.read /\ DOMAIN w = SessionFields
      BY <1>4, SMTT(20) DEF SessionFields, Same
    <3> QED  BY <1>2, <1>3, <3>1, ZenonT(30)
  <2>2. Answers(w) /\ Reading(w) /\ (Replied(w) => Replied(x))
    BY <2>1, SMTT(20) DEF ServerInv, Core, Answers, Reading, Replied
  <2>3. /\ x.running \in BOOLEAN /\ x.inTable \in BOOLEAN /\ x.readFlag \in BOOLEAN
        /\ ~x.stacked /\ (x.running => x.inTable)
        /\ x.protoDone \in BOOLEAN /\ x.hsDone \in BOOLEAN /\ ~x.hsDone
        /\ (x.running /\ Replied(x) => x.hsDone)
    BY Zenon DEF ServerInv, Core
  <2>4. w.requests # 0 /\ w.requests \in {0, 1} /\ w.connectFlag \in BOOLEAN /\ w.connectFlag
    <3>1. w.requests = 1 /\ w.connectFlag = TRUE
      BY <2>1, ZenonT(30)
    <3> QED  BY <3>1, OneOfTwo, Zenon
  <2>5. w.up \notin {"writing", "forwarding"} /\ ~w.hsDone /\ w.protoDone
    BY <1>4, <2>1, <2>3, SMTT(20)
  <2>6. Core(w)
    BY <1>4, <2>1, <2>2, <2>3, <2>4, <2>5, ZenonT(30) DEF Core
  <2> QED  BY <2>1, <2>2, <2>3, <2>5, <2>6, Zenon DEF ServerInv
<1>5. ServerInv(resolve)
  <2>1. /\ resolve.up = "resolving" /\ resolve.fired = y.fired
        /\ Same(y, resolve, {"up", "deadline", "fired"})
    BY <1>3, ZenonT(30) DEF SessionFields, Same
  <2>2. y.fired \in BOOLEAN
    BY <1>3, ZenonT(30) DEF ServerInv, Core
  <2> QED  BY <1>4, <2>1, <2>2, ZenonT(30)
<1>6. ServerInv(over) /\ over.protoDone /\ ~over.hsDone
  <2>1. /\ over.up = "over" /\ over.fired = TRUE /\ Same(y, over, {"up", "deadline", "fired"})
    BY <1>3, ZenonT(30) DEF SessionFields, Same
  <2> QED  BY <1>4, <2>1, ZenonT(30)
<1>7. S!NOT_ALLOWED \in Nat
  BY AcksAndCodes, ZenonT(30)
<1> QED  BY <1>1, <1>5, <1>6, <1>7, FailKeeps, ZenonT(30)

(* read_more_socks5.  A stopped session may be handed its last message. *)
LEMMA ReadMoreKeeps ==
    ASSUME NEW x, ServerInv(x), x.protoDone, ~x.hsDone,
           x.running => x.read = "none" /\ x.requests = 0,
           S!Status(x.accum) # "NeedMore" => x.read = "none" /\ x.requests = 0,
           NEW z \in S!ReadMoreSocks5(x)
    PROVE  ServerInv(z)
<1> DEFINE status == S!Status(x.accum)
           y == [x EXCEPT !.readFlag = FALSE]
           w == [x EXCEPT !.readFlag = TRUE]
<1>1. status \in {"NeedMore", "Invalid", "BadAddressType", "Complete"}
  BY SameParser, StatusValues
<1>2. ASSUME NEW v \in BOOLEAN, v \/ ~x.running \/ x.read = "none"
      PROVE  /\ ServerInv([x EXCEPT !.readFlag = v])
             /\ [x EXCEPT !.readFlag = v].readFlag = v
             /\ Same(x, [x EXCEPT !.readFlag = v], {"readFlag"})
  <2> DEFINE u == [x EXCEPT !.readFlag = v]
  <2>1. u.readFlag = v /\ Same(x, u, {"readFlag"})
    BY DEF SessionFields, Same, ServerInv, Core
  <2> HIDE DEF u
  <2>2. /\ u.running = x.running /\ u.inTable = x.inTable /\ u.protoDone = x.protoDone
        /\ u.hsDone = x.hsDone /\ u.connectFlag = x.connectFlag /\ u.up = x.up
        /\ u.fired = x.fired /\ u.stacked = x.stacked /\ u.requests = x.requests
        /\ u.deadline = x.deadline /\ u.sent = x.sent /\ u.reader = x.reader /\ u.read = x.read
        /\ DOMAIN u = SessionFields
    BY <2>1, ZenonT(30) DEF SessionFields, Same
  <2>3. Answers(u) /\ Reading(u) /\ (Replied(u) => Replied(x))
    BY <1>2, <2>1, <2>2, SMTT(20) DEF ServerInv, Core, Answers, Reading, Replied
  <2>4. ServerInv(u)
    BY <2>1, <2>2, <2>3, ZenonT(30) DEF ServerInv, Core
  <2> QED  BY <2>1, <2>4, SMTT(20) DEF u
<1>3. CASE status = "NeedMore"
  <2>1. z = S!AsyncReadSome(w, "request")
    BY <1>3 DEF S!ReadMoreSocks5
  <2>2. ServerInv(w) /\ w.readFlag = TRUE /\ Same(x, w, {"readFlag"})
    BY <1>2, ZenonT(30)
  <2> HIDE DEF w
  <2>3. /\ w.running = x.running /\ w.read = x.read /\ w.protoDone = x.protoDone
        /\ w.requests = x.requests
    BY <2>2, ZenonT(30) DEF SessionFields, Same
  <2> QED  BY <2>1, <2>2, <2>3, AsyncReadKeeps, ZenonT(30)
<1>4. ServerInv(y) /\ y.accum = x.accum /\ y.protoDone /\ ~y.hsDone /\ y.requests = x.requests
      /\ y.read = x.read
  <2>1. ServerInv(y) /\ Same(x, y, {"readFlag"})
    BY <1>2, ZenonT(30)
  <2> HIDE DEF y
  <2> QED  BY <2>1 DEF SessionFields, Same
<1> HIDE DEF y
<1>5. ASSUME NEW code \in Nat PROVE ServerInv(S!Fail(y, code))
  BY <1>4, FailKeeps
<1>6. CASE status # "NeedMore"
  <2>1. \/ z = S!Fail(y, S!GENERAL_FAILURE) \/ z = S!Fail(y, S!ADDRESS_TYPE_NOT_SUPPORTED)
        \/ z = S!Fail(y, S!COMMAND_NOT_SUPPORTED) \/ z \in S!ConnectCommands(y)
    BY <1>1, <1>6 DEF S!ReadMoreSocks5, y
  <2>2. /\ S!GENERAL_FAILURE \in Nat /\ S!ADDRESS_TYPE_NOT_SUPPORTED \in Nat
        /\ S!COMMAND_NOT_SUPPORTED \in Nat
    BY AcksAndCodes, ZenonT(30)
  <2>3. z \in S!ConnectCommands(y) => ServerInv(z)
    BY <1>4, <1>6, ConnectKeeps, SMTT(20)
  <2> QED  BY <1>5, <2>1, <2>2, <2>3, ZenonT(30)
<1> QED  BY <1>3, <1>6, SMTT(20)

(* handle_kcp_data. *)
LEMMA HandleDataKeeps ==
    ASSUME NEW x, ServerInv(x), NEW z \in S!HandleKcpData(x)
    PROVE  ServerInv(z)
<1>1. CASE ~x.protoDone /\ z # x
  <2> DEFINE w == [x EXCEPT !.readFlag = TRUE]
  <2>1. ~x.readFlag /\ z = S!AsyncReadSome(w, "hello")
    BY <1>1, Zenon DEF S!HandleKcpData
  <2>2. w.readFlag = TRUE /\ Same(x, w, {"readFlag"})
    BY DEF SessionFields, Same, ServerInv, Core
  <2> HIDE DEF w
  <2>3. /\ w.running = x.running /\ w.inTable = x.inTable /\ w.protoDone = x.protoDone
        /\ w.hsDone = x.hsDone /\ w.connectFlag = x.connectFlag /\ w.up = x.up
        /\ w.fired = x.fired /\ w.stacked = x.stacked /\ w.requests = x.requests
        /\ w.deadline = x.deadline /\ w.sent = x.sent /\ w.reader = x.reader /\ w.read = x.read
        /\ DOMAIN w = SessionFields
    BY <2>2, SMTT(20) DEF SessionFields, Same
  <2>4. Answers(w) /\ Reading(w) /\ (Replied(w) => Replied(x))
    BY <2>2, <2>3, ZenonT(30) DEF ServerInv, Core, Answers, Reading, Replied
  <2>5. ServerInv(w)
    BY <2>2, <2>3, <2>4, ZenonT(30) DEF ServerInv, Core
  <2>6. x.running => x.read = "none"
    BY <1>1, <2>1 DEF ServerInv, Core, Reading
  <2> QED  BY <1>1, <2>1, <2>2, <2>3, <2>5, <2>6, AsyncReadKeeps, SMTT(20)
<1>2. CASE x.protoDone /\ ~x.hsDone /\ z # x
  <2> DEFINE w == [x EXCEPT !.accum = <<>>]
  <2>1. ~x.readFlag /\ ~x.connectFlag /\ z \in S!ReadMoreSocks5(w)
    BY <1>2, Zenon DEF S!HandleKcpData
  <2>2. w.accum = <<>> /\ Same(x, w, DataFields)
    BY DEF SessionFields, DataFields, Same, ServerInv, Core
  <2> HIDE DEF w
  <2>3. ServerInv(w)
    BY <2>2, DataKeeps
  <2>4. /\ w.running = x.running /\ w.read = x.read /\ w.protoDone = x.protoDone
        /\ w.hsDone = x.hsDone /\ w.requests = x.requests
    BY <2>2 DEF SessionFields, DataFields, Same
  <2>5. x.running => x.read = "none" /\ x.requests = 0
    BY <1>2, <2>1 DEF ServerInv, Core, Reading
  <2>6. S!Status(w.accum) = "NeedMore"
    BY <2>2, SameParser, StatusValues
  <2> QED  BY <1>2, <2>1, <2>3, <2>4, <2>5, <2>6, ReadMoreKeeps, Zenon
<1>3. CASE x.protoDone /\ x.hsDone /\ z # x
  BY <1>3, ForwardKeeps DEF S!HandleKcpData
<1> QED  BY <1>1, <1>2, <1>3, SMTT(20)

-----------------------------------------------------------------------------
(* The handlers of the server. *)

(* on_receive and the dispatcher. *)
LEMMA ArrivesKeeps == ServerInv(s) /\ S!Arrives => ServerInv(s')
<1> SUFFICES ASSUME ServerInv(s), S!Arrives PROVE ServerInv(s')
  OBVIOUS
<1> DEFINE x == [s EXCEPT !.inq = Append(s.inq, Head(toServer))]
           y == IF s.running THEN S!TryFulfillRead(x) ELSE s
<1>1. s' \in S!HandleKcpData(y)
  BY Zenon DEF S!Arrives
<1>2. Same(s, x, DataFields)
  BY DEF SessionFields, DataFields, Same, ServerInv, Core
<1> HIDE DEF x
<1>3. ServerInv(y)
  BY <1>2, DataKeeps, TryFulfillKeeps
<1> HIDE DEF y
<1> QED  BY <1>1, <1>3, HandleDataKeeps

(* The completed read is taken from the session. *)
LEMMA Consumed ==
    ASSUME NEW x, NEW y, ServerInv(x), Same(x, y, {"reader", "read", "data", "readFlag"}),
           y.read = "none", y.readFlag \in BOOLEAN
    PROVE  /\ ServerInv(y) /\ y.running = x.running /\ y.protoDone = x.protoDone
           /\ y.hsDone = x.hsDone /\ y.requests = x.requests
<1>1. /\ y.running = x.running /\ y.inTable = x.inTable /\ y.protoDone = x.protoDone
      /\ y.hsDone = x.hsDone /\ y.connectFlag = x.connectFlag /\ y.up = x.up
      /\ y.fired = x.fired /\ y.stacked = x.stacked /\ y.requests = x.requests
      /\ y.deadline = x.deadline /\ y.sent = x.sent /\ DOMAIN y = SessionFields
  BY SMTT(20) DEF SessionFields, Same
<1>2. Answers(y) /\ Reading(y) /\ (Replied(y) => Replied(x))
  BY <1>1, SMTT(20) DEF ServerInv, Core, Answers, Reading, Replied
<1>3. ServerInv(y)
  BY <1>1, <1>2, SMTT(20) DEF ServerInv, Core
<1> QED  BY <1>1, <1>3

(* The first read decides the protocol. *)
LEMMA ProtocolKeeps ==
    ASSUME NEW x, NEW y, ServerInv(x), Same(x, y, DataFields \cup {"protoDone"}),
           y.protoDone = TRUE, x.read = "none"
    PROVE  /\ ServerInv(y) /\ y.running = x.running /\ y.read = "none"
           /\ y.hsDone = x.hsDone /\ y.requests = x.requests /\ y.sent = x.sent
<1>1. /\ y.running = x.running /\ y.inTable = x.inTable /\ y.readFlag = x.readFlag
      /\ y.hsDone = x.hsDone /\ y.connectFlag = x.connectFlag /\ y.up = x.up
      /\ y.fired = x.fired /\ y.stacked = x.stacked /\ y.requests = x.requests
      /\ y.deadline = x.deadline /\ y.sent = x.sent /\ y.reader = x.reader /\ y.read = x.read
      /\ DOMAIN y = SessionFields
  BY SMTT(20) DEF SessionFields, Same, DataFields
<1>2. Answers(y) /\ Reading(y) /\ (Replied(y) => Replied(x))
  BY <1>1, Zenon DEF ServerInv, Core, Answers, Reading, Replied
<1>3. ServerInv(y)
  BY <1>1, <1>2, ZenonT(30) DEF ServerInv, Core
<1> QED  BY <1>1, <1>3, SMTT(20)

(* A sequence of one element. *)
LEMMA OneElement ==
    ASSUME NEW D, NEW e \in D
    PROVE  Append(<<>>, e) \in Seq(D) /\ Len(Append(<<>>, e)) = 1 /\ Append(<<>>, e)[1] = e
BY SMTT(20)

(* The acknowledgement is the first thing sent. *)
LEMMA SendAck ==
    ASSUME NEW x, ServerInv(x), x.sent = <<>>, x.protoDone,
           NEW m \in S!Acks
    PROVE  ServerInv(S!SendData(x, m))
<1> DEFINE y == S!SendData(x, m)
<1>1. CASE ~x.running
  BY <1>1, SMTT(20) DEF S!SendData
<1>2. CASE x.running
  <2>1. y = [x EXCEPT !.sent = Append(x.sent, m)] /\ DOMAIN x = SessionFields
    BY <1>2 DEF S!SendData, ServerInv, Core
  <2>2. y.sent = Append(x.sent, m) /\ Same(x, y, {"sent"})
    BY <2>1 DEF SessionFields, Same
  <2> HIDE DEF y
  <2>3. m \in Message
    BY AcksAndCodes, ZenonT(30)
  <2>4. y.sent \in Seq(Message) /\ Len(y.sent) = 1 /\ y.sent[1] = m
    <3>1. y.sent = Append(<<>>, m)
      BY <2>2, Zenon
    <3> QED  BY <2>3, <3>1, OneElement, ZenonT(30)
  <2>5. /\ y.running = x.running /\ y.inTable = x.inTable /\ y.protoDone = x.protoDone
        /\ y.hsDone = x.hsDone /\ y.readFlag = x.readFlag /\ y.connectFlag = x.connectFlag
        /\ y.fired = x.fired /\ y.stacked = x.stacked /\ y.requests = x.requests
        /\ y.up = x.up /\ y.deadline = x.deadline /\ y.reader = x.reader /\ y.read = x.read
        /\ DOMAIN y = SessionFields
    BY <2>2, ZenonT(30) DEF SessionFields, Same
  <2>6. Answers(y) /\ ~Replied(y)
    <3>1. \A i \in 1 .. Len(y.sent) : i = 1 /\ y.sent[i] = m
      BY <2>4, SMTT(20)
    <3>2. \A i \in 1 .. Len(y.sent) : i = 1 /\ y.sent[i] \in S!Acks
      BY <3>1, ZenonT(30)
    <3> QED  BY <2>4, <3>2, ZenonT(30) DEF Answers, Replied
  <2>7. Reading(y)
    BY <2>5, SMTT(20) DEF ServerInv, Core, Reading
  <2> QED  BY <2>5, <2>6, <2>7, ZenonT(30) DEF ServerInv, Core, y
<1> QED  BY <1>1, <1>2, SMTT(20)

(* The completion of the first read. *)
LEMMA HelloReadKeeps == ServerInv(s) /\ S!HelloRead => ServerInv(s')
<1> SUFFICES ASSUME ServerInv(s), S!HelloRead PROVE ServerInv(s')
  OBVIOUS
<1> DEFINE x == [s EXCEPT !.reader = "none", !.read = "none", !.data = <<>>, !.readFlag = FALSE]
           ack == IF s.data = S!HelloV2 THEN S!HelloAckV2 ELSE S!HelloAck
           y == [x EXCEPT !.protoDone = TRUE, !.fin = s.data = S!HelloV2]
           z == [x EXCEPT !.protoDone = TRUE, !.accum = s.data]
<1>1. DOMAIN s = SessionFields
  BY ZenonT(30) DEF ServerInv, Core
<1>2. /\ Same(s, x, {"reader", "read", "data", "readFlag"})
      /\ x.read = "none" /\ x.readFlag = FALSE
  BY <1>1, ZenonT(30) DEF SessionFields, Same
<1>3. /\ s.reader = "hello" /\ s.read \in {"data", "error"}
      /\ \/ s.read = "error" /\ s' = S!CloseConnection(x)
         \/ s.read = "data" /\ s' \in S!HandleKcpData(S!SendData(y, ack))
         \/ s.read = "data" /\ s' \in S!ReadMoreSocks5(z)
  BY ZenonT(30) DEF S!HelloRead
<1> HIDE DEF x
<1>4. /\ ServerInv(x) /\ x.running = s.running /\ x.protoDone = s.protoDone
      /\ x.hsDone = s.hsDone /\ x.requests = s.requests /\ x.sent = s.sent
  <2>1. x.sent = s.sent
    BY <1>2, SMTT(20) DEF SessionFields, Same
  <2>2. x.readFlag \in BOOLEAN
    BY <1>2, ZenonT(30)
  <2> QED  BY <1>2, <2>1, <2>2, Consumed, SMTT(20)
<1>5. CASE s.read = "error" /\ s' = S!CloseConnection(x)
  BY <1>4, <1>5, CloseKeeps, SMTT(20) DEF ServerInv
<1>6. ASSUME s.read = "data" PROVE s.requests = 0 /\ ~s.hsDone /\ s.sent = <<>>
  BY <1>3, <1>6, SMTT(20) DEF ServerInv, Core, Reading
<1>7. CASE s.read = "data" /\ s' \in S!HandleKcpData(S!SendData(y, ack))
  <2>1. y.protoDone = TRUE /\ Same(x, y, DataFields \cup {"protoDone"})
    BY <1>4, ZenonT(30) DEF SessionFields, Same, DataFields, ServerInv, Core
  <2> HIDE DEF y
  <2>2. ServerInv(y) /\ y.sent = <<>> /\ y.protoDone
    BY <1>2, <1>4, <1>6, <1>7, <2>1, ProtocolKeeps, ZenonT(30)
  <2>3. ack \in S!Acks
    BY DEF S!Acks
  <2> QED  BY <1>7, <2>2, <2>3, SendAck, HandleDataKeeps, SMTT(20)
<1>8. CASE s.read = "data" /\ s' \in S!ReadMoreSocks5(z)
  <2>1. z.protoDone = TRUE /\ Same(x, z, DataFields \cup {"protoDone"})
    BY <1>4, ZenonT(30) DEF SessionFields, Same, DataFields, ServerInv, Core
  <2> HIDE DEF z
  <2>2. ServerInv(z) /\ z.read = "none" /\ z.requests = 0 /\ ~z.hsDone /\ z.protoDone
    BY <1>2, <1>4, <1>6, <1>8, <2>1, ProtocolKeeps, ZenonT(30)
  <2> QED  BY <1>8, <2>2, ReadMoreKeeps, SMTT(20)
<1> QED  BY <1>3, <1>5, <1>7, <1>8

(* The completion of a read for the request. *)
LEMMA RequestReadKeeps == ServerInv(s) /\ S!RequestRead => ServerInv(s')
<1> SUFFICES ASSUME ServerInv(s), S!RequestRead PROVE ServerInv(s')
  OBVIOUS
<1> DEFINE x == [s EXCEPT !.reader = "none", !.read = "none", !.data = <<>>]
           a == s.accum \o s.data
           y == [x EXCEPT !.readFlag = FALSE]
           z == [x EXCEPT !.accum = a]
<1>1. DOMAIN s = SessionFields /\ s.readFlag \in BOOLEAN
  BY Zenon DEF ServerInv, Core
<1>2. /\ Same(s, x, {"reader", "read", "data", "readFlag"})
      /\ x.read = "none" /\ x.readFlag = s.readFlag
  BY <1>1, ZenonT(30) DEF SessionFields, Same
<1>3. /\ s.reader = "request" /\ s.read \in {"data", "error"}
      /\ \/ s' = S!Fail(y, S!GENERAL_FAILURE)
         \/ s.read = "data" /\ s' \in S!ReadMoreSocks5(z)
  BY ZenonT(30) DEF S!RequestRead
<1> HIDE DEF x
<1>4. /\ s.running => s.read = "data"
      /\ s.read = "data" => s.requests = 0 /\ ~s.hsDone /\ s.protoDone
  BY <1>3, SMTT(20) DEF ServerInv, Core, Reading
<1>5. CASE s' = S!Fail(y, S!GENERAL_FAILURE)
  <2>1. y.readFlag = FALSE /\ Same(s, y, {"reader", "read", "data", "readFlag"})
        /\ y.read = "none"
    BY <1>2, SMTT(20) DEF SessionFields, Same
  <2> HIDE DEF y
  <2>2. y.readFlag \in BOOLEAN
    BY <2>1, ZenonT(30)
  <2>3. /\ ServerInv(y) /\ y.running = s.running /\ y.protoDone = s.protoDone
        /\ y.hsDone = s.hsDone
    BY <2>1, <2>2, Consumed, SMTT(20)
  <2>4. S!GENERAL_FAILURE \in Nat
    BY AcksAndCodes, ZenonT(30)
  <2> QED  BY <1>4, <1>5, <2>3, <2>4, FailKeeps, SMTT(20)
<1>6. CASE s.read = "data" /\ s' \in S!ReadMoreSocks5(z)
  <2>1. /\ ServerInv(x) /\ x.running = s.running /\ x.protoDone = s.protoDone
        /\ x.hsDone = s.hsDone /\ x.requests = s.requests
    BY <1>1, <1>2, Consumed, SMTT(20)
  <2>2. Same(x, z, DataFields)
    BY <2>1, SMTT(20) DEF SessionFields, Same, DataFields, ServerInv, Core
  <2> HIDE DEF z
  <2>3. z.read = "none" /\ z.requests = 0 /\ ~z.hsDone /\ z.protoDone
    BY <1>2, <1>4, <1>6, <2>1, <2>2, ZenonT(30) DEF SessionFields, Same, DataFields
  <2> QED  BY <1>6, <2>1, <2>2, <2>3, DataKeeps, ReadMoreKeeps, SMTT(20)
<1> QED  BY <1>3, <1>5, <1>6

(* The completion of a read of the forwarding loop. *)
LEMMA ForwardReadKeeps == ServerInv(s) /\ S!ForwardRead => ServerInv(s')
<1> SUFFICES ASSUME ServerInv(s), S!ForwardRead PROVE ServerInv(s')
  OBVIOUS
<1> DEFINE x == [s EXCEPT !.reader = "none", !.read = "none", !.data = <<>>]
           y == [x EXCEPT !.target = x.target \o s.data]
<1>1. DOMAIN s = SessionFields /\ s.readFlag \in BOOLEAN
  BY Zenon DEF ServerInv, Core
<1>2. /\ Same(s, x, {"reader", "read", "data", "readFlag"})
      /\ x.read = "none" /\ x.readFlag = s.readFlag
  BY <1>1, Zenon DEF SessionFields, Same
<1>3. s' = S!CloseConnection(x) \/ s' = S!ForwardKcpToTcp(y)
  BY ZenonT(30) DEF S!ForwardRead
<1> HIDE DEF x
<1>4. ServerInv(x)
  BY <1>1, <1>2, Consumed, SMTT(20)
<1>5. Same(x, y, DataFields)
  BY <1>4, SMTT(20) DEF SessionFields, Same, DataFields, ServerInv, Core
<1> HIDE DEF y
<1>6. ServerInv(y)
  BY <1>4, <1>5, DataKeeps, SMTT(20)
<1>7. Core(x)
  BY <1>4, SMTT(20) DEF ServerInv
<1> QED  BY <1>3, <1>6, <1>7, CloseKeeps, ForwardKeeps, SMTT(20)

(* The connect deadline expires. *)
LEMMA DeadlineExpiresKeeps == ServerInv(s) /\ S!DeadlineExpires => ServerInv(s')
<1> SUFFICES ASSUME ServerInv(s), S!DeadlineExpires PROVE ServerInv(s')
  OBVIOUS
<1>1. s' = [s EXCEPT !.deadline = "expired"] /\ s.deadline = "armed" /\ DOMAIN s = SessionFields
  BY DEF S!DeadlineExpires, ServerInv, Core
<1>2. Same(s, s', {"deadline"})
  BY <1>1, SMTT(20) DEF SessionFields, Same
<1>3. /\ s'.running = s.running /\ s'.inTable = s.inTable /\ s'.protoDone = s.protoDone
      /\ s'.hsDone = s.hsDone /\ s'.readFlag = s.readFlag /\ s'.connectFlag = s.connectFlag
      /\ s'.fired = s.fired /\ s'.stacked = s.stacked /\ s'.requests = s.requests
      /\ s'.up = s.up /\ s'.sent = s.sent /\ s'.reader = s.reader /\ s'.read = s.read
      /\ DOMAIN s' = SessionFields
  BY <1>2, ZenonT(30) DEF SessionFields, Same
<1>4. Answers(s') /\ Reading(s') /\ (Replied(s') => Replied(s))
  BY <1>3, ZenonT(30) DEF ServerInv, Core, Answers, Reading, Replied
<1> QED  BY <1>1, <1>3, <1>4, SMTT(20) DEF ServerInv, Core

(* An attempt is decided, or given up: the flag, the deadline, the connection. *)
LEMMA DecideKeeps ==
    ASSUME NEW x, NEW y, ServerInv(x), Same(x, y, {"fired", "deadline", "up"}),
           x.requests # 0, y.fired \in BOOLEAN, x.fired => y.fired,
           y.up \in {x.up, "over", "connecting"}
    PROVE  /\ ServerInv(y) /\ y.running = x.running /\ y.protoDone = x.protoDone
           /\ y.hsDone = x.hsDone /\ y.requests = x.requests /\ x.protoDone
<1>1. /\ y.running = x.running /\ y.inTable = x.inTable /\ y.protoDone = x.protoDone
      /\ y.hsDone = x.hsDone /\ y.readFlag = x.readFlag /\ y.connectFlag = x.connectFlag
      /\ y.stacked = x.stacked /\ y.requests = x.requests
      /\ y.sent = x.sent /\ y.reader = x.reader /\ y.read = x.read
      /\ DOMAIN y = SessionFields
  BY ZenonT(30) DEF SessionFields, Same
<1>2. Answers(y) /\ Reading(y) /\ (Replied(y) => Replied(x))
  BY <1>1, ZenonT(30) DEF ServerInv, Core, Answers, Reading, Replied
<1>3. x.protoDone
  BY ZenonT(30) DEF ServerInv, Core
<1>4. y.up \in {"writing", "forwarding"} => y.up = x.up
  BY SMTT(20)
<1>5. ServerInv(y)
  BY <1>1, <1>2, <1>3, <1>4, ZenonT(30) DEF ServerInv, Core
<1> QED  BY <1>1, <1>3, <1>5, ZenonT(30)

(* The handler of the connect deadline. *)
LEMMA DeadlineKeeps == ServerInv(s) /\ S!Deadline => ServerInv(s')
<1> SUFFICES ASSUME ServerInv(s), S!Deadline PROVE ServerInv(s')
  OBVIOUS
<1> DEFINE x == [s EXCEPT !.deadline = "off"]
           y == [x EXCEPT !.fired = TRUE]
<1>1. /\ s.deadline = "expired"
      /\ s' = x \/ (~s.fired /\ s' = S!Fail(y, S!TTL_EXPIRED))
  BY ZenonT(30) DEF S!Deadline
<1>2. DOMAIN s = SessionFields /\ s.requests # 0 /\ s.fired \in BOOLEAN
      /\ (~s.fired => ~s.hsDone)
  BY <1>1, SMTT(20) DEF ServerInv, Core
<1>3. Same(s, x, {"fired", "deadline", "up"}) /\ x.fired = s.fired /\ x.up = s.up
  BY <1>2, SMTT(20) DEF SessionFields, Same
<1>4. Same(s, y, {"fired", "deadline", "up"}) /\ y.fired = TRUE /\ y.up = s.up
  BY <1>2, ZenonT(30) DEF SessionFields, Same
<1> HIDE DEF x, y
<1>5. ServerInv(x)
  BY <1>2, <1>3, DecideKeeps, SMTT(20)
<1>6. ServerInv(y) /\ y.protoDone /\ (~s.fired => ~y.hsDone)
  BY <1>2, <1>4, DecideKeeps, ZenonT(30)
<1>7. S!TTL_EXPIRED \in Nat
  BY AcksAndCodes, ZenonT(30)
<1> QED  BY <1>1, <1>5, <1>6, <1>7, FailKeeps, SMTT(20)

(* The state in which the outcome of an attempt is decided. *)
LEMMA Decided ==
    ASSUME ServerInv(s), s.up \in {"resolving", "connecting"}, ~s.fired
    PROVE  /\ ServerInv(S!Decide(s)) /\ S!Decide(s).protoDone /\ ~S!Decide(s).hsDone
           /\ S!Decide(s).requests # 0 /\ S!Decide(s).fired
           /\ \A code \in Nat : ServerInv(S!Fail([S!Decide(s) EXCEPT !.up = "over"], code))
<1> DEFINE x == S!Decide(s)
           y == [x EXCEPT !.up = "over"]
<1>1. DOMAIN s = SessionFields /\ s.requests # 0 /\ ~s.hsDone
  BY ZenonT(30) DEF ServerInv, Core
<1>2. Same(s, x, {"fired", "deadline", "up"}) /\ x.fired = TRUE /\ x.up = s.up
  BY <1>1, ZenonT(30) DEF SessionFields, Same, S!Decide
<1> HIDE DEF x
<1>3. Same(s, y, {"fired", "deadline", "up"}) /\ y.fired = TRUE /\ y.up = "over"
  BY <1>2, SMTT(20) DEF SessionFields, Same
<1> HIDE DEF y
<1>4. ServerInv(x) /\ x.protoDone /\ ~x.hsDone /\ x.requests # 0
  BY <1>1, <1>2, DecideKeeps, ZenonT(30)
<1>5. ServerInv(y) /\ y.protoDone /\ ~y.hsDone
  BY <1>1, <1>3, DecideKeeps, ZenonT(30)
<1>6. \A code \in Nat : ServerInv(S!Fail(y, code))
  BY <1>5, FailKeeps, SMTT(20)
<1> QED  BY <1>2, <1>4, <1>6, SMTT(20) DEF x, y

(* An attempt that was decided before is over. *)
LEMMA GivenUp ==
    ASSUME ServerInv(s), s.up \in {"resolving", "connecting"}, NEW v \in {"over", "connecting"}
    PROVE  ServerInv([s EXCEPT !.up = v])
<1> DEFINE y == [s EXCEPT !.up = v]
<1>1. DOMAIN s = SessionFields /\ s.requests # 0 /\ s.fired \in BOOLEAN
  BY ZenonT(30) DEF ServerInv, Core
<1>2. Same(s, y, {"fired", "deadline", "up"}) /\ y.fired = s.fired /\ y.up = v
  BY <1>1, SMTT(20) DEF SessionFields, Same
<1> HIDE DEF y
<1>3. ServerInv(y)
  BY <1>1, <1>2, DecideKeeps, ZenonT(30)
<1> QED  BY <1>3, SMTT(20) DEF y

(* The resolver answers. *)
LEMMA ResolvedKeeps ==
    ASSUME NEW outcome \in {"error", "restricted", "addresses"}, ServerInv(s), S!Resolved(outcome)
    PROVE  ServerInv(s')
<1>1. /\ s.up = "resolving"
      /\ \/ s' = [s EXCEPT !.up = "over"] \/ s' = [s EXCEPT !.up = "connecting"]
         \/ ~s.fired /\ s' = S!Fail([S!Decide(s) EXCEPT !.up = "over"], S!HOST_UNREACHABLE)
         \/ ~s.fired /\ s' = S!Fail([S!Decide(s) EXCEPT !.up = "over"], S!NOT_ALLOWED)
  <2>1. CASE outcome = "error"
    BY <2>1, ZenonT(30) DEF S!Resolved
  <2>2. CASE outcome = "restricted"
    BY <2>2, SMTT(20) DEF S!Resolved
  <2>3. CASE outcome = "addresses"
    BY <2>3, SMTT(20) DEF S!Resolved
  <2> QED  BY <2>1, <2>2, <2>3, SMTT(20)
<1>2. S!HOST_UNREACHABLE \in Nat /\ S!NOT_ALLOWED \in Nat
  BY AcksAndCodes, ZenonT(30)
<1>3. s.up \in {"resolving", "connecting"}
  BY <1>1, SMTT(20)
<1> QED  BY <1>1, <1>2, <1>3, Decided, GivenUp, ZenonT(30)

(* The success reply, and the handshake is done. *)
LEMMA SucceedKeeps ==
    ASSUME NEW x, ServerInv(x), x.protoDone, ~x.hsDone, x.requests # 0, x.fired,
           NEW m \in Message, m \notin S!Acks
    PROVE  LET y == [S!SendData(x, m) EXCEPT !.hsDone = TRUE, !.connectFlag = FALSE]
           IN  ServerInv(y) /\ y.hsDone
<1> DEFINE w == S!SendData(x, m)
           y == [w EXCEPT !.hsDone = TRUE, !.connectFlag = FALSE]
<1>1. Core(w) /\ Same(x, w, {"sent"})
  BY SendReply, SMTT(20)
<1>2. w.protoDone /\ w.requests # 0 /\ w.fired /\ DOMAIN w = SessionFields
  BY <1>1, ZenonT(30) DEF SessionFields, Same
<1> HIDE DEF w
<1>3. y.hsDone = TRUE /\ y.connectFlag = FALSE /\ Same(w, y, {"hsDone", "connectFlag"})
  BY <1>2, ZenonT(30) DEF SessionFields, Same
<1> HIDE DEF y
<1>4. /\ y.running = w.running /\ y.inTable = w.inTable /\ y.protoDone = w.protoDone
      /\ y.readFlag = w.readFlag /\ y.fired = w.fired /\ y.stacked = w.stacked
      /\ y.requests = w.requests /\ y.up = w.up /\ y.deadline = w.deadline
      /\ y.sent = w.sent /\ y.reader = w.reader /\ y.read = w.read
      /\ DOMAIN y = SessionFields
  BY <1>3, ZenonT(30) DEF SessionFields, Same
<1>5. Answers(y) /\ Reading(y)
  BY <1>1, <1>3, <1>4, SMTT(20) DEF Core, Answers, Reading
<1>6. ServerInv(y)
  BY <1>1, <1>2, <1>3, <1>4, <1>5, ZenonT(30) DEF ServerInv, Core
<1> QED  BY <1>3, <1>6, SMTT(20) DEF w, y

(* The completion of async_connect. *)
LEMMA ConnectedKeeps ==
    ASSUME NEW code \in Nat, NEW bound \in Message, ServerInv(s), S!Connected(code, bound)
    PROVE  ServerInv(s')
<1> DEFINE m == S!Reply(S!SUCCEEDED, bound, 0)
           x == [S!SendData(S!Decide(s), m) EXCEPT !.hsDone = TRUE, !.connectFlag = FALSE]
           y == [x EXCEPT !.up = "writing"]
<1>1. /\ s.up = "connecting"
      /\ \/ s' = [s EXCEPT !.up = "over"]
         \/ ~s.fired /\ s' = S!Fail([S!Decide(s) EXCEPT !.up = "over"], code)
         \/ ~s.fired /\ (s' = S!StartForwarding(x) \/ s' = y)
  BY ZenonT(30) DEF S!Connected
<1>2. s.up \in {"resolving", "connecting"}
  BY <1>1, SMTT(20)
<1>3. CASE s' = [s EXCEPT !.up = "over"]
  BY <1>2, <1>3, GivenUp, SMTT(20)
<1>4. CASE ~s.fired /\ s' = S!Fail([S!Decide(s) EXCEPT !.up = "over"], code)
  BY <1>2, <1>4, Decided, SMTT(20)
<1>5. CASE ~s.fired /\ (s' = S!StartForwarding(x) \/ s' = y)
  <2>1. m \in Message /\ m \notin S!Acks
    <3>1. 0 \in Nat
      OBVIOUS
    <3> QED  BY <3>1, ReplyIsNoAck, AcksAndCodes, ZenonT(30)
  <2> HIDE DEF m
  <2>2. /\ ServerInv(S!Decide(s)) /\ S!Decide(s).protoDone /\ ~S!Decide(s).hsDone
        /\ S!Decide(s).requests # 0 /\ S!Decide(s).fired
    BY <1>2, <1>5, Decided
  <2>3. ServerInv(x) /\ x.hsDone
    BY <2>1, <2>2, SucceedKeeps, ZenonT(30)
  <2> HIDE DEF x
  <2>4. ServerInv(y)
    <3>1. y.up = "writing" /\ Same(x, y, {"up"})
      BY <2>3 DEF SessionFields, Same, ServerInv, Core
    <3> HIDE DEF y
    <3>2. /\ y.running = x.running /\ y.inTable = x.inTable /\ y.protoDone = x.protoDone
          /\ y.hsDone = x.hsDone /\ y.readFlag = x.readFlag /\ y.connectFlag = x.connectFlag
          /\ y.fired = x.fired /\ y.stacked = x.stacked /\ y.requests = x.requests
          /\ y.deadline = x.deadline /\ y.sent = x.sent /\ y.reader = x.reader
          /\ y.read = x.read /\ DOMAIN y = SessionFields
      BY <3>1, SMTT(20) DEF SessionFields, Same
    <3>3. Answers(y) /\ Reading(y) /\ (Replied(y) => Replied(x))
      BY <2>3, <3>2 DEF ServerInv, Core, Answers, Reading, Replied
    <3> QED  BY <2>3, <3>2, <3>3 DEF ServerInv, Core
  <2> QED  BY <1>5, <2>3, <2>4, StartForwardingKeeps, SMTT(20)
<1> QED  BY <1>1, <1>3, <1>4, <1>5, SMTT(20)

(* The initial payload is written. *)
LEMMA InitialWrittenKeeps ==
    ASSUME NEW ok \in BOOLEAN, ServerInv(s), S!InitialWritten(ok)
    PROVE  ServerInv(s')
<1> DEFINE x == [s EXCEPT !.target = s.initial]
           y == [s EXCEPT !.up = "over"]
<1>1. s.up = "writing" /\ (s' = S!StartForwarding(x) \/ s' = S!CloseConnection(y))
  BY Zenon DEF S!InitialWritten
<1>2. s.hsDone /\ s.requests # 0 /\ DOMAIN s = SessionFields /\ s.fired \in BOOLEAN
  BY <1>1 DEF ServerInv, Core
<1>3. Same(s, x, DataFields) /\ x.hsDone = s.hsDone
  BY <1>2, Zenon DEF SessionFields, DataFields, Same
<1>4. Same(s, y, {"fired", "deadline", "up"}) /\ y.fired = s.fired /\ y.up = "over"
  BY <1>2 DEF SessionFields, Same
<1> HIDE DEF x, y
<1>5. ServerInv(x)
  BY <1>3, DataKeeps
<1>6. Core(y)
  BY <1>2, <1>4, DecideKeeps DEF ServerInv
<1> QED  BY <1>1, <1>2, <1>3, <1>5, <1>6, StartForwardingKeeps, CloseKeeps, Zenon

(* Every step of the server. *)
LEMMA ServerStep == ServerInv(s) /\ S!Next => ServerInv(s')
<1> SUFFICES ASSUME ServerInv(s), S!Next PROVE ServerInv(s')
  OBVIOUS
<1>1. CASE S!Arrives
  BY <1>1, ArrivesKeeps
<1>2. CASE S!HelloRead
  BY <1>2, HelloReadKeeps, SMTT(20)
<1>3. CASE S!RequestRead
  BY <1>3, RequestReadKeeps
<1>4. CASE S!ForwardRead
  BY <1>4, ForwardReadKeeps
<1>5. CASE S!DeadlineExpires
  BY <1>5, DeadlineExpiresKeeps
<1>6. CASE S!Deadline
  BY <1>6, DeadlineKeeps
<1>7. ASSUME NEW outcome \in {"error", "restricted", "addresses"}, S!Resolved(outcome)
      PROVE  ServerInv(s')
  BY <1>7, ResolvedKeeps
<1>8. ASSUME NEW o \in Outcomes, S!Connected(o.code, o.bound) PROVE ServerInv(s')
  <2>1. o.code \in Nat /\ o.bound \in Message
    BY HandshakeAssumption DEF HandshakeAssumption, Message
  <2> QED  BY <1>8, <2>1, ConnectedKeeps
<1>9. ASSUME NEW ok \in BOOLEAN, S!InitialWritten(ok) PROVE ServerInv(s')
  BY <1>9, InitialWrittenKeeps
<1>10. CASE S!Swept
  BY <1>10, CloseKeeps DEF S!Swept, ServerInv
<1>11. CASE S!ShutDown
  BY <1>11, StopKeeps, SMTT(20) DEF S!ShutDown, ServerInv
<1> QED
  BY <1>1, <1>2, <1>3, <1>4, <1>5, <1>6, <1>7, <1>8, <1>9, <1>10, <1>11, ZenonT(30) DEF S!Next

-----------------------------------------------------------------------------
(* The client. *)

(* The services of the client's session keep its type; none leaves a connect   *)
(* pending in a stopped session.                                               *)
LEMMA SessionServices ==
    ASSUME NEW x \in ClientSession, x.connectPending => x.running
    PROVE  /\ C!OnClose(x) \in ClientSession /\ ~C!OnClose(x).connectPending
           /\ C!CloseSession(x) \in ClientSession
           /\ C!CloseSession(x).connectPending = x.connectPending
           /\ C!CloseSession(x).running = x.running
           /\ C!TryFulfillRead(x) \in ClientSession
           /\ C!TryFulfillRead(x).connectPending = x.connectPending
           /\ C!TryFulfillRead(x).running = x.running
           /\ C!AsyncReadSome(x) \in ClientSession
           /\ C!AsyncReadSome(x).connectPending = x.connectPending
           /\ C!AsyncReadSome(x).running = x.running
<1>1. C!OnClose(x) \in ClientSession /\ ~C!OnClose(x).connectPending
  <2>1. CASE ~x.running
    BY <2>1 DEF C!OnClose
  <2>2. CASE x.running
    <3> DEFINE t == C!Cancel(x.timer)
               r == IF x.read = "pending" THEN "aborted" ELSE x.read
    <3>1. C!OnClose(x) = [x EXCEPT !.running = FALSE, !.connected = FALSE,
                                   !.connectPending = FALSE, !.timer = t, !.read = r]
      BY <2>2, Zenon DEF C!OnClose
    <3>2. /\ t \in {"off", "armed", "expired"}
          /\ r \in {"none", "pending", "message", "aborted"}
      BY DEF ClientSession, C!Cancel
    <3> HIDE DEF t, r
    <3> QED  BY <3>1, <3>2, ZenonT(30) DEF ClientSession
  <2> QED  BY <2>1, <2>2
<1>2. /\ C!CloseSession(x) \in ClientSession
      /\ C!CloseSession(x).connectPending = x.connectPending
      /\ C!CloseSession(x).running = x.running
  BY Zenon DEF C!CloseSession, ClientSession
<1>3. ASSUME NEW y \in ClientSession
      PROVE  /\ C!TryFulfillRead(y) \in ClientSession
             /\ C!TryFulfillRead(y).connectPending = y.connectPending
             /\ C!TryFulfillRead(y).running = y.running
  <2>1. CASE y.read # "pending" \/ y.inq = <<>>
    BY <2>1 DEF C!TryFulfillRead
  <2>2. CASE ~(y.read # "pending" \/ y.inq = <<>>)
    <3>1. Head(y.inq) \in Message /\ Tail(y.inq) \in Seq(Message)
      BY <2>2 DEF ClientSession
    <3>2. C!TryFulfillRead(y)
             = [y EXCEPT !.read = "message", !.posted = Head(y.inq), !.inq = Tail(y.inq)]
      BY <2>2, Zenon DEF C!TryFulfillRead
    <3> QED  BY <3>1, <3>2, ZenonT(30) DEF ClientSession
  <2> QED  BY <2>1, <2>2
<1>4. /\ C!AsyncReadSome(x) \in ClientSession
      /\ C!AsyncReadSome(x).connectPending = x.connectPending
      /\ C!AsyncReadSome(x).running = x.running
  <2> DEFINE y == [x EXCEPT !.read = "pending"]
             z == [x EXCEPT !.read = "aborted"]
  <2>1. C!AsyncReadSome(x) = z \/ C!AsyncReadSome(x) = C!TryFulfillRead(y)
    BY Zenon DEF C!AsyncReadSome
  <2>2. y \in ClientSession /\ y.connectPending = x.connectPending /\ y.running = x.running
    BY DEF ClientSession
  <2>3. z \in ClientSession /\ z.connectPending = x.connectPending /\ z.running = x.running
    BY DEF ClientSession
  <2> HIDE DEF y, z
  <2> QED  BY <1>3, <2>1, <2>2, <2>3, Zenon
<1> QED  BY <1>1, <1>2, <1>3, <1>4

(* Nothing is a message too. *)
LEMMA EmptyMessage == <<>> \in Message
BY SMTT(20) DEF Message

(* A step that tells the app nothing, starts nothing and completes no connect. *)
LEMMA QuietStep ==
    ASSUME ClientInv, session' \in ClientSession, toClient' \in Seq(Message),
           session'.connectPending => session.connectPending /\ session'.running,
           UNCHANGED <<told, accum, done, completions>>,
           step' = step \/ step' = "none",
           cancelled' \in BOOLEAN, cancelled => cancelled'
    PROVE  ClientInv'
<1>1. C!Answered' = C!Answered
  BY SMTT(20) DEF C!Answered
<1>2. ReplyProtocol'
  BY <1>1 DEF ClientInv, ReplyProtocol, C!ReplyProtocol
<1> QED  BY <1>1, <1>2 DEF ClientInv

(* Before the first byte of the reply nothing is answered. *)
LEMMA NothingAnswered == Status(<<>>) = "NeedMore" /\ (accum = <<>> => ~C!Answered)
BY SameParser, StatusValues, SMTT(20) DEF C!Answered

(* A connection is turned away at the session cap. *)
LEMMA TurnAwayKeeps == ClientInv /\ C!TurnAway => ClientInv'
<1> SUFFICES ASSUME ClientInv, C!TurnAway PROVE ClientInv'
  OBVIOUS
<1>1. /\ step' = "turnedAway" /\ told' = <<C!GENERAL_FAILURE>> /\ accum = <<>>
      /\ ~session.connectPending
      /\ UNCHANGED <<cancelled, session, toClient, accum, done, completions>> /\ ~done
  BY DEF ClientInv, C!TurnAway, C!exchange
<1>2. C!Answered' = C!Answered /\ ~C!Answered
  BY <1>1, NothingAnswered DEF C!Answered
<1>3. told' \in Message /\ Len(told') = 1 /\ told'[1] = C!GENERAL_FAILURE
  BY <1>1, SMTT(20) DEF Message, C!GENERAL_FAILURE
<1>4. ReplyProtocol'
  BY <1>1, <1>2, <1>3, SMTT(20) DEF ClientInv, ReplyProtocol, C!ReplyProtocol
<1> QED  BY <1>1, <1>2, <1>3, <1>4, SMTT(20) DEF ClientInv

(* on_connect throws. *)
LEMMA ConnectThrowsKeeps == ClientInv /\ C!ConnectThrows => ClientInv'
<1> SUFFICES ASSUME ClientInv, C!ConnectThrows PROVE ClientInv'
  OBVIOUS
<1>1. /\ step' = "none" /\ completions = 0 /\ completions' = 1 /\ cancelled' = TRUE
      /\ session' = C!CloseSession(session) /\ ~session.connectPending
      /\ session \in ClientSession
      /\ UNCHANGED <<toClient, accum, told, done>>
  BY SMTT(20) DEF ClientInv, C!ConnectThrows, C!exchange
<1>2. session' \in ClientSession /\ ~session'.connectPending
  BY <1>1, SessionServices, SMTT(20)
<1>3. C!Answered' = C!Answered
  BY <1>1, SMTT(20) DEF C!Answered
<1>4. ReplyProtocol'
  BY <1>1, <1>3 DEF ClientInv, ReplyProtocol, C!ReplyProtocol
<1> QED  BY <1>1, <1>2, <1>4, SMTT(20) DEF ClientInv

(* The session is opened and the HELLO sent. *)
LEMMA AcceptKeeps == ClientInv /\ C!Accept => ClientInv'
<1> SUFFICES ASSUME ClientInv, C!Accept PROVE ClientInv'
  OBVIOUS
<1>1. /\ step' = "tunnel" /\ completions = 0 /\ told = <<>> /\ accum = <<>> /\ ~done
      /\ session \in ClientSession
      /\ session' = [session EXCEPT !.running = TRUE, !.connectPending = TRUE,
                                    !.timer = "armed", !.read = "pending"]
      /\ UNCHANGED <<cancelled, toClient, accum, told, done, completions>>
  BY DEF ClientInv, C!Accept
<1>2. session' \in ClientSession /\ session'.running
  BY <1>1, Zenon DEF ClientSession
<1>3. C!Answered' = C!Answered
  BY <1>1 DEF C!Answered
<1>4. ReplyProtocol'
  BY <1>1, <1>3, SMTT(20) DEF ClientInv, ReplyProtocol, C!ReplyProtocol
<1> QED  BY <1>1, <1>2, <1>4 DEF ClientInv

(* The connect handler is called: the only call there is. *)
LEMMA ConnectCompletedKeeps ==
    ASSUME ClientInv, NEW ok \in BOOLEAN, NEW x \in ClientSession, session.connectPending,
           ~x.connectPending, C!ConnectCompleted(ok, x),
           UNCHANGED <<toClient, accum, told, done>>
    PROVE  ClientInv'
<1>1. completions = 0 /\ completions' = 1 /\ told = <<>> /\ accum = <<>>
  BY DEF ClientInv, C!ConnectCompleted
<1>2. C!CloseSession(x) \in ClientSession /\ ~C!CloseSession(x).connectPending
  BY SessionServices, SMTT(20)
<1>3. session' \in ClientSession /\ ~session'.connectPending
  BY <1>2 DEF C!ConnectCompleted, C!AbortHandshake
<1>4. /\ step' = "none" \/ (step' = "greeting" /\ ~cancelled)
      /\ cancelled' \in BOOLEAN /\ (cancelled => cancelled')
  BY Zenon DEF ClientInv, C!ConnectCompleted, C!AbortHandshake
<1>5. C!Answered' = C!Answered
  BY SMTT(20) DEF C!Answered
<1>6. ReplyProtocol'
  BY <1>1, <1>5 DEF ClientInv, ReplyProtocol, C!ReplyProtocol
<1> QED  BY <1>1, <1>3, <1>4, <1>6, SMTT(20) DEF ClientInv

(* The connect timer's handler. *)
LEMMA ConnectTimeoutKeeps == ClientInv /\ C!ConnectTimeout => ClientInv'
<1> SUFFICES ASSUME ClientInv, C!ConnectTimeout PROVE ClientInv'
  OBVIOUS
<1> DEFINE x == [session EXCEPT !.timer = "off"]
<1>1. /\ UNCHANGED <<toClient, accum, told, done>>
      /\ \/ ~x.connectPending /\ session' = x /\ UNCHANGED <<step, cancelled, completions>>
         \/ x.connectPending /\ C!ConnectCompleted(FALSE, C!OnClose(x))
  BY Zenon DEF C!ConnectTimeout, C!exchange
<1>2. /\ x \in ClientSession /\ x.connectPending = session.connectPending
      /\ x.running = session.running /\ (session.connectPending => session.running)
  BY DEF ClientInv, ClientSession
<1> HIDE DEF x
<1>3. C!OnClose(x) \in ClientSession /\ ~C!OnClose(x).connectPending
  BY <1>2, SessionServices, SMTT(20)
<1>4. CASE ~x.connectPending /\ session' = x /\ UNCHANGED <<step, cancelled, completions>>
  <2>1. cancelled \in BOOLEAN /\ toClient \in Seq(Message)
    BY DEF ClientInv
  <2> QED  BY <1>1, <1>2, <1>4, <2>1, QuietStep, SMTT(20)
<1>5. CASE x.connectPending /\ C!ConnectCompleted(FALSE, C!OnClose(x))
  BY <1>1, <1>2, <1>3, <1>5, ConnectCompletedKeeps, ZenonT(30)
<1> QED  BY <1>1, <1>4, <1>5, Zenon

(* The completion of the read for the acknowledgement. *)
LEMMA AckReadKeeps == ClientInv /\ C!AckRead => ClientInv'
<1> SUFFICES ASSUME ClientInv, C!AckRead PROVE ClientInv'
  OBVIOUS
<1> DEFINE x == [session EXCEPT !.read = "none", !.posted = <<>>]
           ok == session.read = "message" /\ session.posted \in {C!HelloAck, C!HelloAckV2}
           claimed == [x EXCEPT !.connectPending = FALSE, !.timer = C!Cancel(x.timer)]
           y == [claimed EXCEPT !.connected = TRUE, !.fin = session.posted = C!HelloAckV2]
           z == IF ok THEN y ELSE C!OnClose(claimed)
<1>1. /\ UNCHANGED <<toClient, accum, told, done>>
      /\ \/ ~x.connectPending /\ session' = x /\ step' = "none"
            /\ UNCHANGED <<cancelled, completions>>
         \/ x.connectPending /\ C!ConnectCompleted(ok, z)
  BY Zenon DEF C!AckRead, C!exchange
<1>2. x \in ClientSession /\ x.connectPending = session.connectPending
  BY EmptyMessage, Zenon DEF ClientInv, ClientSession
<1>3. claimed \in ClientSession /\ ~claimed.connectPending
  <2>1. C!Cancel(x.timer) \in {"off", "armed", "expired"}
    BY <1>2, Zenon DEF ClientSession, C!Cancel
  <2> HIDE DEF x
  <2> QED  BY <1>2, <2>1, Zenon DEF ClientSession
<1>4. y \in ClientSession /\ ~y.connectPending
  BY <1>3, ZenonT(30) DEF ClientSession
<1> HIDE DEF x, claimed, y
<1>5. C!OnClose(claimed) \in ClientSession /\ ~C!OnClose(claimed).connectPending
  BY <1>3, SessionServices, SMTT(20)
<1>6. z \in ClientSession /\ ~z.connectPending /\ ok \in BOOLEAN
  BY <1>4, <1>5, SMTT(20)
<1> HIDE DEF z, ok
<1>7. CASE /\ ~x.connectPending /\ session' = x /\ step' = "none"
           /\ UNCHANGED <<cancelled, completions>>
  <2>1. cancelled \in BOOLEAN /\ toClient \in Seq(Message)
    BY DEF ClientInv
  <2> QED  BY <1>1, <1>2, <1>7, <2>1, QuietStep, SMTT(20)
<1>8. CASE x.connectPending /\ C!ConnectCompleted(ok, z)
  BY <1>1, <1>2, <1>6, <1>8, ConnectCompletedKeeps, SMTT(20)
<1> QED  BY <1>1, <1>7, <1>8

(* The concatenation of two sequences. *)
LEMMA Joined ==
    ASSUME NEW T, NEW p \in Seq(T), NEW q \in Seq(T)
    PROVE  /\ p \o q \in Seq(T) /\ Len(p \o q) = Len(p) + Len(q)
           /\ \A i \in 1 .. Len(p) : (p \o q)[i] = p[i]
OBVIOUS

(* What the app was told before it is told the code of a reply. *)
LEMMA Told ==
    ASSUME NEW code \in Nat, NEW rest \in Message
    PROVE  /\ <<C!METHOD_SELECTED>> \in Message /\ Len(<<C!METHOD_SELECTED>>) = 1
           /\ <<C!METHOD_SELECTED>>[1] = C!METHOD_SELECTED
           /\ LET t == <<C!METHOD_SELECTED>> \o <<code>>
              IN  t \in Message /\ Len(t) = 2 /\ t[1] = C!METHOD_SELECTED /\ t[2] = code
           /\ LET t == <<C!METHOD_SELECTED>> \o <<code>> \o rest
              IN  t \in Message /\ Len(t) >= 2 /\ t[1] = C!METHOD_SELECTED /\ t[2] = code
<1>1. C!METHOD_SELECTED \in Nat
  BY DEF C!METHOD_SELECTED
<1> DEFINE t == <<C!METHOD_SELECTED>> \o <<code>>
<1>2. t \in Message /\ Len(t) = 2 /\ t[1] = C!METHOD_SELECTED /\ t[2] = code
  BY <1>1 DEF Message
<1>3. /\ <<C!METHOD_SELECTED>> \in Message /\ Len(<<C!METHOD_SELECTED>>) = 1
      /\ <<C!METHOD_SELECTED>>[1] = C!METHOD_SELECTED
  BY <1>1 DEF Message
<1> HIDE DEF t
<1>4. /\ t \o rest \in Message /\ Len(t \o rest) >= 2
      /\ (t \o rest)[1] = t[1] /\ (t \o rest)[2] = t[2]
  <2>1. /\ t \o rest \in Seq(Nat) /\ Len(t \o rest) = Len(t) + Len(rest)
        /\ \A i \in 1 .. Len(t) : (t \o rest)[i] = t[i]
    BY <1>2, Joined, ZenonT(30) DEF Message
  <2>2. Len(rest) \in Nat
    BY DEF Message
  <2> QED  BY <1>2, <2>1, <2>2, SMTT(20) DEF Message
<1> QED  BY <1>2, <1>3, <1>4, ZenonT(30) DEF t

(* The steps of the SOCKS5 exchange with the app. *)
LEMMA AppCompletesKeeps ==
    ASSUME ClientInv, NEW outcome, C!AppCompletes(outcome)
    PROVE  ClientInv'
<1>1. /\ UNCHANGED <<toClient, accum, done, completions>>
      /\ step \in {"greeting", "methods", "selecting", "header", "address", "domain", "refusing"}
      /\ session \in ClientSession /\ toClient \in Seq(Message) /\ cancelled \in BOOLEAN
      /\ ~session.connectPending /\ ~done
  <2>1. DOMAIN C!Following = {"greeting", "methods", "selecting", "header"}
    BY DEF C!Following
  <2>2. /\ UNCHANGED <<toClient, accum, done, completions>>
        /\ step \in DOMAIN C!Following \cup {"address", "domain", "refusing"}
    BY Zenon DEF C!AppCompletes
  <2>3. step \in {"greeting", "methods", "selecting", "header", "address", "domain", "refusing"}
    BY <2>1, <2>2, ZenonT(30)
  <2> QED  BY <2>2, <2>3, SMTT(20) DEF ClientInv
<1>2. C!Answered' = C!Answered
  BY <1>1, SMTT(20) DEF C!Answered
<1>3. CASE C!Abort
  <2>1. /\ told' = told /\ step' = "none" /\ cancelled' = TRUE
        /\ session' = session \/ session' = C!CloseSession(session)
    BY <1>3, SMTT(20) DEF C!Abort, C!AbortHandshake
  <2>2. session' \in ClientSession /\ ~session'.connectPending
    BY <1>1, <2>1, SessionServices, SMTT(20)
  <2> QED  BY <1>1, <2>1, <2>2, QuietStep, SMTT(20)
<1>4. CASE C!BailOut
  BY <1>1, <1>4, QuietStep, SMTT(20) DEF C!BailOut
<1>5. CASE /\ step \in DOMAIN C!Following
           /\ C!Continue(C!Following[step],
                         IF step = "methods" THEN <<C!METHOD_SELECTED>> ELSE <<>>)
  <2>1. UNCHANGED <<cancelled, session>>
    BY <1>5, SMTT(20) DEF C!Continue
  <2>2. CASE step = "greeting"
    <3>1. step' = "methods" /\ told' = told /\ told = <<>> /\ accum = <<>>
      BY <1>5, <2>2, SMTT(20) DEF C!Continue, C!Following, ClientInv
    <3>2. ReplyProtocol'
      BY <1>1, <1>2, <3>1, SMTT(20) DEF ClientInv, ReplyProtocol, C!ReplyProtocol
    <3> QED  BY <1>1, <2>1, <3>1, <3>2, SMTT(20) DEF ClientInv
  <2>3. CASE step = "methods"
    <3>1. step' = "selecting" /\ told' = <<C!METHOD_SELECTED>> /\ accum = <<>>
      BY <1>5, <2>3 DEF C!Continue, C!Following, ClientInv
    <3>2. told' \in Message /\ Len(told') = 1 /\ told'[1] = C!METHOD_SELECTED
      BY <3>1, Told, EmptyMessage, ZenonT(30)
    <3>3. ~C!Answered
      BY <3>1, NothingAnswered, SMTT(20)
    <3>4. ReplyProtocol'
      BY <1>1, <1>2, <3>2, <3>3, SMTT(20) DEF ClientInv, ReplyProtocol, C!ReplyProtocol
    <3> QED  BY <1>1, <2>1, <3>1, <3>2, <3>4, SMTT(20) DEF ClientInv
  <2>4. CASE step \in {"selecting", "header"}
    <3>1. step' \in {"header", "address"} /\ told' = told /\ told = <<C!METHOD_SELECTED>>
          /\ accum = <<>>
      <4>1. told = <<C!METHOD_SELECTED>> /\ accum = <<>> /\ told \in Message
        BY <2>4 DEF ClientInv
      <4>2. step' = C!Following[step] /\ told' = told \o <<>>
        BY <1>5, <2>4, ZenonT(30) DEF C!Continue
      <4>3. step' \in {"header", "address"}
        BY <2>4, <4>2, SMTT(20) DEF C!Following
      <4>4. told \o <<>> = told
        BY <4>1, SMTT(20) DEF Message
      <4> QED  BY <4>1, <4>2, <4>3, <4>4, ZenonT(30)
    <3>2. ReplyProtocol'
      BY <1>1, <1>2, <3>1, SMTT(20) DEF ClientInv, ReplyProtocol, C!ReplyProtocol
    <3> QED  BY <1>1, <2>1, <3>1, <3>2, SMTT(20) DEF ClientInv
  <2> QED  BY <1>5, <2>2, <2>3, <2>4, SMTT(20) DEF C!Following
<1>6. CASE step = "address" /\ C!Continue("domain", <<>>)
  <2>1. told = <<C!METHOD_SELECTED>> /\ accum = <<>> /\ told \in Message
    BY <1>6, SMTT(20) DEF ClientInv
  <2>2. told' = told /\ step' = "domain" /\ UNCHANGED <<cancelled, session>>
    BY <1>6, <2>1, SMTT(20) DEF C!Continue, Message
  <2>3. ReplyProtocol'
    BY <1>1, <1>2, <2>2, ZenonT(30) DEF ClientInv, ReplyProtocol, C!ReplyProtocol
  <2> QED  BY <1>1, <2>1, <2>2, <2>3, SMTT(20) DEF ClientInv
<1>7. ASSUME step \in {"address", "domain"}, NEW host, C!HandleSyncRequest(host) PROVE ClientInv'
  <2>1. told = <<C!METHOD_SELECTED>> /\ accum = <<>>
    BY <1>7, SMTT(20) DEF ClientInv
  <2>2. /\ step' = "reply" /\ UNCHANGED <<cancelled, told>>
        /\ session' = C!AsyncReadSome(session)
    BY <1>7, SMTT(20) DEF C!HandleSyncRequest
  <2>3. session' \in ClientSession /\ ~session'.connectPending
    BY <1>1, <2>2, SessionServices, ZenonT(30)
  <2>4. ~C!Answered
    BY <2>1, NothingAnswered, SMTT(20)
  <2>5. ReplyProtocol'
    BY <1>1, <1>2, <2>2, ZenonT(30) DEF ClientInv, ReplyProtocol, C!ReplyProtocol
  <2> QED  BY <1>1, <1>2, <2>1, <2>2, <2>3, <2>4, <2>5, ZenonT(30) DEF ClientInv
<1>8. ASSUME step \in DOMAIN C!Refusals, NEW code \in C!Refusals[step], C!Refuse(code)
      PROVE  ClientInv'
  <2>1. /\ step' = "refusing" /\ told' = told \o <<code>> /\ UNCHANGED <<cancelled, session>>
        /\ accum = <<>>
    BY <1>8, ZenonT(30) DEF C!Refuse, C!Continue, C!Refusals, ClientInv
  <2>2. ~C!Answered
    BY <2>1, NothingAnswered, SMTT(20)
  <2>3. /\ \/ step \in {"greeting", "methods"} /\ code = C!NO_ACCEPTABLE
           \/ step \in {"header", "address", "domain"}
              /\ code \in {C!GENERAL_FAILURE, C!ADDRESS_TYPE_NOT_SUPPORTED,
                           C!COMMAND_NOT_SUPPORTED}
    BY <1>8, SMTT(20) DEF C!Refusals
  <2>4. CASE step \in {"greeting", "methods"} /\ code = C!NO_ACCEPTABLE
    <3>1. told' = <<C!NO_ACCEPTABLE>>
      <4>1. told = <<>>
        BY <2>4 DEF ClientInv
      <4>2. told' = <<>> \o <<C!NO_ACCEPTABLE>>
        BY <2>1, <2>4, <4>1, ZenonT(30)
      <4> QED  BY <4>2, SMTT(20)
    <3>2. told' \in Message /\ Len(told') = 1 /\ told'[1] = C!NO_ACCEPTABLE
      BY <3>1, SMTT(20) DEF Message, C!NO_ACCEPTABLE
    <3>3. ReplyProtocol'
      BY <1>1, <1>2, <2>2, <3>2, SMTT(20) DEF ClientInv, ReplyProtocol, C!ReplyProtocol
    <3> QED  BY <1>1, <2>1, <3>2, <3>3, ZenonT(30) DEF ClientInv
  <2>5. CASE step \in {"header", "address", "domain"}
             /\ code \in {C!GENERAL_FAILURE, C!ADDRESS_TYPE_NOT_SUPPORTED,
                          C!COMMAND_NOT_SUPPORTED}
    <3>1. code \in Nat /\ code # C!SUCCEEDED
      BY <2>5 DEF C!GENERAL_FAILURE, C!ADDRESS_TYPE_NOT_SUPPORTED, C!COMMAND_NOT_SUPPORTED,
                  C!SUCCEEDED
    <3>2. told = <<C!METHOD_SELECTED>>
      BY <2>5 DEF ClientInv
    <3>3. /\ told' \in Message /\ Len(told') = 2 /\ told'[1] = C!METHOD_SELECTED
          /\ told'[2] = code
      BY <2>1, <3>1, <3>2, Told, EmptyMessage, ZenonT(30)
    <3>4. ReplyProtocol'
      BY <1>1, <1>2, <2>2, <3>1, <3>3 DEF ClientInv, ReplyProtocol, C!ReplyProtocol
    <3> QED  BY <1>1, <2>1, <3>3, <3>4 DEF ClientInv
  <2> QED  BY <2>3, <2>4, <2>5, ZenonT(30)
<1>9. \/ C!Abort \/ C!BailOut
      \/ /\ step \in DOMAIN C!Following
         /\ C!Continue(C!Following[step],
                       IF step = "methods" THEN <<C!METHOD_SELECTED>> ELSE <<>>)
      \/ step = "address" /\ C!Continue("domain", <<>>)
      \/ step \in DOMAIN C!Hosts /\ \E host \in C!Hosts[step] : C!HandleSyncRequest(host)
      \/ step \in DOMAIN C!Refusals /\ \E code \in C!Refusals[step] : C!Refuse(code)
  BY Zenon DEF C!AppCompletes
<1>10. DOMAIN C!Hosts = {"address", "domain"}
  BY DEF C!Hosts
<1> QED  BY <1>3, <1>4, <1>5, <1>6, <1>7, <1>8, <1>9, <1>10, ZenonT(30)

(* The reply of the server. *)
LEMMA ReplyReadKeeps == ClientInv /\ C!ReplyRead => ClientInv'
<1> SUFFICES ASSUME ClientInv, C!ReplyRead PROVE ClientInv'
  OBVIOUS
<1> DEFINE x == [session EXCEPT !.read = "none", !.posted = <<>>]
           a == accum \o session.posted
           heard == session.read = "message" /\ C!Fits(a)
           complete == heard /\ C!Status(a) = "Complete"
           more == heard /\ C!Status(a) = "NeedMore"
           code == IF complete THEN C!Code(a) ELSE C!GENERAL_FAILURE
<1>1. /\ step = "reply" /\ UNCHANGED <<toClient, done, completions>>
      /\ accum' = IF ~cancelled /\ heard THEN a ELSE accum
      /\ \/ cancelled /\ step' = "none" /\ session' = x /\ UNCHANGED <<cancelled, told>>
         \/ /\ ~cancelled /\ more /\ step' = "reply" /\ session' = C!AsyncReadSome(x)
            /\ UNCHANGED <<cancelled, told>>
         \/ ~cancelled /\ complete /\ code = C!SUCCEEDED /\ C!TellSuccess(a) /\ session' = x
         \/ /\ ~cancelled /\ ~more /\ code # C!SUCCEEDED
            /\ step' = "refusing" /\ told' = Append(told, code) /\ session' = x
            /\ UNCHANGED cancelled
  BY Zenon DEF C!ReplyRead
<1>2. /\ session \in ClientSession /\ ~session.connectPending /\ ~done /\ cancelled \in BOOLEAN
      /\ told = <<C!METHOD_SELECTED>> /\ ~C!Answered /\ toClient \in Seq(Message)
      /\ completions \in {0, 1} /\ accum \in Message /\ told \in Message
  BY <1>1 DEF ClientInv
<1>3. x \in ClientSession /\ ~x.connectPending
  BY <1>2, EmptyMessage, Zenon DEF ClientSession
<1>4. C!AsyncReadSome(x) \in ClientSession /\ ~C!AsyncReadSome(x).connectPending
  BY <1>3, SessionServices, Zenon
<1>5. a \in Message
  BY <1>2 DEF ClientSession, Message
<1>6. /\ (complete => C!Code(a) \in Nat /\ C!Trailing(a) \in Message)
  BY <1>5, SameParser, WholeMessage
<1>7. code \in Nat
  BY <1>6 DEF C!GENERAL_FAILURE
<1>8. accum' \in Message /\ (C!Answered' <=> ~cancelled /\ complete)
  BY <1>1, <1>2, <1>5 DEF C!Answered
<1>9. complete => ~more
  OBVIOUS
<1>10. ~cancelled /\ complete => code = C!Code(accum')
  BY <1>1
<1>11. ~complete => code # C!SUCCEEDED
  BY SMTT(20) DEF C!GENERAL_FAILURE, C!SUCCEEDED
<1> HIDE DEF x, a, heard, complete, more, code
<1>12. CASE cancelled /\ step' = "none" /\ session' = x /\ UNCHANGED <<cancelled, told>>
  <2>1. ReplyProtocol'
    BY <1>1, <1>2, <1>8, <1>12, SMTT(20) DEF ClientInv, ReplyProtocol, C!ReplyProtocol
  <2> QED  BY <1>1, <1>2, <1>3, <1>8, <1>12, <2>1, SMTT(20) DEF ClientInv
<1>13. CASE ~cancelled /\ more /\ step' = "reply" /\ session' = C!AsyncReadSome(x)
            /\ UNCHANGED <<cancelled, told>>
  <2>1. ~C!Answered'
    BY <1>8, <1>9, <1>13, SMTT(20)
  <2>2. ReplyProtocol'
    BY <1>1, <1>2, <1>13, <2>1, SMTT(20) DEF ClientInv, ReplyProtocol, C!ReplyProtocol
  <2> QED  BY <1>1, <1>2, <1>4, <1>8, <1>13, <2>1, <2>2, SMTT(20) DEF ClientInv
<1>14. CASE ~cancelled /\ complete /\ code = C!SUCCEEDED /\ C!TellSuccess(a) /\ session' = x
  <2>1. /\ step' = "telling" /\ cancelled' = TRUE
        /\ told' = <<C!METHOD_SELECTED>> \o <<code>> \o C!Trailing(a)
    BY <1>2, <1>14 DEF C!TellSuccess
  <2>2. /\ told' \in Message /\ Len(told') >= 2 /\ told'[1] = C!METHOD_SELECTED
        /\ told'[2] = code
    BY <1>6, <1>7, <1>14, <2>1, Told, ZenonT(30)
  <2>3. C!Answered' /\ code = C!Code(accum')
    BY <1>8, <1>10, <1>14, SMTT(20)
  <2>4. ReplyProtocol'
    BY <1>1, <1>2, <1>14, <2>2, <2>3, SMTT(20) DEF ReplyProtocol, C!ReplyProtocol
  <2> QED  BY <1>1, <1>2, <1>3, <1>8, <1>14, <2>1, <2>2, <2>4, SMTT(20) DEF ClientInv
<1>15. CASE /\ ~cancelled /\ ~more /\ code # C!SUCCEEDED
            /\ step' = "refusing" /\ told' = Append(told, code) /\ session' = x
            /\ UNCHANGED cancelled
  <2>1. /\ told' \in Message /\ Len(told') = 2 /\ told'[1] = C!METHOD_SELECTED
        /\ told'[2] = code
    <3>1. told' = <<C!METHOD_SELECTED>> \o <<code>>
      BY <1>2, <1>7, <1>15
    <3> QED  BY <1>7, <3>1, Told, EmptyMessage, ZenonT(30)
  <2>2. C!Answered' => code = C!Code(accum')
    BY <1>8, <1>10, <1>15, SMTT(20)
  <2>3. ReplyProtocol'
    BY <1>1, <1>2, <1>15, <2>1, <2>2, SMTT(20) DEF ReplyProtocol, C!ReplyProtocol
  <2> QED  BY <1>1, <1>2, <1>3, <1>8, <1>15, <2>1, <2>3, SMTT(20) DEF ClientInv
<1> QED  BY <1>1, <1>12, <1>13, <1>14, <1>15

(* The completion of the write of the reply. *)
LEMMA ReplyWrittenKeeps ==
    ASSUME ClientInv, NEW ok, C!ReplyWritten(ok)
    PROVE  ClientInv'
<1>1. /\ step = "telling" /\ step' = "none" /\ cancelled
      /\ UNCHANGED <<cancelled, toClient, accum, told, completions>>
      /\ \/ done' = TRUE /\ UNCHANGED session
         \/ session' = C!CloseSession(session) /\ UNCHANGED done
  BY DEF ClientInv, C!ReplyWritten, C!exchange
<1>2. session \in ClientSession /\ ~session.connectPending
  BY <1>1 DEF ClientInv
<1>3. session' \in ClientSession /\ ~session'.connectPending
  BY <1>1, <1>2, SessionServices
<1>4. C!Answered' = C!Answered /\ done' \in BOOLEAN
  BY <1>1, ZenonT(30) DEF C!Answered, ClientInv
<1>5. ReplyProtocol'
  BY <1>1, <1>4 DEF ClientInv, ReplyProtocol, C!ReplyProtocol
<1> QED  BY <1>1, <1>3, <1>4, <1>5, SMTT(20) DEF ClientInv

(* The steps of the session alone and of the timers. *)
LEMMA QuietSteps ==
    ASSUME ClientInv,
           \/ C!TurnedAway \/ C!SetupFails \/ C!Arrives \/ C!CloseRuns \/ C!SessionDies
           \/ C!ConnectTimerExpires \/ C!TimerExpires \/ C!Deadline \/ C!Watchdog
    PROVE  ClientInv'
<1>0. /\ session \in ClientSession /\ toClient \in Seq(Message) /\ cancelled \in BOOLEAN
      /\ session.connectPending => session.running
  BY DEF ClientInv
<1>1. CASE C!TurnedAway \/ C!SetupFails \/ C!TimerExpires
  <2>1. /\ UNCHANGED <<session, toClient, told, accum, done, completions, cancelled>>
        /\ step' = step \/ step' = "none"
    BY <1>1 DEF C!TurnedAway, C!SetupFails, C!TimerExpires, C!exchange
  <2> QED  BY <1>0, <2>1, QuietStep, SMTT(20)
<1>2. CASE C!Arrives
  <2> DEFINE x == [session EXCEPT !.inq = Append(session.inq, Head(toClient))]
  <2>1. /\ session' = C!TryFulfillRead(x) /\ toClient' = Tail(toClient) /\ toClient # <<>>
        /\ UNCHANGED <<step, told, accum, done, completions, cancelled>>
    BY <1>2, Zenon DEF C!Arrives, C!onlySession
  <2>2. Head(toClient) \in Message /\ toClient' \in Seq(Message)
    BY <1>0, <2>1
  <2>3. /\ x \in ClientSession /\ x.connectPending = session.connectPending
        /\ x.running = session.running
    <3>1. Append(session.inq, Head(toClient)) \in Seq(Message)
      <4>1. session.inq \in Seq(Message)
        BY <1>0 DEF ClientSession
      <4> QED  BY <2>2, <4>1
    <3> QED  BY <1>0, <3>1, Zenon DEF ClientSession
  <2> HIDE DEF x
  <2>4. /\ session' \in ClientSession /\ session'.connectPending = session.connectPending
        /\ session'.running = session.running
    BY <1>0, <2>1, <2>3, SessionServices
  <2> QED  BY <1>0, <2>1, <2>2, <2>4, QuietStep
<1>3. CASE C!CloseRuns \/ C!SessionDies
  <2>1. /\ \/ session' = C!OnClose(session)
           \/ session' = [C!OnClose(session) EXCEPT !.closing = FALSE]
        /\ UNCHANGED <<step, toClient, told, accum, done, completions, cancelled>>
    BY <1>3 DEF C!CloseRuns, C!SessionDies, C!onlySession
  <2>2. C!OnClose(session) \in ClientSession /\ ~C!OnClose(session).connectPending
    BY <1>0, SessionServices
  <2>3. session' \in ClientSession /\ ~session'.connectPending
    BY <2>1, <2>2, Zenon DEF ClientSession
  <2> QED  BY <1>0, <2>1, <2>3, QuietStep
<1>4. CASE C!ConnectTimerExpires
  <2>1. /\ session' = [session EXCEPT !.timer = "expired"]
        /\ UNCHANGED <<step, toClient, told, accum, done, completions, cancelled>>
    BY <1>4 DEF C!ConnectTimerExpires, C!onlySession
  <2>2. /\ session' \in ClientSession /\ session'.connectPending = session.connectPending
        /\ session'.running = session.running
    BY <1>0, <2>1 DEF ClientSession
  <2> QED  BY <1>0, <2>1, <2>2, QuietStep
<1>5. CASE C!Deadline \/ C!Watchdog
  <2>1. /\ session' = session \/ session' = C!CloseSession(session)
        /\ cancelled' = cancelled \/ cancelled' = TRUE
        /\ UNCHANGED <<step, toClient, told, accum, done, completions>>
    BY <1>5, SMTT(20) DEF C!Deadline, C!Watchdog, C!exchange
  <2>2. /\ session' \in ClientSession /\ session'.connectPending = session.connectPending
        /\ session'.running = session.running
    BY <1>0, <2>1, SessionServices
  <2>3. cancelled' \in BOOLEAN /\ (cancelled => cancelled')
    <3>1. CASE cancelled' = cancelled
      BY <1>0, <3>1
    <3>2. CASE cancelled' = TRUE
      BY <3>2
    <3> QED  BY <2>1, <3>1, <3>2, Zenon
  <2> QED  BY <1>0, <2>1, <2>2, <2>3, QuietStep, SMTT(20)
<1> QED  BY <1>1, <1>2, <1>3, <1>4, <1>5, SMTT(20)

(* Every step of the client. *)
LEMMA ClientStep == ClientInv /\ C!Next => ClientInv'
<1> SUFFICES ASSUME ClientInv, C!Next PROVE ClientInv'
  OBVIOUS
<1>1. CASE \/ C!TurnedAway \/ C!SetupFails \/ C!Arrives \/ C!CloseRuns \/ C!SessionDies
           \/ C!ConnectTimerExpires \/ C!TimerExpires \/ C!Deadline \/ C!Watchdog
  BY <1>1, QuietSteps
<1>2. CASE C!TurnAway
  BY <1>2, TurnAwayKeeps
<1>3. CASE C!ConnectThrows
  BY <1>3, ConnectThrowsKeeps, SMTT(20)
<1>4. CASE C!Accept
  BY <1>4, AcceptKeeps
<1>5. CASE C!ConnectTimeout
  BY <1>5, ConnectTimeoutKeeps
<1>6. CASE C!AckRead
  BY <1>6, AckReadKeeps
<1>7. ASSUME NEW outcome, C!AppCompletes(outcome) PROVE ClientInv'
  BY <1>7, AppCompletesKeeps
<1>8. CASE C!ReplyRead
  BY <1>8, ReplyReadKeeps
<1>9. ASSUME NEW ok, C!ReplyWritten(ok) PROVE ClientInv'
  BY <1>9, ReplyWrittenKeeps
<1> QED  BY <1>1, <1>2, <1>3, <1>4, <1>5, <1>6, <1>7, <1>8, <1>9, ZenonT(30) DEF C!Next

-----------------------------------------------------------------------------
(* The two ends together. *)

(* Both ends start in the invariant. *)
LEMMA InitHolds == Init => HandshakeInv
<1> SUFFICES ASSUME Init PROVE HandshakeInv
  OBVIOUS
<1>1. C!Init /\ s = S!NewSession /\ payload = [app |-> 0, target |-> 0]
  BY DEF Init, S!Init
<1>2. ClientInv
  <2>1. /\ step = "accept" /\ ~cancelled /\ cancelled \in BOOLEAN /\ accum = <<>> /\ told = <<>>
        /\ ~done /\ done \in BOOLEAN /\ completions = 0 /\ session = C!NewSession
        /\ toClient \in ServerScripts
    BY <1>1, ZenonT(30) DEF C!Init
  <2>2. session \in ClientSession /\ ~session.connectPending
    BY <2>1, EmptyMessage DEF C!NewSession, ClientSession
  <2>3. toClient \in Seq(Message)
    BY <2>1, HandshakeAssumption DEF HandshakeAssumption, Message
  <2>4. ~C!Answered
    BY <2>1, NothingAnswered
  <2>5. ReplyProtocol
    BY <2>1, <2>4 DEF ReplyProtocol, C!ReplyProtocol
  <2> QED  BY <2>1, <2>2, <2>3, <2>4, <2>5, EmptyMessage DEF ClientInv
<1>3. ServerInv(s)
  <2>1. DOMAIN s = SessionFields
    BY <1>1, Zenon DEF S!NewSession, SessionFields
  <2>2. /\ s.running = TRUE /\ s.inTable = TRUE /\ s.protoDone = FALSE /\ s.hsDone = FALSE
        /\ s.readFlag = FALSE /\ s.connectFlag = FALSE /\ s.fired = FALSE
        /\ s.stacked = FALSE /\ s.requests = 0 /\ s.sent = <<>> /\ s.read = "none"
        /\ s.up = "none" /\ s.deadline = "off"
    BY <1>1, Zenon DEF S!NewSession
  <2>3. s.sent \in Seq(Message) /\ Len(s.sent) = 0
    BY <2>2
  <2>4. Answers(s) /\ ~Replied(s)
    BY <2>3 DEF Answers, Replied
  <2>5. Reading(s)
    BY <2>2 DEF Reading
  <2>6. s.requests \in {0, 1} /\ ~(s.requests > 0) /\ s.up \notin {"writing", "forwarding"}
    BY <2>2
  <2> QED  BY <2>1, <2>2, <2>4, <2>5, <2>6, Zenon DEF ServerInv, Core
<1>4. payload \in [app : Nat, target : Nat]
  BY <1>1
<1> QED  BY <1>2, <1>3, <1>4 DEF HandshakeInv

(* The client does not see a step of the server but for what it sends. *)
LEMMA ServerMovesKeeps == HandshakeInv /\ ServerMoves => HandshakeInv'
<1> SUFFICES ASSUME HandshakeInv, ServerMoves PROVE HandshakeInv'
  OBVIOUS
<1>1. /\ S!Next /\ UNCHANGED clientOnly /\ payload' = payload
      /\ toClient' = toClient \/ toClient' = toClient \o Added(s.sent, s'.sent)
  BY DEF ServerMoves, Server
<1>2. ClientInv /\ ServerInv(s) /\ payload \in [app : Nat, target : Nat]
  BY DEF HandshakeInv
<1>3. ServerInv(s')
  BY <1>1, <1>2, ServerStep
<1>4. s.sent \in Seq(Message) /\ s'.sent \in Seq(Message)
  BY <1>2, <1>3, Zenon DEF ServerInv, Core, Answers
<1>5. Added(s.sent, s'.sent) \in Seq(Message)
  <2>1. Len(s.sent) \in Nat
    BY <1>4
  <2> QED  BY <1>4, <2>1, Suffix DEF Added
<1>6. toClient \in Seq(Message) /\ toClient' \in Seq(Message)
  <2>1. toClient \in Seq(Message)
    BY <1>2 DEF ClientInv
  <2> QED  BY <1>1, <1>5, <2>1, Joined, Zenon
<1>7. ClientInv'
  <2>1. UNCHANGED <<step, cancelled, session, accum, told, done, completions>>
    BY <1>1 DEF clientOnly
  <2>2. session \in ClientSession /\ cancelled \in BOOLEAN
        /\ (session.connectPending => session.running)
    BY <1>2 DEF ClientInv
  <2> QED  BY <1>2, <1>6, <2>1, <2>2, QuietStep
<1> QED  BY <1>1, <1>2, <1>3, <1>7 DEF HandshakeInv

(* Payload and loss in the tunnel. *)
LEMMA TunnelKeeps ==
    HandshakeInv /\ (AppSends \/ TargetSends \/ LostToServer \/ LostToClient) => HandshakeInv'
<1> SUFFICES ASSUME HandshakeInv, AppSends \/ TargetSends \/ LostToServer \/ LostToClient
             PROVE  HandshakeInv'
  OBVIOUS
<1>1. ClientInv /\ ServerInv(s) /\ payload \in [app : Nat, target : Nat]
  BY DEF HandshakeInv
<1>2. UNCHANGED clientOnly /\ s' = s
  BY DEF AppSends, TargetSends, LostToServer, LostToClient
<1>3. payload' \in [app : Nat, target : Nat]
  BY <1>1 DEF AppSends, TargetSends, LostToServer, LostToClient
<1>4. toClient \in Seq(Message)
  BY <1>1 DEF ClientInv
<1>5. toClient' \in Seq(Message)
  <2>1. CASE AppSends \/ LostToServer
    BY <1>4, <2>1 DEF AppSends, LostToServer
  <2>2. CASE TargetSends
    <3>1. <<100 + payload'.target>> \in Message
      BY <1>3 DEF Message
    <3>2. toClient' = Append(toClient, <<100 + payload'.target>>)
      BY <2>2 DEF TargetSends
    <3> HIDE DEF Message
    <3> QED  BY <1>4, <3>1, <3>2
  <2>3. CASE LostToClient
    <3>1. toClient' = SubSeq(toClient, 1, Len(toClient) - 1)
      BY <2>3 DEF LostToClient, Front
    <3>2. Len(toClient) \in Nat /\ \A i \in 1 .. Len(toClient) : toClient[i] \in Message
      BY <1>4
    <3> QED  BY <1>4, <3>1, <3>2
  <2> QED  BY <2>1, <2>2, <2>3
<1>6. ClientInv'
  <2>1. UNCHANGED <<step, cancelled, session, accum, told, done, completions>>
    BY <1>2 DEF clientOnly
  <2>2. session \in ClientSession /\ cancelled \in BOOLEAN
        /\ (session.connectPending => session.running)
    BY <1>1 DEF ClientInv
  <2> QED  BY <1>1, <1>5, <2>1, <2>2, QuietStep
<1> QED  BY <1>1, <1>2, <1>3, <1>6 DEF HandshakeInv

(* A step of neither end. *)
LEMMA StutterKeeps == HandshakeInv /\ UNCHANGED vars => HandshakeInv'
<1> SUFFICES ASSUME HandshakeInv, UNCHANGED vars PROVE HandshakeInv'
  OBVIOUS
<1>1. s' = s /\ payload' = payload /\ toClient' = toClient
      /\ UNCHANGED <<step, cancelled, session, accum, told, done, completions>>
  BY DEF vars, clientOnly
<1>2. ClientInv /\ session \in ClientSession /\ cancelled \in BOOLEAN
      /\ (session.connectPending => session.running) /\ toClient \in Seq(Message)
  BY DEF HandshakeInv, ClientInv
<1>3. ClientInv'
  BY <1>1, <1>2, QuietStep
<1> QED  BY <1>1, <1>3 DEF HandshakeInv

(* Every step keeps the invariant. *)
LEMMA NextKeeps == HandshakeInv /\ [Next]_vars => HandshakeInv'
<1> SUFFICES ASSUME HandshakeInv, [Next]_vars PROVE HandshakeInv'
  OBVIOUS
<1>1. CASE ClientMoves
  <2>1. C!Next /\ s' = s /\ payload' = payload
    BY <1>1 DEF ClientMoves, Client
  <2> QED  BY <2>1, ClientStep DEF HandshakeInv
<1>2. CASE ServerMoves
  BY <1>2, ServerMovesKeeps
<1>3. CASE AppSends \/ TargetSends \/ LostToServer \/ LostToClient
  BY <1>3, TunnelKeeps
<1>4. CASE UNCHANGED vars
  BY <1>4, StutterKeeps
<1> QED  BY <1>1, <1>2, <1>3, <1>4 DEF Next

(* HandshakeInv holds in every state of every handshake, for every app, server *)
(* script, client script, connect outcome and bound.                           *)
THEOREM HandshakeInvariant == Spec => []HandshakeInv
BY InitHolds, NextKeeps, PTL DEF Spec

(* The app is sent at most one method selection and one reply, the code of the *)
(* server's whole reply if it sent one and a failure otherwise, and the        *)
(* connect handler of handle_client_connection is called at most once.         *)
THEOREM AppIsAnsweredOnce == Spec => []ReplyProtocol
<1>1. HandshakeInv => ReplyProtocol
  BY DEF HandshakeInv, ClientInv
<1> QED  BY <1>1, HandshakeInvariant, PTL

(* The server sends a session's peer at most one acknowledgement, first, and   *)
(* one SOCKS5 reply, parses one request, and never has two reads outstanding.  *)
THEOREM PeerIsAnsweredOnce == Spec => []OneExchange
<1>1. HandshakeInv => OneExchange
  <2> SUFFICES ASSUME HandshakeInv PROVE OneExchange
    BY SMTT(20)
  <2>1. Answers(s) /\ s.requests \in {0, 1} /\ ~s.stacked
    BY DEF HandshakeInv, ServerInv, Core
  <2>2. DOMAIN s.sent = 1 .. Len(s.sent)
    BY <2>1 DEF Answers
  <2>3. s.requests <= 1
    BY <2>1
  <2> QED  BY <2>1, <2>2, <2>3, Zenon DEF OneExchange, S!OneExchange, Answers
<1> QED  BY <1>1, HandshakeInvariant, PTL

(* Once the forwarding loops run and the watchdog is off, no step of the       *)
(* handshake closes the app's socket: the deadline's handler, even if it had   *)
(* expired before the reply was written, finds the handshake over.             *)
THEOREM DeadlineLeavesTunnel == Spec => DeadlineHarmless
<1>1. HandshakeInv /\ [Next]_vars => [done /\ watchdog = "off" => app' = app]_vars
  <2> SUFFICES ASSUME HandshakeInv, Next, done, watchdog = "off" PROVE app' = app
    BY DEF vars
  <2>1. cancelled /\ step = "none"
    BY DEF HandshakeInv, ClientInv
  <2>2. CASE ClientMoves
    <3>1. C!Next
      BY <2>2 DEF ClientMoves, Client
    <3>2. CASE C!TurnAway \/ C!TurnedAway \/ C!SetupFails \/ C!ConnectThrows \/ C!Accept
      BY <2>1, <3>2 DEF C!TurnAway, C!TurnedAway, C!SetupFails, C!ConnectThrows, C!Accept
    <3>3. CASE C!Arrives \/ C!CloseRuns \/ C!SessionDies \/ C!ConnectTimerExpires
      BY <3>3, Zenon
         DEF C!Arrives, C!CloseRuns, C!SessionDies, C!ConnectTimerExpires, C!onlySession
    <3>4. CASE C!ConnectTimeout \/ C!AckRead
      BY <2>1, <3>4, ZenonT(30) DEF C!ConnectTimeout, C!AckRead, C!ConnectCompleted
    <3>5. ASSUME NEW outcome, C!AppCompletes(outcome) PROVE FALSE
      BY <2>1, <3>5 DEF C!AppCompletes, C!Following
    <3>6. ASSUME C!ReplyRead \/ \E ok \in BOOLEAN : C!ReplyWritten(ok) PROVE FALSE
      BY <2>1, <3>6 DEF C!ReplyRead, C!ReplyWritten
    <3>7. CASE C!TimerExpires \/ C!Deadline
      BY <2>1, <3>7, Zenon DEF C!TimerExpires, C!Deadline
    <3>8. ASSUME C!Watchdog PROVE FALSE
      BY <3>8 DEF C!Watchdog
    <3> QED  BY <3>1, <3>2, <3>3, <3>4, <3>5, <3>6, <3>7, <3>8, ZenonT(30) DEF C!Next
  <2>3. CASE ServerMoves
    BY <2>3 DEF ServerMoves, Server, clientOnly
  <2>4. CASE AppSends \/ TargetSends \/ LostToServer \/ LostToClient
    BY <2>4, Zenon DEF AppSends, TargetSends, LostToServer, LostToClient, clientOnly
  <2> QED  BY <2>2, <2>3, <2>4 DEF Next
<1> QED  BY <1>1, HandshakeInvariant, PTL DEF Spec, DeadlineHarmless
=============================================================================
