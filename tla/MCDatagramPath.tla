--------------------------- MODULE MCDatagramPath ---------------------------
(* A client without -fec, one that agrees with its server, one that does not.  *)
(* Sets have two data shards and a parity shard (the adaptive default here):   *)
(* four datagrams are two sets, the first of which may go unprotected.         *)
EXTENDS DatagramPath

TwoOne == [data |-> 2, parity |-> 1]
OneOne == [data |-> 1, parity |-> 1]
MCSettings ==
    {[client |-> Off, server |-> OneOne, most |-> 3],
     [client |-> TwoOne, server |-> Off, most |-> 4],
     [client |-> TwoOne, server |-> OneOne, most |-> 3]}
=============================================================================
