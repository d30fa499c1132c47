------------------------- MODULE AtMostOnceChannel -------------------------
(***************************************************************************)
(* What one direction of the sealed datagram layer promises the layers     *)
(* above it: a message is handed over only after its sender sealed it, and *)
(* never twice, whatever the network loses, repeats or reorders.           *)
(***************************************************************************)
EXTENDS Naturals

CONSTANT Msg

VARIABLES
    sent,   \* messages the sender has sealed
    got     \* got[m]: how many times m was handed to the receiver's upper layer

vars == <<sent, got>>

Init ==
    /\ sent = {}
    /\ got = [m \in Msg |-> 0]

Send(m) ==
    /\ sent' = sent \cup {m}
    /\ UNCHANGED got

Deliver(m) ==
    /\ m \in sent
    /\ got[m] = 0
    /\ got' = [got EXCEPT ![m] = 1]
    /\ UNCHANGED sent

Next == \E m \in Msg : Send(m) \/ Deliver(m)

Spec == Init /\ [][Next]_vars
=============================================================================
