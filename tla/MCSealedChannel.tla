-------------------------- MODULE MCSealedChannel --------------------------
(* A window of two bits and six counters: slides by one, by exactly W and     *)
(* past W all occur, starting from a non-zero counter, and the client runs    *)
(* into the end of the nonce space.                                           *)
EXTENDS SealedChannel

CONSTANTS s1, s2

MCSalt == {s1, s2}
MCStartCounter == [s \in MCSalt |-> IF s = s1 THEN 1 ELSE 3]
=============================================================================
