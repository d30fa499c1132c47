----------------------------- MODULE MCCleanPath -----------------------------
(* Both controllers, the RTO floor the quicker of the two.                    *)
EXTENDS CleanPath

MCPolicy == {"parity", "rto"}
MCCleanTime == [parity |-> 3, rto |-> 1]
MCHoldTime == [parity |-> 4, rto |-> 3]
=============================================================================
