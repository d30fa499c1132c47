--------------------------- MODULE MCSessionTable ---------------------------
(* Two endpoints with an address each.                                         *)
EXTENDS SessionTable, TLC

CONSTANTS e1, e2, s1, s2

MCEndpoint == {e1, e2}
MCSalt == {s1, s2}
OwnAddress == [ep \in MCEndpoint |-> ep]
MCSymmetry == Permutations(MCEndpoint) \cup Permutations(MCSalt)
=============================================================================
