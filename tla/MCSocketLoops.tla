--------------------------- MODULE MCSocketLoops ---------------------------
(* Two slots share the back-off timer; a drain reads chunks of one datagram,  *)
(* and three arrivals overfill it.                                            *)
EXTENDS SocketLoops
=============================================================================
