------------------------------ MODULE MCTunnel ------------------------------
(* One tunnel. The configurations choose the protocol version, the watermarks *)
(* and how much either side sends: with a threshold of two messages an end of *)
(* stream can be queued behind data, with one both loops park at once.        *)
EXTENDS Tunnel
=============================================================================
