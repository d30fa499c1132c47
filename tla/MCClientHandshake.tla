------------------------- MODULE MCClientHandshake -------------------------
(* A server that answers at once and then sends payload, and one that says    *)
(* nothing.                                                                   *)
EXTENDS ClientHandshake

MCScripts == {<<>>, <<HelloAckV2, Reply(SUCCEEDED, <<>>, 0) \o <<101>>, <<102>>>>}
MCLiterals == {ToText(<<9, 9, 9, 9>>)}
MCNames == {<<65>>}
=============================================================================
