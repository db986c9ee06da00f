------------------------- MODULE MCRespConnections -------------------------
(* TLC instances of RespConnections.                                        *)
EXTENDS RespConnections

AllKinds == {"raw", "compat", "http"}
=============================================================================
