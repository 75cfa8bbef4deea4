------------------------------ MODULE MCClient ------------------------------
(* The client against an arbitrary server, with short waits, two levels of  *)
(* key exchange, keepalives and periodic rekeys.                            *)
EXTENDS Client
=============================================================================
