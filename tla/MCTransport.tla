---------------------------- MODULE MCTransport ----------------------------
(* The transport on a small instance.                                      *)
EXTENDS Transport
=============================================================================
