------------------------------ MODULE MCDaemon ------------------------------
(* Daemon with two slots and one or two clients more than slots: sessions   *)
(* overlap, a client too many arrives, and slots are given back and reused. *)
EXTENDS Daemon
=============================================================================
