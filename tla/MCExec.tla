------------------------------- MODULE MCExec -------------------------------
(* One client and one connection of noxsshd, with a window that holds the   *)
(* whole output, keepalives, and every order of exit, output and hang-up.   *)
EXTENDS ExecSystem
=============================================================================
