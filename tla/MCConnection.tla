---------------------------- MODULE MCConnection ----------------------------
(* One connection against an arbitrary peer, with scaled sizes: every limit *)
(* (windows, attempts, banner lines, chunk, u32) can be reached and passed. *)
EXTENDS Connection
=============================================================================
