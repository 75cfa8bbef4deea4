--------------------------- MODULE MCClientStrict ---------------------------
(* A statement of README.md about batch mode that the client does not keep. *)
EXTENDS Client

\* README.md:106, "missing credentials fail fast in this mode": a client in
\* batch mode that has neither a key nor a password does not report success.
BatchFailsFast ==
    pc = "done" /\ opts.batch /\ ~HasCredentials => exit_code # 0
=============================================================================
