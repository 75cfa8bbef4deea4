-------------------------- MODULE MCSessionStrict --------------------------
(* A statement of the documentation that the code does not keep: the exit   *)
(* status is forwarded.                                                     *)
EXTENDS Connection

\* A peer that does nothing wrong: it logs in, runs one command, sends IGNORE
\* packets (keepalives) and reads everything; the transport stays up.  The
\* only failure left is recv() or send() interrupted by SIGCHLD.
HealthyPeer ==
    \/ HandshakeStep
    \/ ServeUserauthService
    \/ userauth_service_ready /\ ~authenticated /\ ServeUserauth(TRUE)
    \/ authenticated /\ opened = 0 /\ \E w \in Windows : ServeChannelOpen(w)
    \/ ServeExec
    \/ (Poll(TRUE) \/ RecvIgnored \/ RecvInterrupted) /\ UNCHANGED <<authVars, hsVars>>

HealthyNext ==
    \/ HealthyPeer
    \/ (SessionLocal \/ Child) /\ UNCHANGED <<authVars, hsVars>>

HealthySpec == Init /\ [][HealthyNext]_vars

\* docs/SERVER_EMBEDDED.md:35, "exit-status forwarding": with such a peer, the
\* connection does not end before the exit status has been sent.
ExitForwarded == pc = "done" => status_sent
=============================================================================
