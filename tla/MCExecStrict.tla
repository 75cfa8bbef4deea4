---------------------------- MODULE MCExecStrict ----------------------------
(* Two statements of README.md about `noxssh user@host command' that client *)
(* and server together do not keep: a command whose output is larger than   *)
(* the window, and a command that is silent for longer than the keepalives. *)
EXTENDS ExecSystem

\* Nothing fails: SIGCHLD interrupts no recv() or send(), and the server's idle
\* limit ends only a session that has output to send and no window for it.
HealthyNext ==
    /\ SysNext
    /\ ~intr'
    /\ pc = "poll" /\ pc' = "teardown" /\ link = "up" => pipe > 0

HealthySpec == SysInit /\ [][HealthyNext]_sysVars

\* README.md:86, "Run a single command and exit", and README.md:105, "the
\* process exit code now mirrors the remote `exit-status`": when nothing fails,
\* a client whose command was started ends with its status and whole output.
CommandReported ==
    cpc = "done" /\ child # "none" => status # NOSTATUS /\ printed = produced

\* README.md:97, "Drop dead idle sessions after 3 unanswered keepalives": the
\* wait for output does not end while the server is alive and connected.
DropOnlyDead ==
    [][cpc = "wait" /\ cpc' = "done" => pc = "done" \/ link = "down"]_sysVars
=============================================================================
