----------------------------- MODULE ExecSystem -----------------------------
(***************************************************************************)
(* noxssh and noxsshd together: `noxssh user@host command', from the TCP   *)
(* connection to both processes' ends.  The server is module Connection,   *)
(* the client an instance of module Client; each reads what the other      *)
(* sent, in order.  TCP loses nothing while both sockets are open.  When   *)
(* the client exits, the server's transport is down; when the server has   *)
(* returned, the client reads what is left and then the end, or, if the    *)
(* server left packets unread, a reset that may overtake the rest.         *)
(*                                                                         *)
(* Not taken from Connection here: the rekey limit (256 MiB), the overall  *)
(* handshake deadline (the 10 seconds of SO_RCVTIMEO end the same waits),  *)
(* and peers that break the protocol.                                      *)
(***************************************************************************)
EXTENDS Connection, Sequences

CONSTANTS
    WAITMAX, MAXDEPTH, BANNERMAX, BUFLEN, OPENWINDOW, BYTE, RETRIES, ALIVE,
    COUNTMAX, REKEY, Lens, Statuses, NOSTATUS, MaxPrinted, \* of module Client
    ExitCode     \* the status the command exits with

ASSUME ExecAssumption ==
    /\ ExitCode \in Nat /\ NOSTATUS \notin Nat
    /\ BUFLEN \in Nat /\ CHUNK <= BUFLEN   \* both NETNOX_SSH_MAX_DATA_LEN
    /\ OPENWINDOW \in Windows
    /\ MaxAttempts >= 3                    \* 6
    /\ REKEY = FALSE                       \* --rekey-interval is not given

\* What this server sends is among what the client may be sent.
ASSUME StreamAssumption == 1..CHUNK \subseteq Lens /\ ExitCode \in Statuses

VARIABLES
    cpc, opts, attempt, c_lines, stack, seen, has_key, password, c_userauth,
    c_authenticated, requests, c_channel_open, status, printed, quiet,
    unanswered, drain, exit_code, sent, \* of module Client
    c2s, s2c     \* packets under way

Cli == INSTANCE Client WITH pc <- cpc, lines <- c_lines,
    userauth_service_ready <- c_userauth, authenticated <- c_authenticated,
    channel_open <- c_channel_open

cliVars == <<cpc, opts, attempt, c_lines, stack, seen, has_key, password,
             c_userauth, c_authenticated, requests, c_channel_open, status,
             printed, quiet, unanswered, drain, exit_code, sent>>
sysVars == <<vars, cliVars, c2s, s2c>>

SysInit ==
    /\ Init
    /\ Cli!Init
    /\ opts = [batch |-> FALSE, command |-> TRUE, pty |-> FALSE, io_timeout |-> FALSE]
    /\ c2s = <<>> /\ s2c = <<>>

----------------------------------------------------------------------------
(* The client.                                                             *)

\* What the client sends is under way; with its exit the transport is down.
ClientSends ==
    /\ c2s' = c2s \o sent'
    /\ link' = IF cpc' = "done" THEN "down" ELSE link
    /\ UNCHANGED <<pc, over, channel_open, endVars, windowVars, sessionVars,
                   wireVars, authVars, hsVars>>

ClientReceives ==
    /\ s2c # <<>>
    /\ Cli!Receive(Head(s2c))
    /\ s2c' = Tail(s2c)
    /\ ClientSends

ClientMoves ==
    /\ \/ Cli!Local
       \/ Cli!Readable /\ (s2c # <<>> \/ pc = "done")
    /\ UNCHANGED s2c
    /\ ClientSends

ClientUser == Cli!User /\ UNCHANGED s2c /\ ClientSends

\* A keepalive slice passes with nothing to read.
ClientSlice ==
    /\ s2c = <<>> /\ pc # "done"
    /\ Cli!Slice
    /\ UNCHANGED s2c
    /\ ClientSends

\* The end of the connection, or a reset: the server closed its socket with
\* packets of ours unread.
ClientBroken ==
    /\ pc = "done"
    /\ s2c = <<>> \/ c2s # <<>>
    /\ Cli!Broken \/ Cli!WaitBreaks
    /\ s2c' = <<>>
    /\ ClientSends

----------------------------------------------------------------------------
(* The server.                                                             *)

\* The first packet under way is of type t and is read.
Hears(t) == c2s # <<>> /\ Head(c2s).t = t /\ c2s' = Tail(c2s)

Replies(ts) == s2c' = s2c \o [k \in 1..Len(ts) |-> Cli!Packet(ts[k])]

\* The handshake: the packet each step reads, and what it sends.
Awaited == CASE pc = "ident" -> "IDENT" [] pc = "kexinit" -> "KEXINIT"
             [] pc = "ecdh" -> "ECDH_INIT" [] pc = "newkeys" -> "NEWKEYS"

HandshakeReply == CASE pc = "ident" -> <<"IDENT">> [] pc = "kexinit" -> <<"KEXINIT">>
                    [] pc = "ecdh" -> <<"ECDH_REPLY", "NEWKEYS">>
                    [] pc = "newkeys" -> <<>>

ServerHandshake ==
    /\ pc \in HandshakePCs /\ c2s # <<>>
    /\ c2s' = Tail(c2s)
    /\ IF Head(c2s).t = Awaited
       THEN HandshakeStep /\ Replies(HandshakeReply)
       ELSE HandshakeFails /\ UNCHANGED s2c

\* The packets the client sends to the loop of netnox_ssh_server_serve_one().
\* noxsshd accepts authorized keys and no passwords.
ServerServes ==
    \/ /\ Hears("SERVICE_USERAUTH") /\ ServeUserauthService
       /\ Replies(<<"SERVICE_ACCEPT">>)
    \/ /\ Hears("SERVICE_CONNECTION") /\ ServeConnectionService
       /\ Replies(IF authenticated THEN <<"SERVICE_ACCEPT">> ELSE <<>>)
    \/ /\ Hears("USERAUTH_REQUEST")
       /\ \E ok \in IF cpc = "auth_key" THEN BOOLEAN ELSE {FALSE} :
            /\ ServeUserauth(ok)
            /\ Replies(IF auth_attempts' = auth_attempts THEN <<>>
                       ELSE IF ok THEN <<"USERAUTH_SUCCESS">>
                       ELSE <<"USERAUTH_FAILURE">>)
    \/ /\ Hears("OPEN") /\ ServeChannelOpen(Head(c2s).n)
       /\ Replies(IF opened' > opened THEN <<"OPEN_CONFIRMATION">> ELSE <<>>)
    \/ /\ Hears("START") /\ (ServeExec \/ ServeExecFails)
       /\ Replies(<<"CHANNEL_SUCCESS">>)
    \/ /\ Hears("IGNORE") /\ Serving
       /\ Replies(<<>>)
       /\ UNCHANGED vars

\* The receive fails: the client is gone, or silent for 10 seconds.
ServerStops ==
    /\ c2s = <<>> \/ link = "down"
    /\ HandshakeFails \/ ReceiveFails \/ CloseWaitEnds
    /\ UNCHANGED <<c2s, s2c>>

\* In the session only keepalives arrive.  recv() is interrupted by SIGCHLD,
\* or the client is gone.
ServerReceives ==
    /\ \/ Hears("IGNORE") /\ RecvIgnored
       \/ (intr \/ link = "down") /\ RecvBreaks /\ UNCHANGED c2s
    /\ UNCHANGED <<s2c, authVars, hsVars>>

\* What a step of the session sends, read off what it changed.
Emitted ==
       (IF delivered' > delivered
        THEN <<[t |-> "DATA", n |-> delivered' - delivered]>> ELSE <<>>)
    \o (IF status_sent' # status_sent
        THEN <<[t |-> "STATUS", n |-> ExitCode]>> ELSE <<>>)
    \o (IF eof_sent' # eof_sent THEN <<Cli!Packet("EOF")>> ELSE <<>>)
    \o (IF closes' > closes THEN <<Cli!Packet("CLOSE")>> ELSE <<>>)

\* poll() reports the transport exactly when a packet is there or the client is
\* gone: an iteration without it needs an open, silent connection.
ServerRuns ==
    /\ \/ Poll(TRUE) /\ (c2s # <<>> \/ link = "down")
       \/ SessionLocal /\ (pc = "poll" => IF link = "down" THEN Break
                                                          ELSE c2s = <<>>)
    /\ s2c' = s2c \o Emitted
    /\ UNCHANGED <<c2s, authVars, hsVars>>

\* 30 minutes without a packet, and without output that may be sent.
ServerIdles ==
    /\ PollIdle /\ c2s = <<>> /\ link = "up"
    /\ UNCHANGED <<c2s, s2c, authVars, hsVars>>

CommandRuns == Child /\ UNCHANGED <<c2s, s2c, authVars, hsVars>>

ClientStep == ClientReceives \/ ClientMoves \/ ClientBroken

ServerStep ==
    /\ \/ ServerHandshake \/ ServerServes \/ ServerStops \/ ServerReceives
       \/ ServerRuns \/ ServerIdles
    /\ UNCHANGED cliVars

\* The close wait of the server runs out.
Drains == CloseWaitTick /\ UNCHANGED <<c2s, s2c, cliVars>>

SysNext ==
    \/ ClientStep \/ ClientUser \/ ClientSlice
    \/ ServerStep \/ Drains
    \/ CommandRuns /\ UNCHANGED cliVars

\* Both processes run when they can, their waits are bounded as in Connection,
\* and the child reaches setsid().  Nothing is assumed of the user, of the
\* command, or of the time a keepalive takes.
SysSpec ==
    /\ SysInit /\ [][SysNext]_sysVars
    /\ WF_sysVars(ClientStep)
    /\ WF_sysVars(ServerStep)
    /\ WF_sysVars(Drains)
    /\ WF_sysVars(ChildSetsid /\ UNCHANGED <<c2s, s2c, authVars, hsVars, cliVars>>)

----------------------------------------------------------------------------
\* A client that has the exit status has printed every byte the command wrote,
\* whoever closed first and whatever else was under way, and its exit code is
\* the command's.
OutputIntact ==
    status # NOSTATUS =>
        /\ printed = produced
        /\ cpc = "done" /\ exit_code \notin Cli!Signals
             => exit_code = ExitCode % BYTE

\* The two halves agree on the protocol: a packet of the client never makes the
\* server end the connection (only fork() failing may), and the server reads
\* everything the client sends in the order it expects it.
ClientAcceptable ==
    [][Len(c2s') < Len(c2s) /\ pc' = "done" => session_started']_sysVars

\* When the command and everything it started have ended, the client ends: no
\* order of exit, output, keepalives and hang-up leaves both sides waiting.
CommandEndsClient ==
    child \in {"zombie", "reaped"} /\ ~out_open ~> cpc = "done"

\* When the client has ended, the server returns, and its child is gone.
ClientEndsServer ==
    cpc = "done" ~> pc = "done" /\ child \in {"none", "reaped"}
=============================================================================
