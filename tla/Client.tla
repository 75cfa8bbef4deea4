------------------------------- MODULE Client -------------------------------
(***************************************************************************)
(* The noxssh client: main() of client/main.c from the TCP connection on,  *)
(* over the client half of common/noxssh_common.c.  The server's packets   *)
(* are parameters of the actions: the specification of this module lets    *)
(* any packet arrive, module ExecSystem feeds them from noxsshd.           *)
(*                                                                         *)
(* A packet is [t |-> type, n |-> length, status or window].  `sent' is    *)
(* what the last step put on the wire.  A key exchange may start inside a  *)
(* wait for something else, and inside a key exchange: `stack' holds the   *)
(* calls that wait for it to return.  A malformed packet, a packet for     *)
(* another channel, a bad MAC or signature, the peer's hang-up and a send  *)
(* that fails all end the call that meets them the same way: see Broken.   *)
(***************************************************************************)
EXTENDS Naturals, Sequences

CONSTANTS
    WAITMAX,     \* packets netnox_ssh_wait_for_message() reads: 32
    MAXDEPTH,    \* nested key exchanges the process stack has room for
    BANNERMAX,   \* NETNOX_SSH_MAX_BANNER_LINES: 8
    BUFLEN,      \* NETNOX_SSH_MAX_DATA_LEN, the receive buffer: 4096
    OPENWINDOW,  \* NETNOX_SSH_CHANNEL_WINDOW_SIZE, announced once: 65536
    BYTE,        \* 256: only the low byte of the exit status is kept
    RETRIES,     \* --connect-retries
    ALIVE,       \* --server-alive-interval in ticks, 0: off
    COUNTMAX,    \* --server-alive-count-max, 0: no limit
    REKEY,       \* --rekey-interval is set
    Lens,        \* lengths of the CHANNEL_DATA the server sends
    Statuses,    \* exit statuses the server sends
    NOSTATUS,    \* no exit status has come
    MaxPrinted   \* bound on the bytes received

ASSUME ClientAssumption ==
    /\ WAITMAX \in Nat \ {0} /\ MAXDEPTH \in Nat \ {0} /\ BANNERMAX \in Nat \ {0}
    /\ BUFLEN \in Nat \ {0} /\ OPENWINDOW \in Nat /\ BYTE \in Nat \ {0}
    /\ RETRIES \in Nat /\ ALIVE \in Nat /\ COUNTMAX \in Nat
    /\ REKEY \in BOOLEAN
    /\ Lens \subseteq Nat /\ Statuses \subseteq Nat /\ MaxPrinted \in Nat
    /\ NOSTATUS \notin Nat

VARIABLES
    pc,           \* where main() is
    opts,         \* command line (never changes)
    attempt, lines, \* TCP attempts and banner lines so far, 0 once they are over
    stack,        \* suspended calls, innermost first: [at, seen]
    seen,         \* packets read by the current wait or recv_data()
    has_key,
    password,     \* "unset", "empty" (set, but never sent) or "given"
    userauth_service_ready, authenticated,
    requests,     \* USERAUTH_REQUESTs sent (history)
    channel_open,
    status,       \* remote_exit_status, or NOSTATUS when not valid
    printed,      \* bytes written to stdout
    quiet,        \* ticks since io_quiet_since_sec
    unanswered,   \* unanswered_keepalive_count
    drain,        \* which noxssh_drain_shell_output() of the loop: 1 or 2
    exit_code,
    sent          \* packets sent in the last step

tcpVars == <<attempt, lines>>
kexVars == <<stack, seen>>
loginVars == <<has_key, password, userauth_service_ready, authenticated,
               requests>>
channelVars == <<channel_open, status, printed>>
aliveVars == <<quiet, unanswered, drain>>
vars == <<pc, opts, tcpVars, kexVars, loginVars, channelVars, aliveVars,
          exit_code, sent>>

\* What a shell reports for a process that overran its stack, or that sent on a
\* connection the server had closed: the client leaves SIGPIPE at its default.
SIGSEGV == 139
SIGPIPE == 141
Signals == {SIGSEGV, SIGPIPE}

KexWaits == {"ecdh", "newkeys"}
LoginWaits == {"svc_userauth", "auth_key", "auth_password", "svc_conn", "open",
               "pty", "request"}
\* The calls of netnox_ssh_wait_for_message().
Waits == KexWaits \cup LoginWaits
\* Where a packet is read.
Receiving == Waits \cup {"kexinit", "recv"}
PCs == Receiving \cup {"connect", "ident", "discard", "verify", "creds", "prompt",
                       "wait", "input", "done"}

\* The command line: --batch, a command, -T, and --io-timeout.
Options == [batch : BOOLEAN, command : BOOLEAN, pty : BOOLEAN, io_timeout : BOOLEAN]

\* The packets a wait returns on.
Expected(at) ==
    CASE at = "ecdh" -> {"ECDH_REPLY"}
      [] at = "newkeys" -> {"NEWKEYS"}
      [] at \in {"svc_userauth", "svc_conn"} -> {"SERVICE_ACCEPT"}
      [] at \in {"auth_key", "auth_password"} -> {"USERAUTH_SUCCESS", "USERAUTH_FAILURE"}
      [] at = "open" -> {"OPEN_CONFIRMATION", "OPEN_FAILURE"}
      [] at \in {"pty", "request"} -> {"CHANNEL_SUCCESS", "CHANNEL_FAILURE"}

Packet(t) == [t |-> t, n |-> 0]

Init ==
    /\ pc = "connect"
    /\ opts \in Options
    /\ attempt = 0 /\ lines = 0
    /\ stack = <<>> /\ seen = 0
    /\ has_key \in BOOLEAN /\ password \in {"unset", "empty", "given"}
    /\ userauth_service_ready = FALSE /\ authenticated = FALSE /\ requests = 0
    /\ channel_open = FALSE /\ status = NOSTATUS /\ printed = 0
    /\ quiet = 0 /\ unanswered = 0 /\ drain = 1
    /\ exit_code = 0
    /\ sent = <<>>

----------------------------------------------------------------------------
(* Going on, and ending.                                                   *)

\* Move to a wait or another point of the program, sending ms on the way.
Proceed(where, ms) == pc' = where /\ seen' = 0 /\ sent' = ms

\* The process ends; the state is left as it was for the properties to see.
Exit(code) ==
    /\ pc' = "done"
    /\ exit_code' = code
    /\ sent' = <<>>
    /\ stack' = <<>> /\ seen' = 0
    /\ UNCHANGED <<opts, tcpVars, loginVars, channelVars, aliveVars>>

\* Mutation: the status is used as it came.
WholeStatus == IF status = NOSTATUS THEN 0 ELSE status

\* Command mode: remote_status & 0xFF, or 0 when no status has come.
ExitStatus == IF status = NOSTATUS THEN 0 ELSE status % BYTE

\* noxssh_drain_shell_output() returns 0: read the user's next line, or go
\* round the loop of noxssh_interactive_shell().
Drained ==
    /\ pc' = IF drain = 1 THEN "input" ELSE "wait"
    /\ drain' = 1
    /\ stack' = <<>> /\ seen' = 0
    /\ sent' = <<>>
    /\ UNCHANGED <<opts, tcpVars, loginVars, channelVars, quiet, unanswered,
                   exit_code>>

\* The call of main() that is running, below any key exchange.
Base == IF stack = <<>> THEN pc ELSE stack[Len(stack)].at

\* A library call fails, from however deep a nesting, back to main(): the
\* login ends with 1; noxssh_print_channel_output() returns and the status
\* decides; the shell ends if it was reading (recv_data) and goes on if it was
\* waiting (noxssh_drain_shell_output() returns 0 for a failed rekey).
Fail ==
    \/ Base \notin {"wait", "recv"} /\ Exit(1)
    \/ Base \in {"wait", "recv"} /\ opts.command /\ Exit(ExitStatus)
    \/ Base = "recv" /\ ~opts.command /\ Exit(0)
    \/ Base = "wait" /\ ~opts.command /\ Drained

\* The end of the channel: EOF, CLOSE or an empty CHANNEL_DATA.
ChannelEnds == Exit(IF opts.command THEN ExitStatus ELSE 0)

\* A packet or a send fails, the server hangs up, or --io-timeout expires.
Broken ==
    /\ pc \in Receiving \cup {"ident", "discard"}
    /\ Fail \/ Exit(SIGPIPE)

----------------------------------------------------------------------------
(* Connection and identification.                                          *)

\* noxssh_connect_tcp(), tried again RETRIES times; then our identification.
Connect ==
    /\ pc = "connect"
    /\ Proceed("ident", <<Packet("IDENT")>>)
    /\ attempt' = 0
    /\ UNCHANGED <<opts, lines, stack, loginVars, channelVars, aliveVars, exit_code>>

ConnectFails ==
    /\ pc = "connect"
    /\ IF attempt < RETRIES
       THEN /\ attempt' = attempt + 1
            /\ sent' = <<>>
            /\ UNCHANGED <<pc, opts, lines, kexVars, loginVars, channelVars,
                           aliveVars, exit_code>>
       ELSE Exit(1)

\* netnox_ssh_recv_line() has more than the buffer holds, and drops the bytes up
\* to the LF, however many come: each is a recv() of its own, with the whole of
\* --io-timeout.  Carriage returns do not count, and go on as long.
LongLine(m) ==
    /\ pc = "ident" /\ m.t = "LONG"
    /\ pc' = "discard"
    /\ sent' = <<>>
    /\ UNCHANGED <<opts, tcpVars, kexVars, loginVars, channelVars, aliveVars, exit_code>>

\* A line that is not an identification, as the end of a long one never is.
BannerLine(m) ==
    /\ pc \in {"ident", "discard"} /\ m.t = "LINE"
    /\ IF lines + 1 < BANNERMAX
       THEN /\ lines' = lines + 1
            /\ pc' = "ident"
            /\ sent' = <<>>
            /\ UNCHANGED <<opts, attempt, kexVars, loginVars, channelVars,
                           aliveVars, exit_code>>
       ELSE Exit(1)

\* The server's identification; netnox_ssh_exchange_kexinit() starts.
IdentLine(m) ==
    /\ pc = "ident" /\ m.t = "IDENT"
    /\ Proceed("kexinit", <<Packet("KEXINIT")>>)
    /\ stack' = <<[at |-> "verify", seen |-> 0]>>
    /\ lines' = 0
    /\ UNCHANGED <<opts, attempt, loginVars, channelVars, aliveVars, exit_code>>

----------------------------------------------------------------------------
(* Key exchange.                                                           *)

\* netnox_ssh_exchange_kexinit() takes KEXINIT as the very next packet, and
\* fails on any other.
Kexinit(m) ==
    /\ pc = "kexinit"
    /\ IF m.t = "KEXINIT"
       THEN /\ Proceed("ecdh", <<Packet("ECDH_INIT")>>)
            /\ UNCHANGED <<opts, tcpVars, stack, loginVars, channelVars,
                           aliveVars, exit_code>>
       ELSE Fail

\* netnox_ssh_handle_server_kexinit(), called by a wait or by recv_data: our
\* KEXINIT and ECDH_INIT, and the caller is suspended.
ServerKexinit(m) ==
    /\ pc \in Waits \cup {"recv"} /\ m.t = "KEXINIT"
    /\ IF Len(stack) < MAXDEPTH
       THEN /\ Proceed("ecdh", <<Packet("KEXINIT"), Packet("ECDH_INIT")>>)
            /\ stack' = <<[at |-> pc, seen |-> seen]>> \o stack
            /\ UNCHANGED <<opts, tcpVars, loginVars, channelVars, aliveVars,
                           exit_code>>
       ELSE Exit(SIGSEGV)

EcdhReply(m) ==
    /\ pc = "ecdh" /\ m.t = "ECDH_REPLY"
    /\ Proceed("newkeys", <<Packet("NEWKEYS")>>)
    /\ UNCHANGED <<opts, tcpVars, stack, loginVars, channelVars, aliveVars,
                   exit_code>>

\* Mutation: a finished key exchange returns to the outermost caller.
ReturnToBase ==
    /\ pc' = Base /\ seen' = 0 /\ stack' = Tail(stack)

\* Mutation: the wait starts over with the packet behind the key exchange.
ReturnUncounted ==
    /\ pc' = stack[1].at
    /\ seen' = stack[1].seen
    /\ stack' = Tail(stack)

\* A finished key exchange returns to the call it interrupted: a wait counts
\* the KEXINIT as one of its packets.
ReturnFromKex ==
    /\ pc' = stack[1].at
    /\ seen' = IF stack[1].at \in Waits THEN stack[1].seen + 1 ELSE 0
    /\ stack' = Tail(stack)

NewKeys(m) ==
    /\ pc = "newkeys" /\ m.t = "NEWKEYS"
    /\ IF stack[1].at \in Waits /\ stack[1].seen + 1 >= WAITMAX
       THEN Fail
       ELSE /\ ReturnFromKex
            /\ sent' = <<>>
            /\ UNCHANGED <<opts, tcpVars, loginVars, channelVars, aliveVars,
                           exit_code>>

\* noxssh_maybe_rekey(), at the start of each slice of a wait for output.
Rekey ==
    /\ REKEY /\ pc = "wait"
    /\ Proceed("kexinit", <<Packet("KEXINIT")>>)
    /\ stack' = <<[at |-> "wait", seen |-> 0]>>
    /\ UNCHANGED <<opts, tcpVars, loginVars, channelVars, aliveVars, exit_code>>

\* netnox_ssh_wait_for_message() drops every other packet, up to WAITMAX.
Discard(m) ==
    /\ pc \in Waits /\ m.t \notin Expected(pc) \cup {"KEXINIT"}
    /\ IF seen + 1 < WAITMAX
       THEN /\ seen' = seen + 1
            /\ sent' = <<>>
            /\ UNCHANGED <<pc, opts, tcpVars, stack, loginVars, channelVars,
                           aliveVars, exit_code>>
       ELSE Fail

----------------------------------------------------------------------------
(* Host key, credentials, authentication.                                  *)

\* noxssh_verify_host_key(): see the README for what is not modelled of it.
VerifyHostKey(trusted) ==
    /\ pc = "verify"
    /\ IF trusted
       THEN /\ Proceed("creds", <<>>)
            /\ UNCHANGED <<opts, tcpVars, stack, loginVars, channelVars,
                           aliveVars, exit_code>>
       ELSE Exit(1)

\* netnox_ssh_client_authenticate() once it has the service: the key first,
\* else the password; with an empty password and no key there is no method.
FirstMethod(pw) ==
    \/ /\ has_key \/ pw = "given"
       /\ Proceed(IF has_key THEN "auth_key" ELSE "auth_password",
                  <<Packet("USERAUTH_REQUEST")>>)
       /\ requests' = requests + 1
       /\ password' = pw
       /\ userauth_service_ready' = TRUE
       /\ UNCHANGED <<opts, tcpVars, stack, has_key, authenticated, channelVars,
                      aliveVars, exit_code>>
    \/ ~has_key /\ pw # "given" /\ Exit(1)

\* Mutation: the service is not asked for before the first request.
AuthenticateNoService(pw) == FirstMethod(pw)

\* netnox_ssh_client_authenticate() with password pw.
Authenticate(pw) ==
    IF userauth_service_ready
    THEN FirstMethod(pw)
    ELSE /\ Proceed("svc_userauth", <<Packet("SERVICE_USERAUTH")>>)
         /\ password' = pw
         /\ UNCHANGED <<opts, tcpVars, stack, has_key, userauth_service_ready,
                        authenticated, requests, channelVars, aliveVars, exit_code>>

\* noxssh_prompt_password() comes next.
AskPassword ==
    /\ Proceed("prompt", <<>>)
    /\ UNCHANGED <<opts, tcpVars, stack, loginVars, channelVars, aliveVars,
                   exit_code>>

\* A key or a password was given.
HasCredentials == password # "unset" \/ has_key

\* An identity file that cannot be loaded ends the client.  With no key and no
\* password the user is asked; in batch mode main() skips authentication,
\* session and command, and returns app_exit_code as it was initialised.
Credentials ==
    /\ pc = "creds"
    /\ \/ Exit(1)
       \/ HasCredentials /\ Authenticate(password)
       \/ ~HasCredentials /\ ~opts.batch /\ AskPassword
       \/ ~HasCredentials /\ opts.batch /\ Exit(0)

\* noxssh_prompt_password() fails, or returns a line that may be empty.
Prompt ==
    /\ pc = "prompt"
    /\ Exit(1) \/ \E pw \in {"empty", "given"} : Authenticate(pw)

UserauthService(m) ==
    /\ pc = "svc_userauth" /\ m.t = "SERVICE_ACCEPT"
    /\ FirstMethod(password)

\* USERAUTH_SUCCESS; netnox_ssh_client_open_session() asks for the service.
Accepted(m) ==
    /\ pc \in {"auth_key", "auth_password"} /\ m.t = "USERAUTH_SUCCESS"
    /\ Proceed("svc_conn", <<Packet("SERVICE_CONNECTION")>>)
    /\ authenticated' = TRUE
    /\ UNCHANGED <<opts, tcpVars, stack, has_key, password,
                   userauth_service_ready, requests, channelVars, aliveVars,
                   exit_code>>

\* USERAUTH_FAILURE: after the key the password, if there is one; then, unless
\* a password was set or the client is in batch mode, a prompt.
Rejected(m) ==
    /\ pc \in {"auth_key", "auth_password"} /\ m.t = "USERAUTH_FAILURE"
    /\ \/ /\ pc = "auth_key" /\ password = "given"
          /\ Proceed("auth_password", <<Packet("USERAUTH_REQUEST")>>)
          /\ requests' = requests + 1
          /\ UNCHANGED <<opts, tcpVars, stack, has_key, password,
                         userauth_service_ready, authenticated, channelVars,
                         aliveVars, exit_code>>
       \/ password = "unset" /\ ~opts.batch /\ AskPassword
       \/ password = "unset" /\ opts.batch /\ Exit(1)
       \/ (pc = "auth_password" \/ password = "empty") /\ Exit(1)

----------------------------------------------------------------------------
(* Session: netnox_ssh_client_open_session(), _exec(), _request_shell_ex() *)

ConnectionService(m) ==
    /\ pc = "svc_conn" /\ m.t = "SERVICE_ACCEPT"
    /\ Proceed("open", <<[t |-> "OPEN", n |-> OPENWINDOW]>>)
    /\ UNCHANGED <<opts, tcpVars, stack, loginVars, channelVars, aliveVars,
                   exit_code>>

\* The channel is open: "exec", or "pty-req" and "shell".
OpenConfirmed(m) ==
    /\ pc = "open" /\ m.t = "OPEN_CONFIRMATION"
    /\ channel_open' = TRUE
    /\ IF ~opts.command /\ opts.pty THEN Proceed("pty", <<Packet("PTY")>>)
                                    ELSE Proceed("request", <<Packet("START")>>)
    /\ UNCHANGED <<opts, tcpVars, stack, loginVars, status, printed, aliveVars,
                   exit_code>>

PtyGranted(m) ==
    /\ pc = "pty" /\ m.t = "CHANNEL_SUCCESS"
    /\ Proceed("request", <<Packet("START")>>)
    /\ UNCHANGED <<opts, tcpVars, stack, loginVars, channelVars, aliveVars,
                   exit_code>>

Started(m) ==
    /\ pc = "request" /\ m.t = "CHANNEL_SUCCESS"
    /\ Proceed("wait", <<>>)
    /\ UNCHANGED <<opts, tcpVars, stack, loginVars, channelVars, aliveVars,
                   exit_code>>

\* OPEN_FAILURE, or CHANNEL_FAILURE for the PTY, the command or the shell.
Refused(m) ==
    /\ \/ pc = "open" /\ m.t = "OPEN_FAILURE"
       \/ pc \in {"pty", "request"} /\ m.t = "CHANNEL_FAILURE"
    /\ Exit(1)

----------------------------------------------------------------------------
(* Output: noxssh_wait_socket_or_keepalive() and recv_data().              *)

\* select() reports the socket readable.
Readable ==
    /\ pc = "wait"
    /\ Proceed("recv", <<>>)
    /\ UNCHANGED <<opts, tcpVars, stack, loginVars, channelVars, aliveVars,
                   exit_code>>

\* Mutation: the number of unanswered keepalives is not counted up.
AliveUncounted ==
    IF quiet + 1 < ALIVE
    THEN quiet' = quiet + 1 /\ UNCHANGED unanswered
    ELSE quiet' = 0 /\ UNCHANGED unanswered

\* io_quiet_since_sec and the count after one more slice without input.
CountAlive ==
    IF quiet + 1 < ALIVE
    THEN quiet' = quiet + 1 /\ UNCHANGED unanswered
    ELSE quiet' = 0 /\ unanswered' = unanswered + 1

\* A slice of the wait passes without input.  With keepalives on, an IGNORE is
\* sent after ALIVE quiet ticks; one too many unanswered and it is over.
Slice ==
    /\ pc = "wait"
    /\ ALIVE > 0
    /\ CountAlive
    /\ pc' = IF COUNTMAX > 0 /\ unanswered' > COUNTMAX THEN "done" ELSE "wait"
    /\ exit_code' = IF pc' = "done" /\ opts.command THEN ExitStatus ELSE exit_code
    /\ sent' = IF quiet' = 0 THEN <<Packet("IGNORE")>> ELSE <<>>
    /\ UNCHANGED <<opts, tcpVars, kexVars, loginVars, channelVars, drain>>

\* select() or the send of a keepalive fails.
WaitBreaks == pc = "wait" /\ (Fail \/ Exit(SIGPIPE))

\* The 60, 250 or 300 ms of a wait in shell mode are over.
WaitEnds == pc = "wait" /\ ~opts.command /\ Drained

\* Mutation: the buffer is one byte shorter (room for a terminating NUL).
ReceiveDataShort(m) ==
    LET copied == IF m.n < BUFLEN THEN m.n ELSE BUFLEN - 1 IN
    /\ pc = "recv" /\ m.t = "DATA" /\ copied > 0
    /\ printed + copied <= MaxPrinted
    /\ printed' = printed + copied
    /\ quiet' = 0 /\ unanswered' = 0
    /\ Proceed("wait", <<>>)
    /\ UNCHANGED <<opts, tcpVars, stack, loginVars, channel_open, status, drain,
                   exit_code>>

\* CHANNEL_DATA and CHANNEL_EXTENDED_DATA: what fits the buffer is printed.
ReceiveData(m) ==
    LET copied == IF m.n < BUFLEN THEN m.n ELSE BUFLEN IN
    /\ pc = "recv" /\ m.t = "DATA"
    /\ printed + copied <= MaxPrinted
    /\ IF copied = 0
       THEN ChannelEnds
       ELSE /\ printed' = printed + copied
            /\ quiet' = 0 /\ unanswered' = 0
            /\ Proceed("wait", <<>>)
            /\ UNCHANGED <<opts, tcpVars, stack, loginVars, channel_open, status,
                           drain, exit_code>>

\* recv_data() reads on, with no limit: no select() and no keepalive before the
\* next packet.  Its packets are counted modulo WAITMAX, to tell a server that
\* sends from one that is silent.
ReadsOn ==
    /\ seen' = (seen + 1) % WAITMAX
    /\ sent' = <<>>
    /\ UNCHANGED <<pc, opts, tcpVars, stack, loginVars, channel_open, printed,
                   aliveVars, exit_code>>

\* "exit-status" is recorded.
ReceiveStatus(m) ==
    /\ pc = "recv" /\ m.t = "STATUS"
    /\ status' = m.n
    /\ ReadsOn

ReceiveEof(m) == pc = "recv" /\ m.t = "EOF" /\ ChannelEnds

ReceiveClose(m) ==
    /\ pc = "recv" /\ m.t = "CLOSE"
    /\ pc' = "done"
    /\ exit_code' = IF opts.command THEN ExitStatus ELSE 0
    /\ channel_open' = FALSE
    /\ sent' = <<>>
    /\ UNCHANGED <<opts, tcpVars, kexVars, loginVars, status, printed, aliveVars>>

\* Every other packet, WINDOW_ADJUST among them, is dropped.
ReceiveOther(m) ==
    /\ pc = "recv" /\ m.t \notin {"KEXINIT", "DATA", "STATUS", "EOF", "CLOSE"}
    /\ ReadsOn
    /\ UNCHANGED status

\* fgets(): a line goes out as CHANNEL_DATA, whatever the server's window.
InputLine ==
    /\ pc = "input"
    /\ drain' = 2
    /\ quiet' = 0 /\ unanswered' = 0
    /\ Proceed("wait", <<[t |-> "DATA", n |-> 1]>>)
    /\ UNCHANGED <<opts, tcpVars, stack, loginVars, channelVars, exit_code>>

\* End of file, "exit", or a line that cannot be sent.
InputEnds == pc = "input" /\ (Exit(0) \/ Exit(SIGPIPE))

----------------------------------------------------------------------------
\* One packet of the server is consumed.
Receive(m) ==
    \/ LongLine(m) \/ BannerLine(m) \/ IdentLine(m)
    \/ Kexinit(m) \/ ServerKexinit(m) \/ EcdhReply(m) \/ NewKeys(m) \/ Discard(m)
    \/ UserauthService(m) \/ Accepted(m) \/ Rejected(m)
    \/ ConnectionService(m) \/ OpenConfirmed(m) \/ PtyGranted(m) \/ Started(m)
    \/ Refused(m)
    \/ ReceiveData(m) \/ ReceiveStatus(m) \/ ReceiveEof(m) \/ ReceiveClose(m)
    \/ ReceiveOther(m)

\* The user, and main() between two packets.
User == \/ \E trusted \in BOOLEAN : VerifyHostKey(trusted)
        \/ Prompt \/ InputLine \/ InputEnds
Local == Connect \/ ConnectFails \/ Credentials \/ WaitEnds \/ Rekey

\* Any packet a server can send.
AnyPacket ==
    {Packet(t) : t \in {"LONG", "LINE", "IDENT", "KEXINIT", "ECDH_REPLY", "NEWKEYS",
        "SERVICE_ACCEPT", "USERAUTH_SUCCESS", "USERAUTH_FAILURE",
        "OPEN_CONFIRMATION", "OPEN_FAILURE", "CHANNEL_SUCCESS",
        "CHANNEL_FAILURE", "EOF", "CLOSE", "OTHER"}}
    \cup [t : {"DATA"}, n : Lens] \cup [t : {"STATUS"}, n : Statuses]

Next ==
    \/ \E m \in AnyPacket : Receive(m)
    \/ Broken \/ WaitBreaks \/ Readable \/ Slice \/ User \/ Local

Spec == Init /\ [][Next]_vars

ServerSends == \E m \in AnyPacket : Receive(m)

\* main() runs, and time passes while the client waits.  With --io-timeout a
\* receive returns, with a packet or without; without it a receive may take for
\* ever, and with it the bytes of a line that does not end.  The user need not
\* answer.
Fairness ==
    /\ WF_vars(Connect \/ ConnectFails \/ Credentials)
    /\ WF_vars(opts.io_timeout /\ pc # "discard" /\ (ServerSends \/ Broken))
    /\ WF_vars(Slice)

FairSpec == Spec /\ Fairness

----------------------------------------------------------------------------
\* A key exchange, however nested, returns to the call it interrupted: only
\* the innermost call reads packets, the calls above the outermost are key
\* exchanges, and the outermost is a call of main().
KexNests ==
    /\ pc \in KexWaits \cup {"kexinit"} => stack # <<>>
    /\ pc \notin KexWaits \cup {"kexinit"} => stack = <<>>
    /\ \A k \in 1..Len(stack) :
         stack[k].at \in (IF k < Len(stack) THEN KexWaits
                          ELSE LoginWaits \cup {"verify", "wait", "recv"})

\* The packets the client sends.
SentTypes == {"IDENT", "KEXINIT", "ECDH_INIT", "NEWKEYS", "SERVICE_USERAUTH",
              "USERAUTH_REQUEST", "SERVICE_CONNECTION", "OPEN", "PTY", "START",
              "IGNORE", "DATA"}

\* Types; a wait never reads more than WAITMAX packets, and the waits on the
\* stack are those of nested key exchanges.
TypeOK ==
    /\ pc \in PCs
    /\ opts \in Options
    /\ attempt \in 0..RETRIES /\ lines \in 0..(BANNERMAX - 1)
    /\ stack \in Seq([at : PCs, seen : 0..(WAITMAX - 1)])
    /\ seen \in 0..(WAITMAX - 1)
    /\ has_key \in BOOLEAN /\ password \in {"unset", "empty", "given"}
    /\ userauth_service_ready \in BOOLEAN /\ authenticated \in BOOLEAN
    /\ requests \in Nat /\ channel_open \in BOOLEAN
    /\ status \in Statuses \cup {NOSTATUS} /\ printed \in 0..MaxPrinted
    /\ quiet \in Nat /\ unanswered \in Nat /\ drain \in {1, 2}
    /\ exit_code \in Nat
    /\ sent \in Seq([t : SentTypes, n : Nat])
    /\ KexNests

\* README.md: "the process exit code now mirrors the remote exit-status when
\* provided by the server", whatever ended the output behind it.
ExitMirrorsStatus ==
    pc = "done" /\ opts.command /\ status # NOSTATUS /\ exit_code \notin Signals
        => exit_code \in 0..(BYTE - 1) /\ exit_code = status % BYTE

\* Connecting, identification, key exchange, authentication and channel
\* requests, except while the user is asked.
LoggingIn ==
    /\ pc \notin {"verify", "prompt"}
    /\ Base \in LoginWaits \cup {"connect", "ident", "discard", "verify", "creds"}

\* With --io-timeout the login ends whatever the server sends, a line without an
\* end excepted: a wait gives up after WAITMAX packets, a KEXINIT counts as one
\* of them, and there are at most BANNERMAX lines.
LoginEnds ==
    LoggingIn /\ opts.io_timeout ~> ~LoggingIn \/ [](pc = "discard")

\* README.md: "Drop dead idle sessions after 3 unanswered keepalives", and "Use
\* `--io-timeout` to bound socket recv/send stalls": when the server stops sending
\* in command mode, the keepalives end the wait, and --io-timeout ends recv_data()
\* and the key exchanges.  Without --io-timeout these two may last for ever, since
\* no keepalive is sent in them.
DeadServerDropped ==
    \/ []<><<ServerSends>>_vars
    \/ opts.command /\ Base \in {"wait", "recv"}
         ~> pc = "done" \/ (~opts.io_timeout /\ pc # "wait")
=============================================================================
