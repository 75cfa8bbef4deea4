----------------------------- MODULE Connection -----------------------------
(***************************************************************************)
(* One accepted connection of noxsshd: netnox_ssh_server_serve_one() of    *)
(* common/noxssh_server.c, from the identification line to the return.     *)
(* It extends Session, the command or shell that a channel request starts. *)
(* The peer may send any packet at any time: one action per packet the     *)
(* outer loop dispatches on.                                               *)
(***************************************************************************)
EXTENDS Session

CONSTANTS
    MaxAttempts,     \* USERAUTH_REQUESTs before the connection is dropped: 6
    MaxBannerLines,  \* lines read while waiting for "SSH-": 8
    DataLens,        \* lengths of CHANNEL_DATA the peer sends
    Windows          \* initial windows and WINDOW_ADJUST amounts the peer sends

ASSUME ConnectionAssumption ==
    /\ MaxAttempts \in Nat \ {0}
    /\ MaxBannerLines \in Nat \ {0}
    /\ DataLens \subseteq 0..MAXDATA
    /\ Windows \subseteq 0..MAXU32

VARIABLES
    lines,                      \* banner lines read so far
    userauth_service_ready, connection_service_ready, authenticated,
    auth_attempts,
    handshake_expired           \* handshake_deadline_ms has passed

authVars == <<userauth_service_ready, connection_service_ready, authenticated,
              auth_attempts>>
hsVars == <<lines, handshake_expired>>
sessionVars == <<loopVars, childVars>>

vars == <<pc, ret, link, over, channel_open, want_pty, session_started,
          close_deadline, windowVars, loopVars, childVars, wireVars, authVars,
          hsVars>>

HandshakePCs == {"ident", "discard", "kexinit", "ecdh", "newkeys"}

Init ==
    /\ pc = "ident" /\ ret = "none" /\ link = "up" /\ over = FALSE
    /\ channel_open = FALSE /\ want_pty = FALSE /\ session_started = FALSE
    /\ close_deadline = UNSET
    /\ local_window_size = 0 /\ remote_window_size = 0
    /\ ready = {} /\ output_eof = FALSE /\ peer_closed = FALSE
    /\ stdin_eof = FALSE /\ chunk = 0
    /\ child = "none" /\ out_open = FALSE /\ pipe = 0 /\ intr = FALSE
    /\ produced = 0 /\ delivered = 0 /\ granted = 0
    /\ opened = 0 /\ closes = 0 /\ status_sent = FALSE /\ eof_sent = FALSE
    /\ lines = 0
    /\ userauth_service_ready = FALSE /\ connection_service_ready = FALSE
    /\ authenticated = FALSE /\ auth_attempts = 0
    /\ handshake_expired = FALSE

----------------------------------------------------------------------------
(* The world: the peer goes away, time passes, traffic adds up.            *)

PeerGone ==
    /\ link = "up"
    /\ link' = "down"
    /\ UNCHANGED <<pc, over, channel_open, endVars, windowVars, sessionVars,
                   wireVars, authVars, hsVars>>

\* Ends for good once a session has started: nothing reads it any more.
HandshakeExpire ==
    /\ ~handshake_expired /\ ~session_started /\ pc # "done"
    /\ handshake_expired' = TRUE
    /\ UNCHANGED <<pc, envVars, channel_open, endVars, windowVars, sessionVars,
                   wireVars, authVars, lines>>

CloseWaitTick ==
    /\ close_deadline \in 1..CLOSEWAIT
    /\ pc # "done"
    /\ close_deadline' = close_deadline - 1
    /\ UNCHANGED <<pc, envVars, channel_open, ret, session_started, want_pty,
                   windowVars, sessionVars, wireVars, authVars, hsVars>>

\* encrypted_bytes_sent or encrypted_bytes_recv reaches the threshold.
RekeyLimit ==
    /\ ~over /\ pc \notin HandshakePCs \cup {"done"}
    /\ over' = TRUE
    /\ UNCHANGED <<pc, link, channel_open, endVars, windowVars, sessionVars,
                   wireVars, authVars, hsVars>>

----------------------------------------------------------------------------
(* Returning, and receiving in the outer loop.                             *)

Finish(result) ==
    /\ pc' = "done"
    /\ ret' = result
    /\ UNCHANGED <<envVars, channel_open, close_deadline, session_started,
                   want_pty, windowVars, sessionVars, wireVars, authVars, hsVars>>

\* Mutation: each packet has its own 10-second deadline and no other.
NoHandshakeLimit == TRUE

\* The 30-second deadline of netnox_ssh_recv_exact(), _recv_line() and
\* _send_all() binds until a session has started.
InTime == session_started \/ ~handshake_expired

----------------------------------------------------------------------------
(* srv_handshake_to_encrypted()                                            *)

\* Mutation: the banner lines are not counted against the limit.
BannerLineUnbounded ==
    /\ pc = "ident" /\ InTime
    /\ lines' = lines + 1
    /\ UNCHANGED <<pc, envVars, channel_open, endVars, windowVars, sessionVars,
                   wireVars, authVars, handshake_expired>>

\* A line that does not start with "SSH-": at most MaxBannerLines are read.
BannerLine ==
    /\ pc = "ident" /\ InTime
    /\ lines + 1 < MaxBannerLines
    /\ lines' = lines + 1
    /\ UNCHANGED <<pc, envVars, channel_open, endVars, windowVars, sessionVars,
                   wireVars, authVars, handshake_expired>>

\* A line longer than the buffer: netnox_ssh_recv_line() reads on to the LF
\* in a loop that does not look at the deadline.
BannerOverlong ==
    /\ pc = "ident" /\ InTime
    /\ pc' = "discard"
    /\ UNCHANGED <<envVars, channel_open, endVars, windowVars, sessionVars,
                   wireVars, authVars, hsVars>>

DiscardEnds ==
    /\ pc = "discard"
    /\ lines + 1 < MaxBannerLines
    /\ lines' = lines + 1
    /\ pc' = "ident"
    /\ UNCHANGED <<envVars, channel_open, endVars, windowVars, sessionVars,
                   wireVars, authVars, handshake_expired>>

\* The peer's identification is read and ours is sent; then srv_exchange_
\* kexinit() and the three packets of srv_perform_curve25519_kex().
HandshakeStep ==
    /\ pc \in {"ident", "kexinit", "ecdh", "newkeys"} /\ InTime
    /\ pc' = CASE pc = "ident" -> "kexinit"
               [] pc = "kexinit" -> "ecdh"
               [] pc = "ecdh" -> "newkeys"
               [] pc = "newkeys" -> "serve"
    /\ lines' = 0
    /\ UNCHANGED <<envVars, channel_open, endVars, windowVars, sessionVars,
                   wireVars, authVars, handshake_expired>>

\* A receive or send fails, a packet is not the expected one, an algorithm
\* is missing from the peer's KEXINIT, or the last banner line was no ident.
HandshakeFails ==
    /\ pc \in HandshakePCs
    /\ Finish("failed")

----------------------------------------------------------------------------
(* The loop of netnox_ssh_server_serve_one().                              *)

\* srv_wait_close_packet() returns 0: deadline passed, or peer hung up; it
\* returns -1 on other errors of the transport.
CloseWaitEnds ==
    /\ pc = "serve"
    /\ \/ close_deadline = 0 /\ Finish("success")
       \/ /\ close_deadline \in 1..CLOSEWAIT /\ link = "down"
          /\ \E r \in {"success", "failed"} : Finish(r)

\* srv_recv_packet() fails: hang-up, a deadline, 10 s of silence, bad MAC.
ReceiveFails ==
    /\ pc = "serve"
    /\ close_deadline # 0
    /\ Finish("success")

\* A packet has been received; the rekey limit is tested first.
Serving == pc = "serve" /\ InTime /\ close_deadline # 0 /\ ~over

ServeOverLimit ==
    /\ pc = "serve" /\ InTime /\ close_deadline # 0 /\ over
    /\ Finish("failed")

\* DISCONNECT returns success; a malformed packet returns failure.
ServeDisconnect == Serving /\ Finish("success")
ServeMalformed == Serving /\ Finish("failed")

\* The reply to a request cannot be sent: SERVICE_ACCEPT, the answer to a
\* USERAUTH_REQUEST or GLOBAL_REQUEST, OPEN_CONFIRMATION, CHANNEL_SUCCESS or
\* CLOSE.  (CHANNEL_FAILURE and WINDOW_ADJUST are sent with the result
\* ignored.)  IGNORE, EXT_INFO, GLOBAL_REQUESTs that are answered or want no
\* reply, CHANNEL_EOF and refused channel requests change nothing.
ServeReplyFails == Serving /\ link = "down" /\ Finish("failed")

\* SERVICE_REQUEST "ssh-userauth", at any time.
ServeUserauthService ==
    /\ Serving
    /\ userauth_service_ready' = TRUE
    /\ UNCHANGED <<pc, envVars, channel_open, endVars, windowVars, sessionVars,
                   wireVars, connection_service_ready, authenticated,
                   auth_attempts, hsVars>>

\* SERVICE_REQUEST "ssh-connection": accepted once authenticated, else fatal.
ServeConnectionService ==
    /\ Serving
    /\ IF authenticated
       THEN /\ connection_service_ready' = TRUE
            /\ UNCHANGED <<pc, envVars, channel_open, endVars, windowVars,
                           sessionVars, wireVars, userauth_service_ready,
                           authenticated, auth_attempts, hsVars>>
       ELSE Finish("failed")

\* USERAUTH_REQUEST after a limit test: refused (wrong method, service, key or
\* signature), answered PK_OK (unsigned probe of an authorized key), or
\* accepted (authorized key and a signature over this session_id).
UserauthCounted(attempts, accepted) ==
    /\ auth_attempts' = attempts
    /\ authenticated' = accepted
    /\ connection_service_ready' = (connection_service_ready \/ accepted)
    /\ UNCHANGED <<pc, envVars, channel_open, endVars, windowVars, sessionVars,
                   wireVars, userauth_service_ready, hsVars>>

ServeUserauth(accepted) ==
    /\ Serving
    /\ IF ~userauth_service_ready \/ authenticated \/ auth_attempts >= MaxAttempts
       THEN Finish("failed")
       ELSE UserauthCounted(auth_attempts + 1, accepted)

\* Mutation: a channel may be opened while the connection drains.
OpenRefusedNoDrain ==
    ~authenticated \/ ~connection_service_ready \/ channel_open

\* Mutation: the tests do not ask for authentication.
OpenRefusedNoAuth == close_deadline # UNSET \/ channel_open

\* The tests of CHANNEL_OPEN before anything is stored.
OpenRefused ==
    \/ close_deadline # UNSET
    \/ ~authenticated \/ ~connection_service_ready
    \/ channel_open

\* CHANNEL_OPEN "session" with window w.  srv_send_channel_open_confirmation()
\* sets our window; the channel is open once the confirmation is out.
ServeChannelOpen(w) ==
    /\ Serving
    /\ IF OpenRefused
       THEN Finish("failed")
       ELSE /\ remote_window_size' = w
            /\ granted' = w
            /\ local_window_size' = WINDOW
            /\ opened' = opened + 1
            /\ channel_open' = TRUE
            /\ UNCHANGED <<pc, envVars, endVars, delivered, sessionVars, closes,
                           status_sent, eof_sent, authVars, hsVars>>

\* CHANNEL_REQUEST "pty-req": granted once, else CHANNEL_FAILURE.
ServePtyReq ==
    /\ Serving
    /\ channel_open
    /\ want_pty' = TRUE
    /\ UNCHANGED <<pc, envVars, channel_open, ret, close_deadline,
                   session_started, windowVars, sessionVars, wireVars, authVars,
                   hsVars>>

\* CHANNEL_REQUEST "exec" or "shell": CHANNEL_SUCCESS, then the session.
ServeExec ==
    /\ Serving
    /\ channel_open
    /\ srv_run_session_unix
    /\ UNCHANGED <<envVars, channel_open, ret, close_deadline, want_pty,
                   windowVars, loopVars, pipe, produced, intr, wireVars,
                   authVars, hsVars>>

\* fork(), forkpty() or socketpair() fails.
ServeExecFails ==
    /\ Serving
    /\ channel_open
    /\ session_started' = TRUE
    /\ pc' = "done"
    /\ ret' = "failed"
    /\ UNCHANGED <<envVars, channel_open, close_deadline, want_pty, windowVars,
                   sessionVars, wireVars, authVars, hsVars>>

\* CHANNEL_DATA outside a session: counted and dropped.  local_channel_id and
\* local_window_size are 0 until a channel is open, so it is also counted,
\* and the window refilled, before authentication.
ServeData(n) ==
    /\ Serving
    /\ local_window_size' = srv_maybe_window_adjust(
           IF local_window_size >= n THEN local_window_size - n
                                     ELSE local_window_size)
    /\ UNCHANGED <<pc, envVars, channel_open, endVars, remote_window_size,
                   granted, delivered, sessionVars, wireVars, authVars, hsVars>>

\* CHANNEL_WINDOW_ADJUST outside a session falls into the default case: the
\* peer has granted n bytes, and the server forgets them.
ServeWindowAdjust(n) ==
    /\ Serving
    /\ channel_open
    /\ granted + n <= MaxGrant
    /\ granted' = granted + n
    /\ UNCHANGED <<pc, envVars, channel_open, endVars, local_window_size,
                   remote_window_size, delivered, sessionVars, wireVars,
                   authVars, hsVars>>

\* CHANNEL_CLOSE: answered if the channel is open, and the close wait starts.
\* CHANNEL_EOF for our channel changes nothing.
ServeClose ==
    /\ Serving
    /\ srv_handle_channel_end(TRUE)
    /\ srv_begin_close_wait
    /\ UNCHANGED <<pc, envVars, ret, session_started, want_pty, windowVars,
                   sessionVars, opened, status_sent, eof_sent, authVars, hsVars>>

----------------------------------------------------------------------------
Handshake == BannerLine \/ BannerOverlong \/ HandshakeStep \/ HandshakeFails

ServePacket ==
    \/ ServeOverLimit \/ ServeDisconnect \/ ServeMalformed \/ ServeReplyFails
    \/ ServeUserauthService \/ ServeConnectionService
    \/ \E accepted \in BOOLEAN : ServeUserauth(accepted)
    \/ \E w \in Windows : ServeChannelOpen(w) \/ ServeWindowAdjust(w)
    \/ ServePtyReq \/ ServeExec \/ ServeExecFails
    \/ \E n \in DataLens : ServeData(n)
    \/ ServeClose

SessionPacket ==
    \/ RecvBreaks \/ RecvIgnored
    \/ \E r \in BOOLEAN : RecvGlobalRequest(r)
    \/ \E n \in DataLens : RecvData(n)
    \/ \E w \in Windows : RecvWindowAdjust(w)
    \/ RecvEof \/ RecvClose

InSession ==
    /\ Poll(TRUE) \/ PollIdle \/ SessionPacket \/ SessionLocal \/ Child
    /\ UNCHANGED <<authVars, hsVars>>

Next ==
    \/ PeerGone \/ HandshakeExpire \/ CloseWaitTick \/ RekeyLimit
    \/ Handshake \/ DiscardEnds
    \/ CloseWaitEnds \/ ReceiveFails \/ ServePacket
    \/ InSession

Spec == Init /\ [][Next]_vars

\* The steps of the server process.  It runs when it can; every wait for the
\* peer inside it is bounded (10 s of SO_RCVTIMEO and SO_SNDTIMEO, 30 minutes
\* of poll()), and the child reaches setsid().  Nothing is assumed of the peer
\* or of what the command does: it may, for one, feed an overlong banner line
\* for ever, so the server is not required to leave "discard".
Server ==
    \/ Handshake /\ pc # "discard"
    \/ CloseWaitEnds \/ ReceiveFails \/ ServePacket
    \/ (Poll(TRUE) \/ PollIdle \/ SessionPacket \/ SessionLocal)
         /\ UNCHANGED <<authVars, hsVars>>

Fairness ==
    /\ WF_vars(Server)
    /\ WF_vars(ChildSetsid /\ UNCHANGED <<authVars, hsVars>>)
    /\ WF_vars(HandshakeExpire)
    /\ WF_vars(CloseWaitTick)

FairSpec == Spec /\ Fairness

----------------------------------------------------------------------------
\* The flags of the connection and of the session.
FlagsOK ==
    /\ over \in BOOLEAN /\ channel_open \in BOOLEAN /\ want_pty \in BOOLEAN
    /\ session_started \in BOOLEAN
    /\ output_eof \in BOOLEAN /\ peer_closed \in BOOLEAN /\ stdin_eof \in BOOLEAN
    /\ out_open \in BOOLEAN /\ intr \in BOOLEAN
    /\ status_sent \in BOOLEAN /\ eof_sent \in BOOLEAN
    /\ userauth_service_ready \in BOOLEAN /\ connection_service_ready \in BOOLEAN
    /\ authenticated \in BOOLEAN /\ handshake_expired \in BOOLEAN

\* Every variable has its type; the windows fit 32 bits and the number of
\* banner lines stays below its limit.
TypeOK ==
    /\ FlagsOK
    /\ pc \in HandshakePCs \cup LoopPCs \cup TeardownPCs \cup {"serve", "done"}
    /\ ret \in {"none", "success", "failed"}
    /\ link \in {"up", "down"}
    /\ close_deadline \in 0..UNSET
    /\ local_window_size \in 0..MAXU32 /\ remote_window_size \in 0..MAXU32
    /\ ready \in SUBSET {"net", "out"}
    /\ chunk \in Nat /\ pipe \in Nat
    /\ child \in ChildStates
    /\ produced \in Nat /\ delivered \in Nat /\ granted \in Nat
    /\ opened \in Nat /\ closes \in Nat
    /\ lines \in 0..(MaxBannerLines - 1)
    /\ auth_attempts \in Nat

\* The window we grant never runs dry and never overflows: while a channel is
\* open it stays between WINDOW and WINDOW + BUMP, so the largest packet fits
\* and the test data_len > local_window_size never fires on a peer.
LocalWindowBand ==
    channel_open => local_window_size \in WINDOW..(WINDOW + BUMP)

\* Flow control towards the peer: the bytes sent as CHANNEL_DATA and the
\* credit still held never exceed what the peer granted, across reads, partial
\* sends, adjusts that would overflow and adjusts that come too early.
WindowRespected ==
    opened > 0 => remote_window_size + delivered <= granted

\* exit-status is reported only when the child was waited for and every byte
\* that it or a descendant wrote has been sent before.
OutputComplete ==
    status_sent => delivered = produced /\ child = "reaped" /\ ~out_open

\* The connection never leaves the session with an unreaped child, whichever
\* of the loop's exits was taken.
NoOrphan == pc \in {"serve", "done"} => child \in {"none", "reaped"}

\* docs/server.md: "one session channel per connection", and "acknowledges
\* CLOSE exactly once": a second channel is never confirmed, and no CLOSE is
\* sent twice or for a channel that was not opened.
OneChannelOneClose == opened <= 1 /\ closes <= opened

\* docs/server.md: "No new channel opens while that completed connection
\* drains": with the close wait running there is no channel and no session.
DrainIsFinal ==
    close_deadline # UNSET => ~channel_open /\ pc \in {"serve", "done"}

\* A process runs on the peer's behalf only after an accepted signature, within
\* the limit on attempts, and only on a confirmed channel.
SessionAuthorised ==
    /\ opened > 0 => authenticated
    /\ child # "none" => authenticated /\ opened = 1
    /\ authenticated => auth_attempts \in 1..MaxAttempts

\* What the peer sees of the channel: see module ChannelWire.
Wire == INSTANCE ChannelWire
    WITH phase <- CASE closes > 0 -> "closed"
                    [] closes = 0 /\ eof_sent -> "eof"
                    [] closes = 0 /\ ~eof_sent /\ status_sent -> "status"
                    [] closes = 0 /\ ~eof_sent /\ ~status_sent /\ opened > 0 -> "open"
                    [] OTHER -> "none",
         bytes <- delivered

\* The messages of the channel come in the order of the abstract channel: open,
\* data, exit-status, EOF, CLOSE; or open, data, CLOSE in answer to the peer's.
WireRefined == Wire!WireSpec

\* Before a session the connection ends within its deadline whatever the peer
\* sends, unless the peer keeps the server discarding an overlong line.
HandshakeBounded ==
    (pc # "done" /\ ~session_started)
        ~> (pc \in {"done", "discard"} \/ session_started)

\* docs/server.md: "a fixed10-second absolute deadline that late EOF, duplicate
\* CLOSE, IGNORE or keepalive packets cannot extend": the drain ends.
DrainBounded == close_deadline # UNSET ~> pc = "done"

\* A session whose command has exited, whose output has ended and whose peer
\* has window for what is left does not stay in the loop: the end of the output
\* and the exit are both noticed in whichever order they come.
CompletionNoticed ==
    /\ pc \in LoopPCs /\ child \in {"zombie", "reaped"} /\ ~out_open
    /\ remote_window_size > pipe + chunk
    ~> pc \notin LoopPCs

\* docs/server.md: "connections close at the 256 MiB rekey limit".
OverLimitCloses == over ~> pc = "done"
=============================================================================
