------------------------------ MODULE Session ------------------------------
(***************************************************************************)
(* One command or shell of noxsshd: srv_run_session_unix() of              *)
(* common/noxssh_server.c, its poll loop and its teardown, together with   *)
(* the child process it forks.  The peer's packets are parameters of the   *)
(* actions: module Connection lets any packet arrive, module ExecSystem    *)
(* feeds them from a client.                                               *)
(*                                                                         *)
(* Bytes are counted, not stored.  The transport is up, or down (the peer  *)
(* hung up or stopped reading): then any send may fail, while packets that *)
(* were under way can still arrive.  SIGCHLD (inherited handler, no        *)
(* SA_RESTART) makes a blocked recv() or send() fail with EINTR, which     *)
(* netnox_ssh_recv_exact() and netnox_ssh_send_all() treat as an error.    *)
(***************************************************************************)
EXTENDS Naturals, FiniteSets

CONSTANTS
    WINDOW,    \* NETNOX_SSH_CHANNEL_WINDOW_SIZE, also the refill threshold
    BUMP,      \* the refill of srv_maybe_window_adjust()
    MAXDATA,   \* largest CHANNEL_DATA a packet of MAX_PACKET_LEN can carry
    CHUNK,     \* most bytes of child output in one CHANNEL_DATA
    MAXU32,    \* UINT32_MAX
    CLOSEWAIT, \* length of the close wait, 10 s, in ticks
    MaxOut,    \* bound on the bytes the child writes
    MaxGrant   \* bound on the window the peer grants in all

ASSUME SessionAssumption ==
    /\ WINDOW \in Nat /\ BUMP \in Nat /\ MAXDATA \in Nat /\ CHUNK \in Nat \ {0}
    /\ MAXU32 \in Nat /\ CLOSEWAIT \in Nat \ {0}
    /\ MaxOut \in Nat /\ MaxGrant \in Nat
    /\ MAXDATA <= WINDOW          \* 35000 < 65536
    /\ WINDOW < BUMP              \* 65536 < 262144
    /\ WINDOW + BUMP <= MAXU32

VARIABLES
    pc,                  \* where the server process is
    ret,                 \* what netnox_ssh_server_serve_one() returned
    link,                \* "up" or "down"
    over,                \* encrypted_bytes_* reached rekey_threshold_bytes
    channel_open, want_pty, session_started,
    close_deadline,      \* ticks left to close_deadline_ms, or UNSET
    local_window_size, remote_window_size,
    ready,               \* revents of this iteration: subset of {"net", "out"}
    output_eof, peer_closed, stdin_eof,
    chunk,               \* child output read and not yet sent
    child,               \* see ChildStates
    out_open,            \* some process still holds the child's output end
    pipe,                \* child output written and not read
    intr,                \* SIGCHLD came while blocked in recv() or send()
    \* What the peer has seen (history):
    produced, delivered, \* bytes written by the child, sent as CHANNEL_DATA
    granted,             \* window the peer has granted since CHANNEL_OPEN
    opened, closes,      \* CHANNEL_OPEN_CONFIRMATIONs and CHANNEL_CLOSEs sent
    status_sent, eof_sent

\* "starting": forked, before setsid() makes it a group leader; "zombie":
\* exited and not waited for.
ChildStates == {"none", "starting", "running", "zombie", "reaped"}

LoopPCs == {"poll", "recv", "output", "sendout", "reap", "status", "eof", "close"}
TeardownPCs == {"teardown", "wait", "kill"}

UNSET == CLOSEWAIT + 1

childVars == <<child, out_open, pipe, produced, intr>>
loopVars == <<ready, output_eof, peer_closed, stdin_eof, chunk>>
windowVars == <<local_window_size, remote_window_size, granted, delivered>>
wireVars == <<opened, closes, status_sent, eof_sent>>
endVars == <<ret, close_deadline, session_started, want_pty>>
envVars == <<link, over>>

\* Everything an action that only moves the loop leaves alone.
stillVars == <<childVars, windowVars, wireVars, endVars, envVars, channel_open>>

Minimum(a, b) == IF a < b THEN a ELSE b

\* srv_send_packet(): may fail when the transport is down or SIGCHLD comes
\* while it sleeps on a full socket buffer.
srv_send_packet == IF link = "up" /\ ~intr THEN {TRUE} ELSE BOOLEAN

\* break: leave the loop for the teardown behind it.
Break == pc' = "teardown"

\* Leave the packet dispatch for the rest of the iteration.
Dispatched == pc' = "output"

----------------------------------------------------------------------------
(* The child.  A command may fork: its output end can outlive it.          *)

ChildSetsid ==
    /\ child = "starting"
    /\ child' = "running"
    /\ UNCHANGED <<pc, channel_open, out_open, pipe, produced, intr, loopVars,
                   windowVars, wireVars, endVars, envVars>>

ChildWrite ==
    /\ out_open /\ child # "starting"
    /\ pc \in LoopPCs
    /\ produced < MaxOut
    /\ pipe' = pipe + 1
    /\ produced' = produced + 1
    /\ UNCHANGED <<pc, channel_open, child, out_open, intr, loopVars,
                   windowVars, wireVars, endVars, envVars>>

\* The last process that holds the output end closes it.
ChildCloseOutput ==
    /\ out_open /\ child # "starting"
    /\ out_open' = FALSE
    /\ UNCHANGED <<pc, channel_open, child, pipe, produced, intr, loopVars,
                   windowVars, wireVars, endVars, envVars>>

\* Exit, or death by a signal; a descendant may keep the output end open.
ChildExit(keepsOutput) ==
    /\ child \in {"starting", "running"}
    /\ keepsOutput => out_open /\ child = "running"
    /\ child' = "zombie"
    /\ out_open' = (out_open /\ keepsOutput)
    /\ intr' = (pc \in {"recv", "sendout"})
    /\ UNCHANGED <<pc, channel_open, pipe, produced, loopVars, windowVars,
                   wireVars, endVars, envVars>>

Child ==
    \/ ChildSetsid
    \/ ChildWrite
    \/ ChildCloseOutput
    \/ \E k \in BOOLEAN : ChildExit(k)

----------------------------------------------------------------------------
(* Entry, and poll().                                                      *)

\* Entry of srv_run_session_unix(): forkpty() or socketpair() and fork().
srv_run_session_unix ==
    /\ session_started' = TRUE
    /\ child' = "starting"
    /\ out_open' = TRUE
    /\ pc' = "poll"

\* poll() watches the child only while the peer's window is open.
OutReady ==
    /\ ~output_eof
    /\ remote_window_size > 0
    /\ pipe > 0 \/ ~out_open

\* Mutation: the limit is noticed and the loop goes on.
PollOverLimitGoesOn ==
    /\ pc = "poll" /\ over
    /\ pc' = "output"
    /\ UNCHANGED <<loopVars, stillVars>>

\* The rekey limit is tested at the top of every iteration.
PollOverLimit ==
    /\ pc = "poll" /\ over
    /\ Break
    /\ UNCHANGED <<loopVars, stillVars>>

\* Bytes from the peer (net), child output or its end (OutReady), or both.
Poll(net) ==
    /\ pc = "poll" /\ ~over
    /\ net \/ OutReady
    /\ ready' = (IF net THEN {"net"} ELSE {}) \cup (IF OutReady THEN {"out"} ELSE {})
    /\ pc' = IF net THEN "recv" ELSE "output"
    /\ UNCHANGED <<output_eof, peer_closed, stdin_eof, chunk, stillVars>>

\* With the output closed, poll() returns every 50 ms to look at the child.
PollTick ==
    /\ pc = "poll" /\ ~over
    /\ output_eof
    /\ ready' = {}
    /\ pc' = "output"
    /\ UNCHANGED <<output_eof, peer_closed, stdin_eof, chunk, stillVars>>

\* 30 minutes without an event, before the end of the output.
PollIdle ==
    /\ pc = "poll" /\ ~over
    /\ ~output_eof /\ ~OutReady
    /\ Break
    /\ UNCHANGED <<loopVars, stillVars>>

\* POLLERR, POLLHUP or POLLNVAL on the transport, or poll() itself fails.
PollHangup ==
    /\ pc = "poll"
    /\ link = "down"
    /\ Break
    /\ UNCHANGED <<loopVars, stillVars>>

----------------------------------------------------------------------------
(* One packet of the peer: the dispatch of the loop.  Every action starts  *)
(* in "recv", with the packet's first bytes there and the rest on its way. *)

\* Mutation: a packet that cannot be received is skipped.
RecvSkipsFailure ==
    /\ pc = "recv"
    /\ Dispatched
    /\ intr' = FALSE
    /\ UNCHANGED <<child, out_open, pipe, produced, loopVars, windowVars,
                   wireVars, endVars, envVars, channel_open>>

\* srv_recv_packet() fails (hang-up, 10 s without the rest, bad MAC or
\* length), the payload is empty, the packet is malformed or for another
\* channel, or it is DISCONNECT.
RecvBreaks ==
    /\ pc = "recv"
    /\ Break
    /\ intr' = FALSE
    /\ UNCHANGED <<child, out_open, pipe, produced, loopVars, windowVars,
                   wireVars, endVars, envVars, channel_open>>

\* recv() sleeping for the rest of a packet returns EINTR on SIGCHLD.
RecvInterrupted == intr /\ RecvBreaks

Receiving == pc = "recv" /\ intr' = FALSE

\* IGNORE, KEXINIT, a channel request of a session without a PTY, ...:
\* dropped.  With a PTY, window-change resizes the terminal (TIOCSWINSZ) and
\* any other request is dropped; none is answered.
RecvIgnored ==
    /\ Receiving
    /\ Dispatched
    /\ UNCHANGED <<child, out_open, pipe, produced, loopVars, windowVars,
                   wireVars, endVars, envVars, channel_open>>

\* srv_handle_global_request(): REQUEST_FAILURE if a reply is wanted.
RecvGlobalRequest(want_reply) ==
    /\ Receiving
    /\ \E ok \in srv_send_packet : IF want_reply /\ ~ok THEN Break ELSE Dispatched
    /\ UNCHANGED <<child, out_open, pipe, produced, loopVars, windowVars,
                   wireVars, endVars, envVars, channel_open>>

\* Mutation: the window is refilled only once it has reached zero.
LateWindowAdjust(w) == IF w > 0 THEN w ELSE w + BUMP

\* srv_maybe_window_adjust(): the window after the bytes were taken off it.
srv_maybe_window_adjust(w) == IF w > WINDOW THEN w ELSE w + BUMP

\* srv_write_child(): fails after shutdown(SHUT_WR), when the child is gone,
\* or when it does not read for 10 s.
srv_write_child == IF stdin_eof /\ ~want_pty THEN {FALSE} ELSE BOOLEAN

\* CHANNEL_DATA: stdin of the child, then the window refill.
RecvData(n) ==
    /\ Receiving
    /\ \E written \in srv_write_child, ok \in srv_send_packet :
         IF n > local_window_size \/ ~written
         THEN Break /\ UNCHANGED local_window_size
         ELSE /\ local_window_size' = srv_maybe_window_adjust(local_window_size - n)
              /\ IF local_window_size' > local_window_size - n /\ ~ok
                 THEN Break ELSE Dispatched
    /\ UNCHANGED <<remote_window_size, granted, delivered, child, out_open, pipe,
                   produced, loopVars, wireVars, endVars, envVars, channel_open>>

\* CHANNEL_WINDOW_ADJUST: refused if the window would not fit 32 bits.
RecvWindowAdjust(n) ==
    /\ Receiving
    /\ granted + n <= MaxGrant
    /\ granted' = granted + n
    /\ IF n > MAXU32 - remote_window_size
       THEN Break /\ UNCHANGED remote_window_size
       ELSE Dispatched /\ remote_window_size' = remote_window_size + n
    /\ UNCHANGED <<local_window_size, delivered, child, out_open, pipe, produced,
                   loopVars, wireVars, endVars, envVars, channel_open>>

\* CHANNEL_EOF: the child's stdin ends (shutdown, or EOT on a PTY).
RecvEof ==
    /\ Receiving
    /\ Dispatched
    /\ stdin_eof' = TRUE
    /\ UNCHANGED <<ready, output_eof, peer_closed, chunk, child, out_open, pipe,
                   produced, windowVars, wireVars, endVars, envVars, channel_open>>

\* Mutation: the reply does not clear channel_open.
KeepOpenChannelEnd(ok) ==
    closes' = (IF channel_open /\ ok THEN closes + 1 ELSE closes)
    /\ UNCHANGED channel_open

\* srv_handle_channel_end() for CLOSE: reply unless our CLOSE went out before.
srv_handle_channel_end(ok) ==
    /\ closes' = IF channel_open /\ ok THEN closes + 1 ELSE closes
    /\ channel_open' = (channel_open /\ ~ok)

\* CHANNEL_CLOSE: answered, then the session is torn down as a success.
RecvClose ==
    /\ Receiving
    /\ Break
    /\ \E ok \in srv_send_packet :
         /\ srv_handle_channel_end(ok)
         /\ peer_closed' = (ok \/ ~channel_open)
    /\ UNCHANGED <<ready, output_eof, stdin_eof, chunk, child, out_open, pipe,
                   produced, windowVars, opened, status_sent, eof_sent, endVars,
                   envVars>>

----------------------------------------------------------------------------
(* The rest of the iteration: child output, child exit, completion.        *)

\* cap: what one CHANNEL_DATA may carry now.
Cap == Minimum(CHUNK, remote_window_size)

\* read(child_fd): whatever is there, up to cap.
ReadOutput ==
    /\ pc = "output"
    /\ "out" \in ready
    /\ pipe > 0
    /\ chunk' = Minimum(pipe, Cap)
    /\ pipe' = pipe - chunk'
    /\ pc' = "sendout"
    /\ ready' = {}
    /\ UNCHANGED <<output_eof, peer_closed, stdin_eof, child, out_open,
                   produced, intr, windowVars, wireVars, endVars, envVars,
                   channel_open>>

\* read() returns 0, or EIO on a PTY: nothing more will come.
ReadEof ==
    /\ pc = "output"
    /\ "out" \in ready
    /\ pipe = 0
    /\ output_eof' = ~out_open
    /\ pc' = "reap"
    /\ ready' = {}
    /\ UNCHANGED <<peer_closed, stdin_eof, chunk, stillVars>>

\* Mutation: an iteration without output skips the test for the child's exit.
NoOutputContinues ==
    /\ pc = "output"
    /\ "out" \notin ready
    /\ pc' = "poll"
    /\ UNCHANGED <<loopVars, stillVars>>

NoOutput ==
    /\ pc = "output"
    /\ "out" \notin ready
    /\ pc' = "reap"
    /\ ready' = {}
    /\ UNCHANGED <<output_eof, peer_closed, stdin_eof, chunk, stillVars>>

\* Mutation: the bytes sent are not taken off the peer's window.
SendOutputUncounted ==
    /\ pc = "sendout"
    /\ remote_window_size >= chunk
    /\ delivered' = delivered + chunk
    /\ chunk' = 0
    /\ intr' = FALSE
    /\ pc' = "reap"
    /\ UNCHANGED <<ready, output_eof, peer_closed, stdin_eof, child, out_open,
                   pipe, produced, local_window_size, remote_window_size,
                   granted, wireVars, endVars, envVars, channel_open>>

\* srv_send_channel_data_chunk(): the window pays, then the packet goes out.
SendOutput ==
    /\ pc = "sendout"
    /\ remote_window_size >= chunk
    /\ remote_window_size' = remote_window_size - chunk
    /\ delivered' = delivered + chunk
    /\ chunk' = 0
    /\ intr' = FALSE
    /\ pc' = "reap"
    /\ UNCHANGED <<ready, output_eof, peer_closed, stdin_eof, child, out_open,
                   pipe, produced, local_window_size, granted, wireVars,
                   endVars, envVars, channel_open>>

\* The window is too small, the transport is down, or send(), sleeping on a
\* full socket buffer, is interrupted by SIGCHLD.  A failed send has been paid.
SendOutputFails ==
    /\ pc = "sendout"
    /\ remote_window_size < chunk \/ link = "down" \/ intr
    /\ remote_window_size' = IF remote_window_size < chunk THEN remote_window_size
                             ELSE remote_window_size - chunk
    /\ Break
    /\ chunk' = 0
    /\ intr' = FALSE
    /\ UNCHANGED <<ready, output_eof, peer_closed, stdin_eof, child, out_open,
                   pipe, produced, local_window_size, granted, delivered,
                   wireVars, endVars, envVars, channel_open>>

\* Mutation: completion when the child has exited, whatever its output.
ReapCompletes ==
    /\ pc = "reap"
    /\ child' = IF child = "zombie" THEN "reaped" ELSE child
    /\ pc' = IF child' = "reaped" THEN "status" ELSE "poll"
    /\ UNCHANGED <<loopVars, out_open, pipe, produced, intr, windowVars, wireVars,
                   endVars, envVars, channel_open>>

\* waitpid(pid, WNOHANG), then completion once the output has ended too.
Reap ==
    /\ pc = "reap"
    /\ child' = IF child = "zombie" THEN "reaped" ELSE child
    /\ pc' = IF output_eof /\ child' = "reaped" THEN "status" ELSE "poll"
    /\ UNCHANGED <<loopVars, out_open, pipe, produced, intr, windowVars, wireVars,
                   endVars, envVars, channel_open>>

\* Mutation: the completion sends EOF and CLOSE only.
SendNoStatus ==
    /\ pc = "status"
    /\ pc' = "eof"
    /\ UNCHANGED <<loopVars, stillVars>>

SendStatus ==
    /\ pc = "status"
    /\ status_sent' = TRUE
    /\ pc' = "eof"
    /\ UNCHANGED <<opened, closes, eof_sent, loopVars, childVars, windowVars,
                   endVars, envVars, channel_open>>

SendEof ==
    /\ pc = "eof"
    /\ eof_sent' = TRUE
    /\ pc' = "close"
    /\ UNCHANGED <<opened, closes, status_sent, loopVars, childVars, windowVars,
                   endVars, envVars, channel_open>>

\* One of the three sends of the completion fails.
SendCompletionFails ==
    /\ pc \in {"status", "eof", "close"}
    /\ link = "down"
    /\ Break
    /\ UNCHANGED <<loopVars, stillVars>>

\* Mutation: a deadline that is already set is set again.
RestartCloseWait == close_deadline' = CLOSEWAIT

\* srv_begin_close_wait(): a set deadline stays.
srv_begin_close_wait ==
    close_deadline' = IF close_deadline = UNSET THEN CLOSEWAIT ELSE close_deadline

\* The locals of srv_run_session_unix() end with it.
LocalsEnd ==
    /\ ready' = {}
    /\ output_eof' = FALSE /\ peer_closed' = FALSE /\ stdin_eof' = FALSE
    /\ chunk' = 0

\* CHANNEL_CLOSE sent; return NETNOX_RETURN_SUCCESS to the outer loop, which
\* starts the close wait.
SendClose ==
    /\ pc = "close"
    /\ closes' = closes + 1
    /\ channel_open' = FALSE
    /\ srv_begin_close_wait
    /\ pc' = "serve"
    /\ LocalsEnd
    /\ UNCHANGED <<opened, status_sent, eof_sent, childVars, windowVars,
                   ret, session_started, want_pty, envVars>>

----------------------------------------------------------------------------
(* Behind the loop: close(child_fd), end the child, return.                *)

\* channel_open = 0; return peer_closed ? SUCCESS : FAILED, and what the
\* outer loop does with it.
Return ==
    /\ LocalsEnd
    /\ channel_open' = FALSE
    /\ IF peer_closed
       THEN pc' = "serve" /\ srv_begin_close_wait /\ UNCHANGED ret
       ELSE pc' = "done" /\ ret' = "failed" /\ UNCHANGED close_deadline

TeardownReaped ==
    /\ pc = "teardown"
    /\ child = "reaped"
    /\ Return
    /\ UNCHANGED <<childVars, windowVars, wireVars, session_started,
                   want_pty, envVars>>

\* kill(-pid, SIGTERM): the child dies or ignores it; no effect while there
\* is no process group pid yet.
TeardownTerm(dies) ==
    /\ pc = "teardown"
    /\ child # "reaped"
    /\ child' = IF dies /\ child = "running" THEN "zombie" ELSE child
    /\ pc' = "wait"
    /\ UNCHANGED <<loopVars, out_open, pipe, produced, intr, windowVars, wireVars,
                   endVars, envVars, channel_open>>

\* Mutation: the wait is given up without the final waitpid().
GiveUpWithoutWait ==
    /\ pc = "wait"
    /\ child \in {"starting", "running"}
    /\ Return
    /\ UNCHANGED <<childVars, windowVars, wireVars, session_started,
                   want_pty, envVars>>

\* One second of waitpid(WNOHANG) was not enough: kill(-pid, SIGKILL).  The
\* child has had that second to reach setsid().
TeardownKill ==
    /\ pc = "wait"
    /\ child = "running"
    /\ child' = "zombie"
    /\ pc' = "kill"
    /\ UNCHANGED <<loopVars, out_open, pipe, produced, intr, windowVars, wireVars,
                   endVars, envVars, channel_open>>

\* A waitpid() of the teardown, polling or blocking, returns the child.
TeardownWaited ==
    /\ pc \in {"wait", "kill"}
    /\ child = "zombie"
    /\ child' = "reaped"
    /\ Return
    /\ UNCHANGED <<out_open, pipe, produced, intr, windowVars, wireVars,
                   session_started, want_pty, envVars>>

----------------------------------------------------------------------------
\* Steps of the server process inside srv_run_session_unix() that need no
\* packet of the peer.
SessionLocal ==
    \/ PollOverLimit \/ Poll(FALSE) \/ PollTick \/ PollHangup
    \/ ReadOutput \/ ReadEof \/ NoOutput \/ SendOutput \/ SendOutputFails
    \/ Reap \/ SendStatus \/ SendEof \/ SendCompletionFails \/ SendClose
    \/ TeardownReaped
    \/ \E dies \in BOOLEAN : TeardownTerm(dies)
    \/ TeardownKill \/ TeardownWaited
=============================================================================
