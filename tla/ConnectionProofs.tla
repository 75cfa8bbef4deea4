-------------------------- MODULE ConnectionProofs --------------------------
(***************************************************************************)
(* Proofs about Connection, for every value of its constants: the safety   *)
(* properties of one connection of noxsshd and that what the peer sees of  *)
(* the channel refines ChannelWire.                                        *)
(***************************************************************************)
EXTENDS Connection, TLAPS

\* Before the handshake is over nothing has been granted to the peer.
HandshakeInv ==
    pc \in HandshakePCs =>
        /\ ~authenticated /\ ~channel_open /\ ~session_started
        /\ opened = 0 /\ child = "none" /\ close_deadline = UNSET

\* Who may have a channel, and in which phase of it the connection can be.
ChannelInv ==
    /\ opened \in {0, 1} /\ closes <= opened
    /\ channel_open => opened = 1 /\ closes = 0 /\ close_deadline = UNSET
    /\ opened > 0 => authenticated
    /\ authenticated => auth_attempts >= 1
    /\ auth_attempts <= MaxAttempts
    /\ opened = 1 /\ ~channel_open =>
          close_deadline # UNSET \/ pc \in TeardownPCs \cup {"done"}
    /\ close_deadline # UNSET => pc \in {"serve", "done"}

\* A child exists exactly while srv_run_session_unix() runs, or is reaped.
ChildInv ==
    /\ pc \in LoopPCs => channel_open
    /\ pc \in LoopPCs \cup TeardownPCs => opened = 1 /\ child # "none"
    /\ pc \in {"serve", "done"} => child \in {"none", "reaped"}
    /\ pc = "serve" /\ channel_open => child = "none"
    /\ child # "none" => opened = 1

\* Flow control in both directions.
WindowInv ==
    /\ local_window_size <= WINDOW + BUMP
    /\ channel_open => local_window_size >= WINDOW
    /\ opened > 0 => remote_window_size + delivered <= granted

\* Where the bytes of the child are.
OutputInv ==
    /\ child = "none" => produced = 0 /\ pipe = 0 /\ ~out_open
    /\ child = "none" => delivered = 0 /\ ~status_sent
    /\ chunk # 0 => pc = "sendout"
    /\ pc \in LoopPCs => produced = delivered + chunk + pipe
    /\ output_eof => ~out_open /\ pipe = 0 /\ pc \in LoopPCs \cup TeardownPCs
    /\ pc \in {"status", "eof", "close"} => output_eof /\ child = "reaped"
    /\ status_sent => delivered = produced /\ child = "reaped" /\ ~out_open

\* Which messages of the completion have been sent.
WireInv ==
    /\ pc \in LoopPCs \ {"eof", "close"} => ~status_sent
    /\ pc \in LoopPCs \ {"close"} => ~eof_sent
    /\ pc = "eof" => status_sent
    /\ pc = "close" => eof_sent
    /\ eof_sent => status_sent

IndInv ==
    TypeOK /\ HandshakeInv /\ ChannelInv /\ ChildInv /\ WindowInv /\ OutputInv
    /\ WireInv

\* The assumptions on the constants, the tuples of variables and the sets of
\* program points are used everywhere.
USE SessionAssumption, ConnectionAssumption
USE DEF authVars, hsVars, sessionVars, childVars, loopVars, windowVars,
        wireVars, endVars, envVars, stillVars, HandshakePCs, LoopPCs,
        TeardownPCs, UNSET

\* Nothing is granted initially.
LEMMA InitInv == Init => IndInv
<1> SUFFICES ASSUME Init PROVE IndInv
  OBVIOUS
<1>1. FlagsOK
  BY Zenon DEF Init, FlagsOK
<1>2. TypeOK
  BY <1>1 DEF Init, TypeOK, ChildStates
<1>3. HandshakeInv /\ ChannelInv /\ ChildInv
  BY DEF Init, HandshakeInv, ChannelInv, ChildInv
<1>4. WindowInv /\ OutputInv /\ WireInv
  BY DEF Init, WindowInv, OutputInv, WireInv
<1>5. QED
  BY <1>2, <1>3, <1>4 DEF IndInv

----------------------------------------------------------------------------
(* The child                                                              *)

\* The child becomes a group leader.
LEMMA ChildSetsidInv ==
  ASSUME IndInv, ChildSetsid, UNCHANGED <<authVars, hsVars>>
  PROVE  IndInv'
  BY DEF IndInv, TypeOK, FlagsOK, ChildStates, HandshakeInv, ChannelInv,
         ChildInv, WindowInv, OutputInv, WireInv, ChildSetsid

\* Output is in the pipe before it is anywhere else.
LEMMA ChildWriteInv ==
  ASSUME IndInv, ChildWrite, UNCHANGED <<authVars, hsVars>>
  PROVE  IndInv'
  BY DEF IndInv, TypeOK, FlagsOK, ChildStates, HandshakeInv, ChannelInv,
         ChildInv, WindowInv, OutputInv, WireInv, ChildWrite

\* The end of the output moves no byte.
LEMMA ChildCloseOutputInv ==
  ASSUME IndInv, ChildCloseOutput, UNCHANGED <<authVars, hsVars>>
  PROVE  IndInv'
<1>1. out_open' \in BOOLEAN
  BY DEF ChildCloseOutput
<1>2. TypeOK'
  BY <1>1 DEF IndInv, TypeOK, FlagsOK, ChildStates, HandshakeInv, ChannelInv,
         WindowInv, ChildInv, ChildCloseOutput
<1>3. HandshakeInv' /\ ChannelInv' /\ ChildInv'
  BY DEF IndInv, TypeOK, FlagsOK, ChildStates, HandshakeInv, ChannelInv,
         ChildInv, WindowInv, OutputInv, WireInv, ChildCloseOutput
<1>4. WindowInv' /\ OutputInv' /\ WireInv'
  BY DEF IndInv, TypeOK, FlagsOK, ChildStates, HandshakeInv, ChannelInv,
         ChildInv, WindowInv, OutputInv, WireInv, ChildCloseOutput
<1>5. QED
  BY <1>2, <1>3, <1>4 DEF IndInv

\* The child exits, perhaps leaving its output open.
LEMMA ChildExitInv ==
  ASSUME NEW k \in BOOLEAN, IndInv, ChildExit(k), UNCHANGED <<authVars, hsVars>>
  PROVE  IndInv'
  BY DEF IndInv, TypeOK, FlagsOK, ChildStates, HandshakeInv, ChannelInv,
         ChildInv, WindowInv, OutputInv, WireInv, ChildExit

----------------------------------------------------------------------------
(* The loop of srv_run_session_unix()                                     *)

\* The loop is left at the rekey limit.
LEMMA PollOverLimitInv ==
  ASSUME IndInv, PollOverLimit, UNCHANGED <<authVars, hsVars>>
  PROVE  IndInv'
  BY DEF IndInv, TypeOK, FlagsOK, ChildStates, HandshakeInv, ChannelInv,
         ChildInv, WindowInv, OutputInv, WireInv, PollOverLimit, Break

\* An iteration with an event.
LEMMA PollInv ==
  ASSUME NEW k \in BOOLEAN, IndInv, Poll(k), UNCHANGED <<authVars, hsVars>>
  PROVE  IndInv'
  BY DEF IndInv, TypeOK, FlagsOK, ChildStates, HandshakeInv, ChannelInv,
         ChildInv, WindowInv, OutputInv, WireInv, Poll, OutReady

\* An iteration after the end of the output.
LEMMA PollTickInv ==
  ASSUME IndInv, PollTick, UNCHANGED <<authVars, hsVars>>
  PROVE  IndInv'
  BY DEF IndInv, TypeOK, FlagsOK, ChildStates, HandshakeInv, ChannelInv,
         ChildInv, WindowInv, OutputInv, WireInv, PollTick

\* The loop is left by the idle limit.
LEMMA PollIdleInv ==
  ASSUME IndInv, PollIdle, UNCHANGED <<authVars, hsVars>>
  PROVE  IndInv'
  BY DEF IndInv, TypeOK, FlagsOK, ChildStates, HandshakeInv, ChannelInv,
         ChildInv, WindowInv, OutputInv, WireInv, PollIdle, Break, OutReady

\* The loop is left by a hang-up.
LEMMA PollHangupInv ==
  ASSUME IndInv, PollHangup, UNCHANGED <<authVars, hsVars>>
  PROVE  IndInv'
  BY DEF IndInv, TypeOK, FlagsOK, ChildStates, HandshakeInv, ChannelInv,
         ChildInv, WindowInv, OutputInv, WireInv, PollHangup, Break

\* A packet that ends the loop.
LEMMA RecvBreaksInv ==
  ASSUME IndInv, RecvBreaks, UNCHANGED <<authVars, hsVars>>
  PROVE  IndInv'
<1>1. intr' \in BOOLEAN
  BY DEF RecvBreaks, Break
<1>2. TypeOK'
  BY <1>1 DEF IndInv, TypeOK, FlagsOK, ChildStates, HandshakeInv, ChannelInv,
         WindowInv, ChildInv, RecvBreaks, Break
<1>3. HandshakeInv' /\ ChannelInv' /\ ChildInv'
  BY DEF IndInv, TypeOK, FlagsOK, ChildStates, HandshakeInv, ChannelInv,
         ChildInv, WindowInv, OutputInv, WireInv, RecvBreaks, Break
<1>4. WindowInv' /\ OutputInv' /\ WireInv'
  BY DEF IndInv, TypeOK, FlagsOK, ChildStates, HandshakeInv, ChannelInv,
         ChildInv, WindowInv, OutputInv, WireInv, RecvBreaks, Break
<1>5. QED
  BY <1>2, <1>3, <1>4 DEF IndInv

\* A packet that changes nothing.
LEMMA RecvIgnoredInv ==
  ASSUME IndInv, RecvIgnored, UNCHANGED <<authVars, hsVars>>
  PROVE  IndInv'
<1>1. intr' \in BOOLEAN
  BY DEF RecvIgnored, Dispatched, Receiving
<1>2. TypeOK'
  BY <1>1 DEF IndInv, TypeOK, FlagsOK, ChildStates, HandshakeInv, ChannelInv,
         WindowInv, ChildInv, RecvIgnored, Dispatched, Receiving
<1>3. HandshakeInv' /\ ChannelInv' /\ ChildInv'
  BY DEF IndInv, TypeOK, FlagsOK, ChildStates, HandshakeInv, ChannelInv,
         ChildInv, WindowInv, OutputInv, WireInv, RecvIgnored, Dispatched,
         Receiving
<1>4. WindowInv' /\ OutputInv' /\ WireInv'
  BY DEF IndInv, TypeOK, FlagsOK, ChildStates, HandshakeInv, ChannelInv,
         ChildInv, WindowInv, OutputInv, WireInv, RecvIgnored, Dispatched,
         Receiving
<1>5. QED
  BY <1>2, <1>3, <1>4 DEF IndInv

\* A global request.
LEMMA RecvGlobalRequestInv ==
  ASSUME NEW k \in BOOLEAN, IndInv, RecvGlobalRequest(k), UNCHANGED <<authVars, hsVars>>
  PROVE  IndInv'
<1>1. intr' \in BOOLEAN
  BY DEF RecvGlobalRequest, Break, Dispatched, Receiving, srv_send_packet
<1>2. TypeOK'
  BY <1>1 DEF IndInv, TypeOK, FlagsOK, ChildStates, HandshakeInv, ChannelInv,
         WindowInv, ChildInv, RecvGlobalRequest, Break, Dispatched, Receiving,
         srv_send_packet
<1>3. HandshakeInv' /\ ChannelInv' /\ ChildInv'
  BY DEF IndInv, TypeOK, FlagsOK, ChildStates, HandshakeInv, ChannelInv,
         ChildInv, WindowInv, OutputInv, WireInv, RecvGlobalRequest, Break,
         Dispatched, Receiving, srv_send_packet
<1>4. WindowInv' /\ OutputInv' /\ WireInv'
  BY DEF IndInv, TypeOK, FlagsOK, ChildStates, HandshakeInv, ChannelInv,
         ChildInv, WindowInv, OutputInv, WireInv, RecvGlobalRequest, Break,
         Dispatched, Receiving, srv_send_packet
<1>5. QED
  BY <1>2, <1>3, <1>4 DEF IndInv

\* Data for the child: the window stays in its band.
LEMMA RecvDataInv ==
  ASSUME NEW n \in DataLens, IndInv, RecvData(n), UNCHANGED <<authVars, hsVars>>
  PROVE  IndInv'
<1>1. intr' \in BOOLEAN
  BY DEF RecvData, Break, Dispatched, Receiving, srv_send_packet,
         srv_maybe_window_adjust, srv_write_child
<1>2. TypeOK'
  BY <1>1 DEF IndInv, TypeOK, FlagsOK, ChildStates, HandshakeInv, ChannelInv,
         WindowInv, ChildInv, RecvData, Break, Dispatched, Receiving,
         srv_send_packet, srv_maybe_window_adjust, srv_write_child
<1>3. HandshakeInv' /\ ChannelInv' /\ ChildInv'
  BY DEF IndInv, TypeOK, FlagsOK, ChildStates, HandshakeInv, ChannelInv,
         ChildInv, WindowInv, OutputInv, WireInv, RecvData, Break, Dispatched,
         Receiving, srv_send_packet, srv_maybe_window_adjust, srv_write_child
<1>4. WindowInv' /\ OutputInv' /\ WireInv'
  BY DEF IndInv, TypeOK, FlagsOK, ChildStates, HandshakeInv, ChannelInv,
         ChildInv, WindowInv, OutputInv, WireInv, RecvData, Break, Dispatched,
         Receiving, srv_send_packet, srv_maybe_window_adjust, srv_write_child
<1>5. QED
  BY <1>2, <1>3, <1>4 DEF IndInv

\* The peer's credit and the window grow together, or not at all.
LEMMA RecvWindowAdjustInv ==
  ASSUME NEW w \in Windows, IndInv, RecvWindowAdjust(w), UNCHANGED <<authVars, hsVars>>
  PROVE  IndInv'
<1>1. intr' \in BOOLEAN
  BY DEF RecvWindowAdjust, Break, Dispatched, Receiving
<1>2. TypeOK'
  BY <1>1 DEF IndInv, TypeOK, FlagsOK, ChildStates, HandshakeInv, ChannelInv,
         WindowInv, ChildInv, RecvWindowAdjust, Break, Dispatched, Receiving
<1>3. HandshakeInv' /\ ChannelInv' /\ ChildInv'
  BY DEF IndInv, TypeOK, FlagsOK, ChildStates, HandshakeInv, ChannelInv,
         ChildInv, WindowInv, OutputInv, WireInv, RecvWindowAdjust, Break,
         Dispatched, Receiving
<1>4. WindowInv' /\ OutputInv' /\ WireInv'
  BY DEF IndInv, TypeOK, FlagsOK, ChildStates, HandshakeInv, ChannelInv,
         ChildInv, WindowInv, OutputInv, WireInv, RecvWindowAdjust, Break,
         Dispatched, Receiving
<1>5. QED
  BY <1>2, <1>3, <1>4 DEF IndInv

\* The end of the child's input.
LEMMA RecvEofInv ==
  ASSUME IndInv, RecvEof, UNCHANGED <<authVars, hsVars>>
  PROVE  IndInv'
<1>1. intr' \in BOOLEAN
  BY DEF RecvEof, Dispatched, Receiving
<1>2. stdin_eof' \in BOOLEAN
  BY DEF RecvEof, Dispatched, Receiving
<1>3. TypeOK'
  BY <1>1, <1>2 DEF IndInv, TypeOK, FlagsOK, ChildStates, HandshakeInv,
         ChannelInv, WindowInv, ChildInv, RecvEof, Dispatched, Receiving
<1>4. HandshakeInv' /\ ChannelInv' /\ ChildInv'
  BY DEF IndInv, TypeOK, FlagsOK, ChildStates, HandshakeInv, ChannelInv,
         ChildInv, WindowInv, OutputInv, WireInv, RecvEof, Dispatched,
         Receiving
<1>5. WindowInv' /\ OutputInv' /\ WireInv'
  BY DEF IndInv, TypeOK, FlagsOK, ChildStates, HandshakeInv, ChannelInv,
         ChildInv, WindowInv, OutputInv, WireInv, RecvEof, Dispatched,
         Receiving
<1>6. QED
  BY <1>3, <1>4, <1>5 DEF IndInv

\* The peer's CLOSE: ours is sent once.
LEMMA RecvCloseInv ==
  ASSUME IndInv, RecvClose, UNCHANGED <<authVars, hsVars>>
  PROVE  IndInv'
<1>1. intr' \in BOOLEAN
  BY DEF RecvClose, Break, Receiving, srv_send_packet, srv_handle_channel_end
<1>2. peer_closed' \in BOOLEAN
  BY DEF IndInv, TypeOK, FlagsOK, RecvClose, Break, Receiving, srv_send_packet,
         srv_handle_channel_end
<1>3. channel_open' \in BOOLEAN
  BY DEF IndInv, TypeOK, FlagsOK, RecvClose, Break, Receiving, srv_send_packet,
         srv_handle_channel_end
<1>4. TypeOK'
  BY <1>1, <1>2, <1>3 DEF IndInv, TypeOK, FlagsOK, ChildStates, HandshakeInv,
         ChannelInv, WindowInv, ChildInv, RecvClose, Break, Receiving,
         srv_send_packet, srv_handle_channel_end
<1>5. HandshakeInv' /\ ChannelInv' /\ ChildInv'
  BY DEF IndInv, TypeOK, FlagsOK, ChildStates, HandshakeInv, ChannelInv,
         ChildInv, WindowInv, OutputInv, WireInv, RecvClose, Break, Receiving,
         srv_send_packet, srv_handle_channel_end
<1>6. WindowInv' /\ OutputInv' /\ WireInv'
  BY DEF IndInv, TypeOK, FlagsOK, ChildStates, HandshakeInv, ChannelInv,
         ChildInv, WindowInv, OutputInv, WireInv, RecvClose, Break, Receiving,
         srv_send_packet, srv_handle_channel_end
<1>7. QED
  BY <1>4, <1>5, <1>6 DEF IndInv

\* Bytes move from the pipe to the chunk.
LEMMA ReadOutputInv ==
  ASSUME IndInv, ReadOutput, UNCHANGED <<authVars, hsVars>>
  PROVE  IndInv'
  BY DEF IndInv, TypeOK, FlagsOK, ChildStates, HandshakeInv, ChannelInv,
         ChildInv, WindowInv, OutputInv, WireInv, ReadOutput, Minimum, Cap

\* The end of the output is seen with an empty pipe only.
LEMMA ReadEofInv ==
  ASSUME IndInv, ReadEof, UNCHANGED <<authVars, hsVars>>
  PROVE  IndInv'
  BY DEF IndInv, TypeOK, FlagsOK, ChildStates, HandshakeInv, ChannelInv,
         ChildInv, WindowInv, OutputInv, WireInv, ReadEof

\* An iteration without output.
LEMMA NoOutputInv ==
  ASSUME IndInv, NoOutput, UNCHANGED <<authVars, hsVars>>
  PROVE  IndInv'
  BY DEF IndInv, TypeOK, FlagsOK, ChildStates, HandshakeInv, ChannelInv,
         ChildInv, WindowInv, OutputInv, WireInv, NoOutput

\* Bytes move from the chunk to the peer, and the window pays.
LEMMA SendOutputInv ==
  ASSUME IndInv, SendOutput, UNCHANGED <<authVars, hsVars>>
  PROVE  IndInv'
<1>1. intr' \in BOOLEAN
  BY DEF SendOutput
<1>2. TypeOK'
  BY <1>1 DEF IndInv, TypeOK, FlagsOK, ChildStates, HandshakeInv, ChannelInv,
         WindowInv, ChildInv, SendOutput
<1>3. HandshakeInv' /\ ChannelInv' /\ ChildInv'
  BY DEF IndInv, TypeOK, FlagsOK, ChildStates, HandshakeInv, ChannelInv,
         ChildInv, WindowInv, OutputInv, WireInv, SendOutput
<1>4. WindowInv' /\ OutputInv' /\ WireInv'
  BY DEF IndInv, TypeOK, FlagsOK, ChildStates, HandshakeInv, ChannelInv,
         ChildInv, WindowInv, OutputInv, WireInv, SendOutput
<1>5. QED
  BY <1>2, <1>3, <1>4 DEF IndInv

\* A chunk is lost, and the loop with it.
LEMMA SendOutputFailsInv ==
  ASSUME IndInv, SendOutputFails, UNCHANGED <<authVars, hsVars>>
  PROVE  IndInv'
<1>1. intr' \in BOOLEAN
  BY DEF SendOutputFails, Break
<1>2. TypeOK'
  BY <1>1 DEF IndInv, TypeOK, FlagsOK, ChildStates, HandshakeInv, ChannelInv,
         WindowInv, ChildInv, SendOutputFails, Break
<1>3. HandshakeInv' /\ ChannelInv' /\ ChildInv'
  BY DEF IndInv, TypeOK, FlagsOK, ChildStates, HandshakeInv, ChannelInv,
         ChildInv, WindowInv, OutputInv, WireInv, SendOutputFails, Break
<1>4. WindowInv' /\ OutputInv' /\ WireInv'
  BY DEF IndInv, TypeOK, FlagsOK, ChildStates, HandshakeInv, ChannelInv,
         ChildInv, WindowInv, OutputInv, WireInv, SendOutputFails, Break
<1>5. QED
  BY <1>2, <1>3, <1>4 DEF IndInv

\* The completion is entered with all output sent.
LEMMA ReapInv ==
  ASSUME IndInv, Reap, UNCHANGED <<authVars, hsVars>>
  PROVE  IndInv'
  BY DEF IndInv, TypeOK, FlagsOK, ChildStates, HandshakeInv, ChannelInv,
         ChildInv, WindowInv, OutputInv, WireInv, Reap

\* The exit status.
LEMMA SendStatusInv ==
  ASSUME IndInv, SendStatus, UNCHANGED <<authVars, hsVars>>
  PROVE  IndInv'
  BY DEF IndInv, TypeOK, FlagsOK, ChildStates, HandshakeInv, ChannelInv,
         ChildInv, WindowInv, OutputInv, WireInv, SendStatus

\* EOF after the exit status.
LEMMA SendEofInv ==
  ASSUME IndInv, SendEof, UNCHANGED <<authVars, hsVars>>
  PROVE  IndInv'
  BY DEF IndInv, TypeOK, FlagsOK, ChildStates, HandshakeInv, ChannelInv,
         ChildInv, WindowInv, OutputInv, WireInv, SendEof

\* A send of the completion fails.
LEMMA SendCompletionFailsInv ==
  ASSUME IndInv, SendCompletionFails, UNCHANGED <<authVars, hsVars>>
  PROVE  IndInv'
  BY DEF IndInv, TypeOK, FlagsOK, ChildStates, HandshakeInv, ChannelInv,
         ChildInv, WindowInv, OutputInv, WireInv, SendCompletionFails, Break

\* CLOSE after EOF; the drain starts.
LEMMA SendCloseInv ==
  ASSUME IndInv, SendClose, UNCHANGED <<authVars, hsVars>>
  PROVE  IndInv'
<1>1. channel_open' \in BOOLEAN
  BY DEF SendClose, srv_begin_close_wait, LocalsEnd
<1>2. output_eof' \in BOOLEAN
  BY DEF SendClose, srv_begin_close_wait, LocalsEnd
<1>3. peer_closed' \in BOOLEAN
  BY DEF SendClose, srv_begin_close_wait, LocalsEnd
<1>4. stdin_eof' \in BOOLEAN
  BY DEF SendClose, srv_begin_close_wait, LocalsEnd
<1>5. TypeOK'
  BY <1>1, <1>2, <1>3, <1>4 DEF IndInv, TypeOK, FlagsOK, ChildStates,
         HandshakeInv, ChannelInv, WindowInv, ChildInv, SendClose,
         srv_begin_close_wait, LocalsEnd
<1>6. HandshakeInv' /\ ChannelInv' /\ ChildInv'
  BY DEF IndInv, TypeOK, FlagsOK, ChildStates, HandshakeInv, ChannelInv,
         ChildInv, WindowInv, OutputInv, WireInv, SendClose,
         srv_begin_close_wait, LocalsEnd
<1>7. WindowInv' /\ OutputInv' /\ WireInv'
  BY DEF IndInv, TypeOK, FlagsOK, ChildStates, HandshakeInv, ChannelInv,
         ChildInv, WindowInv, OutputInv, WireInv, SendClose,
         srv_begin_close_wait, LocalsEnd
<1>8. QED
  BY <1>5, <1>6, <1>7 DEF IndInv

----------------------------------------------------------------------------
(* The teardown                                                           *)

\* Teardown with nothing left to wait for.
LEMMA TeardownReapedInv ==
  ASSUME IndInv, TeardownReaped, UNCHANGED <<authVars, hsVars>>
  PROVE  IndInv'
<1>1. channel_open' \in BOOLEAN
  BY DEF TeardownReaped, Return, srv_begin_close_wait, LocalsEnd
<1>2. output_eof' \in BOOLEAN
  BY DEF TeardownReaped, Return, srv_begin_close_wait, LocalsEnd
<1>3. peer_closed' \in BOOLEAN
  BY DEF TeardownReaped, Return, srv_begin_close_wait, LocalsEnd
<1>4. stdin_eof' \in BOOLEAN
  BY DEF TeardownReaped, Return, srv_begin_close_wait, LocalsEnd
<1>5. TypeOK'
  BY <1>1, <1>2, <1>3, <1>4 DEF IndInv, TypeOK, FlagsOK, ChildStates,
         HandshakeInv, ChannelInv, WindowInv, ChildInv, TeardownReaped, Return,
         srv_begin_close_wait, LocalsEnd
<1>6. HandshakeInv' /\ ChannelInv' /\ ChildInv'
  BY DEF IndInv, TypeOK, FlagsOK, ChildStates, HandshakeInv, ChannelInv,
         ChildInv, WindowInv, OutputInv, WireInv, TeardownReaped, Return,
         srv_begin_close_wait, LocalsEnd
<1>7. WindowInv' /\ OutputInv' /\ WireInv'
  BY DEF IndInv, TypeOK, FlagsOK, ChildStates, HandshakeInv, ChannelInv,
         ChildInv, WindowInv, OutputInv, WireInv, TeardownReaped, Return,
         srv_begin_close_wait, LocalsEnd
<1>8. QED
  BY <1>5, <1>6, <1>7 DEF IndInv

\* SIGTERM.
LEMMA TeardownTermInv ==
  ASSUME NEW k \in BOOLEAN, IndInv, TeardownTerm(k), UNCHANGED <<authVars, hsVars>>
  PROVE  IndInv'
  BY DEF IndInv, TypeOK, FlagsOK, ChildStates, HandshakeInv, ChannelInv,
         ChildInv, WindowInv, OutputInv, WireInv, TeardownTerm

\* SIGKILL.
LEMMA TeardownKillInv ==
  ASSUME IndInv, TeardownKill, UNCHANGED <<authVars, hsVars>>
  PROVE  IndInv'
  BY DEF IndInv, TypeOK, FlagsOK, ChildStates, HandshakeInv, ChannelInv,
         ChildInv, WindowInv, OutputInv, WireInv, TeardownKill

\* The child has been waited for.
LEMMA TeardownWaitedInv ==
  ASSUME IndInv, TeardownWaited, UNCHANGED <<authVars, hsVars>>
  PROVE  IndInv'
<1>1. channel_open' \in BOOLEAN
  BY DEF TeardownWaited, Return, srv_begin_close_wait, LocalsEnd
<1>2. output_eof' \in BOOLEAN
  BY DEF TeardownWaited, Return, srv_begin_close_wait, LocalsEnd
<1>3. peer_closed' \in BOOLEAN
  BY DEF TeardownWaited, Return, srv_begin_close_wait, LocalsEnd
<1>4. stdin_eof' \in BOOLEAN
  BY DEF TeardownWaited, Return, srv_begin_close_wait, LocalsEnd
<1>5. TypeOK'
  BY <1>1, <1>2, <1>3, <1>4 DEF IndInv, TypeOK, FlagsOK, ChildStates,
         HandshakeInv, ChannelInv, WindowInv, ChildInv, TeardownWaited, Return,
         srv_begin_close_wait, LocalsEnd
<1>6. HandshakeInv' /\ ChannelInv' /\ ChildInv'
  BY DEF IndInv, TypeOK, FlagsOK, ChildStates, HandshakeInv, ChannelInv,
         ChildInv, WindowInv, OutputInv, WireInv, TeardownWaited, Return,
         srv_begin_close_wait, LocalsEnd
<1>7. WindowInv' /\ OutputInv' /\ WireInv'
  BY DEF IndInv, TypeOK, FlagsOK, ChildStates, HandshakeInv, ChannelInv,
         ChildInv, WindowInv, OutputInv, WireInv, TeardownWaited, Return,
         srv_begin_close_wait, LocalsEnd
<1>8. QED
  BY <1>5, <1>6, <1>7 DEF IndInv

----------------------------------------------------------------------------
(* The world and the handshake                                            *)

\* The transport fails.
LEMMA PeerGoneInv ==
  ASSUME IndInv, PeerGone
  PROVE  IndInv'
  BY DEF IndInv, TypeOK, FlagsOK, ChildStates, HandshakeInv, ChannelInv,
         ChildInv, WindowInv, OutputInv, WireInv, PeerGone

\* The handshake deadline passes.
LEMMA HandshakeExpireInv ==
  ASSUME IndInv, HandshakeExpire
  PROVE  IndInv'
  BY DEF IndInv, TypeOK, FlagsOK, ChildStates, HandshakeInv, ChannelInv,
         ChildInv, WindowInv, OutputInv, WireInv, HandshakeExpire

\* The drain gets shorter.
LEMMA CloseWaitTickInv ==
  ASSUME IndInv, CloseWaitTick
  PROVE  IndInv'
  BY DEF IndInv, TypeOK, FlagsOK, ChildStates, HandshakeInv, ChannelInv,
         ChildInv, WindowInv, OutputInv, WireInv, CloseWaitTick

\* The traffic reaches the limit.
LEMMA RekeyLimitInv ==
  ASSUME IndInv, RekeyLimit
  PROVE  IndInv'
  BY DEF IndInv, TypeOK, FlagsOK, ChildStates, HandshakeInv, ChannelInv,
         ChildInv, WindowInv, OutputInv, WireInv, RekeyLimit

\* A banner line below the limit.
LEMMA BannerLineInv ==
  ASSUME IndInv, BannerLine
  PROVE  IndInv'
  BY DEF IndInv, TypeOK, FlagsOK, ChildStates, HandshakeInv, ChannelInv,
         ChildInv, WindowInv, OutputInv, WireInv, BannerLine, InTime

\* An overlong banner line.
LEMMA BannerOverlongInv ==
  ASSUME IndInv, BannerOverlong
  PROVE  IndInv'
  BY DEF IndInv, TypeOK, FlagsOK, ChildStates, HandshakeInv, ChannelInv,
         ChildInv, WindowInv, OutputInv, WireInv, BannerOverlong, InTime

\* The end of an overlong line.
LEMMA DiscardEndsInv ==
  ASSUME IndInv, DiscardEnds
  PROVE  IndInv'
  BY DEF IndInv, TypeOK, FlagsOK, ChildStates, HandshakeInv, ChannelInv,
         ChildInv, WindowInv, OutputInv, WireInv, DiscardEnds

\* A step of the key exchange.
LEMMA HandshakeStepInv ==
  ASSUME IndInv, HandshakeStep
  PROVE  IndInv'
  BY DEF IndInv, TypeOK, FlagsOK, ChildStates, HandshakeInv, ChannelInv,
         ChildInv, WindowInv, OutputInv, WireInv, HandshakeStep, InTime

----------------------------------------------------------------------------
(* netnox_ssh_server_serve_one()                                          *)

\* Returning keeps everything else as it is.
LEMMA FinishInv ==
  ASSUME NEW r \in {"success", "failed"}, IndInv,
         pc \in HandshakePCs \cup {"serve"}, Finish(r)
  PROVE  IndInv'
  BY DEF IndInv, TypeOK, FlagsOK, ChildStates, HandshakeInv, ChannelInv,
         ChildInv, WindowInv, OutputInv, WireInv, Finish

\* The actions that only return.
LEMMA ReturningInv ==
  ASSUME IndInv,
         \/ HandshakeFails \/ CloseWaitEnds \/ ReceiveFails \/ ServeOverLimit
         \/ ServeDisconnect \/ ServeMalformed \/ ServeReplyFails
  PROVE  IndInv'
<1>1. CASE HandshakeFails
  BY <1>1, FinishInv DEF HandshakeFails
<1>2. CASE CloseWaitEnds
  <2>1. PICK r \in {"success", "failed"} : Finish(r)
    BY <1>2 DEF CloseWaitEnds
  <2>2. QED
    BY <1>2, <2>1, FinishInv DEF CloseWaitEnds
<1>3. CASE ReceiveFails
  BY <1>3, FinishInv DEF ReceiveFails
<1>4. CASE ServeOverLimit
  BY <1>4, FinishInv DEF ServeOverLimit
<1>5. CASE ServeDisconnect
  BY <1>5, FinishInv DEF ServeDisconnect, Serving
<1>6. CASE ServeMalformed
  BY <1>6, FinishInv DEF ServeMalformed, Serving
<1>7. CASE ServeReplyFails
  BY <1>7, FinishInv DEF ServeReplyFails, Serving
<1>8. QED
  BY <1>1, <1>2, <1>3, <1>4, <1>5, <1>6, <1>7

\* The connection service, before and after authentication.
LEMMA ServeConnectionServiceInv ==
  ASSUME IndInv, ServeConnectionService
  PROVE  IndInv'
<1>1. CASE ~authenticated
  BY <1>1, FinishInv DEF ServeConnectionService, Serving
<1>2. CASE authenticated
  <2>1. connection_service_ready' \in BOOLEAN
    BY <1>2 DEF ServeConnectionService
  <2>2. UNCHANGED <<pc, envVars, channel_open, endVars, windowVars, sessionVars,
                    wireVars, userauth_service_ready, authenticated,
                    auth_attempts, hsVars>>
    BY <1>2 DEF ServeConnectionService
  <2>3. QED
    BY <2>1, <2>2 DEF IndInv, TypeOK, FlagsOK, ChildStates, HandshakeInv,
       ChannelInv, ChildInv, WindowInv, OutputInv, WireInv
<1>3. QED
  BY <1>1, <1>2

\* A userauth request: the only action that authenticates, within the limit.
LEMMA ServeUserauthInv ==
  ASSUME NEW k \in BOOLEAN, IndInv, ServeUserauth(k)
  PROVE  IndInv'
<1> DEFINE refuse == \/ ~userauth_service_ready \/ authenticated
                     \/ auth_attempts >= MaxAttempts
<1>1. CASE refuse
  BY <1>1, FinishInv DEF ServeUserauth, Serving
<1>2. CASE ~refuse
  <2>1. pc = "serve" /\ UserauthCounted(auth_attempts + 1, k)
    BY <1>2 DEF ServeUserauth, Serving
  <2>2. authenticated' \in BOOLEAN /\ connection_service_ready' \in BOOLEAN
    BY <2>1 DEF UserauthCounted, IndInv, TypeOK, FlagsOK
  <2>3. TypeOK' /\ HandshakeInv' /\ ChannelInv'
    BY <1>2, <2>1, <2>2 DEF IndInv, TypeOK, FlagsOK, ChildStates,
       HandshakeInv, ChannelInv, UserauthCounted
  <2>4. ChildInv' /\ WindowInv' /\ OutputInv' /\ WireInv'
    BY <2>1 DEF IndInv, TypeOK, FlagsOK, ChildStates, ChildInv, WindowInv,
       OutputInv, WireInv, UserauthCounted
  <2>5. QED
    BY <2>3, <2>4 DEF IndInv
<1>3. QED
  BY <1>1, <1>2

\* The first channel, with a window of its own and the peer's credit.
LEMMA ServeChannelOpenInv ==
  ASSUME NEW w \in Windows, IndInv, ServeChannelOpen(w)
  PROVE  IndInv'
<1>1. CASE OpenRefused
  BY <1>1, FinishInv DEF ServeChannelOpen, Serving
<1>2. CASE ~OpenRefused
  <2>1. /\ pc = "serve" /\ close_deadline = UNSET
        /\ authenticated /\ ~channel_open
    BY <1>2 DEF ServeChannelOpen, Serving, OpenRefused
  <2>2. opened = 0 /\ closes = 0 /\ child = "none" /\ delivered = 0
    BY <2>1 DEF IndInv, TypeOK, ChannelInv, ChildInv, OutputInv
  <2>3. channel_open' \in BOOLEAN
    BY <1>2 DEF ServeChannelOpen
  <2>4. TypeOK'
    <3>1. /\ remote_window_size' = w /\ granted' = w
          /\ local_window_size' = WINDOW /\ opened' = opened + 1
          /\ UNCHANGED <<pc, envVars, endVars, delivered, sessionVars, closes,
                         status_sent, eof_sent, authVars, hsVars>>
      BY <1>2 DEF ServeChannelOpen
    <3>2. QED
      BY <2>3, <3>1 DEF IndInv, TypeOK, FlagsOK, ChildStates
  <2>5. HandshakeInv' /\ ChannelInv' /\ ChildInv'
    BY <1>2, <2>1, <2>2 DEF IndInv, TypeOK, FlagsOK, HandshakeInv, ChannelInv,
       ChildInv, ServeChannelOpen
  <2>6. WindowInv' /\ OutputInv' /\ WireInv'
    BY <1>2, <2>1, <2>2 DEF IndInv, TypeOK, FlagsOK, WindowInv, OutputInv,
       WireInv, ServeChannelOpen
  <2>7. QED
    BY <2>4, <2>5, <2>6 DEF IndInv
<1>3. QED
  BY <1>1, <1>2

\* The userauth service.
LEMMA ServeUserauthServiceInv ==
  ASSUME IndInv, ServeUserauthService
  PROVE  IndInv'
  BY DEF IndInv, TypeOK, FlagsOK, ChildStates, HandshakeInv, ChannelInv,
         ChildInv, WindowInv, OutputInv, WireInv, ServeUserauthService,
         Serving, InTime

\* An adjust outside a session: only the peer counts it.
LEMMA ServeWindowAdjustInv ==
  ASSUME NEW w \in Windows, IndInv, ServeWindowAdjust(w)
  PROVE  IndInv'
  BY DEF IndInv, TypeOK, FlagsOK, ChildStates, HandshakeInv, ChannelInv,
         ChildInv, WindowInv, OutputInv, WireInv, ServeWindowAdjust, Serving,
         InTime

\* A terminal.
LEMMA ServePtyReqInv ==
  ASSUME IndInv, ServePtyReq
  PROVE  IndInv'
  BY DEF IndInv, TypeOK, FlagsOK, ChildStates, HandshakeInv, ChannelInv,
         ChildInv, WindowInv, OutputInv, WireInv, ServePtyReq, Serving, InTime

\* A session starts on an open channel only.
LEMMA ServeExecInv ==
  ASSUME IndInv, ServeExec
  PROVE  IndInv'
  BY DEF IndInv, TypeOK, FlagsOK, ChildStates, HandshakeInv, ChannelInv,
         ChildInv, WindowInv, OutputInv, WireInv, ServeExec, Serving,
         srv_run_session_unix, InTime

\* A session that cannot be started.
LEMMA ServeExecFailsInv ==
  ASSUME IndInv, ServeExecFails
  PROVE  IndInv'
  BY DEF IndInv, TypeOK, FlagsOK, ChildStates, HandshakeInv, ChannelInv,
         ChildInv, WindowInv, OutputInv, WireInv, ServeExecFails, Serving,
         InTime

\* Data outside a session.
LEMMA ServeDataInv ==
  ASSUME NEW n \in DataLens, IndInv, ServeData(n)
  PROVE  IndInv'
  BY DEF IndInv, TypeOK, FlagsOK, ChildStates, HandshakeInv, ChannelInv,
         ChildInv, WindowInv, OutputInv, WireInv, ServeData, Serving,
         srv_maybe_window_adjust, InTime

\* The peer's CLOSE before a session, or a late one.
LEMMA ServeCloseInv ==
  ASSUME IndInv, ServeClose
  PROVE  IndInv'
  BY DEF IndInv, TypeOK, FlagsOK, ChildStates, HandshakeInv, ChannelInv,
         ChildInv, WindowInv, OutputInv, WireInv, ServeClose,
         srv_handle_channel_end, srv_begin_close_wait, Serving, InTime

----------------------------------------------------------------------------
(* The invariant.                                                          *)

\* Every step of the session, the child's included, keeps the invariant.
LEMMA InSessionInv ==
  ASSUME IndInv, InSession
  PROVE  IndInv'
<1> USE DEF InSession
<1>1. CASE Child
  <2>1. ASSUME NEW k \in BOOLEAN, ChildExit(k) PROVE IndInv'
    BY <2>1, ChildExitInv
  <2>2. QED
    BY <1>1, <2>1, ChildSetsidInv, ChildWriteInv, ChildCloseOutputInv DEF Child
<1>2. CASE SessionPacket
  <2>1. ASSUME NEW k \in BOOLEAN, RecvGlobalRequest(k) PROVE IndInv'
    BY <2>1, RecvGlobalRequestInv
  <2>2. ASSUME NEW n \in DataLens, RecvData(n) PROVE IndInv'
    BY <2>2, RecvDataInv
  <2>3. ASSUME NEW w \in Windows, RecvWindowAdjust(w) PROVE IndInv'
    BY <2>3, RecvWindowAdjustInv
  <2>4. QED
    BY <1>2, <2>1, <2>2, <2>3, RecvBreaksInv, RecvIgnoredInv, RecvEofInv,
       RecvCloseInv DEF SessionPacket
<1>3. CASE SessionLocal
  <2>1. ASSUME NEW k \in BOOLEAN, TeardownTerm(k) PROVE IndInv'
    BY <2>1, TeardownTermInv
  <2>2. CASE Poll(FALSE)
    BY <2>2, PollInv
  <2>3. QED
    BY <1>3, <2>1, <2>2, PollOverLimitInv, PollTickInv, PollHangupInv,
       ReadOutputInv, ReadEofInv, NoOutputInv, SendOutputInv,
       SendOutputFailsInv, ReapInv, SendStatusInv, SendEofInv,
       SendCompletionFailsInv, SendCloseInv, TeardownReapedInv,
       TeardownKillInv, TeardownWaitedInv DEF SessionLocal
<1>4. CASE Poll(TRUE)
  BY <1>4, PollInv
<1>5. CASE PollIdle
  BY <1>5, PollIdleInv
<1>6. QED
  BY <1>1, <1>2, <1>3, <1>4, <1>5

\* Every packet of the outer loop keeps the invariant.
LEMMA ServePacketInv ==
  ASSUME IndInv, ServePacket
  PROVE  IndInv'
<1>1. ASSUME NEW k \in BOOLEAN, ServeUserauth(k) PROVE IndInv'
  BY <1>1, ServeUserauthInv
<1>2. ASSUME NEW w \in Windows, ServeChannelOpen(w) PROVE IndInv'
  BY <1>2, ServeChannelOpenInv
<1>3. ASSUME NEW w \in Windows, ServeWindowAdjust(w) PROVE IndInv'
  BY <1>3, ServeWindowAdjustInv
<1>4. ASSUME NEW n \in DataLens, ServeData(n) PROVE IndInv'
  BY <1>4, ServeDataInv
<1>5. QED
  BY <1>1, <1>2, <1>3, <1>4, ReturningInv, ServeUserauthServiceInv,
     ServeConnectionServiceInv, ServePtyReqInv, ServeExecInv,
     ServeExecFailsInv, ServeCloseInv DEF ServePacket

\* A step that changes nothing keeps the invariant.
LEMMA StutterInv ==
  ASSUME IndInv, UNCHANGED vars
  PROVE  IndInv'
  BY DEF vars, IndInv, TypeOK, FlagsOK, ChildStates, HandshakeInv, ChannelInv,
     ChildInv, WindowInv, OutputInv, WireInv

\* The invariant is inductive.
LEMMA NextInv == IndInv /\ [Next]_vars => IndInv'
<1> SUFFICES ASSUME IndInv, [Next]_vars PROVE IndInv'
  OBVIOUS
<1>1. CASE Handshake
  BY <1>1, BannerLineInv, BannerOverlongInv, HandshakeStepInv, ReturningInv
     DEF Handshake
<1>2. QED
  BY <1>1, PeerGoneInv, HandshakeExpireInv, CloseWaitTickInv, RekeyLimitInv,
     DiscardEndsInv, ReturningInv, ServePacketInv, InSessionInv, StutterInv
     DEF Next

\* The conjunction of the parts above holds in every reachable state of a
\* connection, whatever the peer sends and the command does.
THEOREM ConnectionInvariant == Spec => []IndInv
<1>1. Init => IndInv
  BY InitInv
<1>2. IndInv /\ [Next]_vars => IndInv'
  BY NextInv
<1>3. QED
  BY <1>1, <1>2, PTL DEF Spec

----------------------------------------------------------------------------
(* The properties.                                                         *)

\* Type correctness: both windows stay within 32 bits (no wrap-around of
\* srv_maybe_window_adjust() or of an accepted WINDOW_ADJUST).
THEOREM ConnectionTypeOK == Spec => []TypeOK
<1>1. IndInv => TypeOK
  BY DEF IndInv
<1>2. QED
  BY <1>1, ConnectionInvariant, PTL

\* The receive window of an open channel never runs dry nor overflows.
THEOREM ConnectionLocalWindowBand == Spec => []LocalWindowBand
<1>1. IndInv => LocalWindowBand
  BY DEF IndInv, TypeOK, WindowInv, LocalWindowBand
<1>2. QED
  BY <1>1, ConnectionInvariant, PTL

\* The server never sends more CHANNEL_DATA than the peer granted.
THEOREM ConnectionWindowRespected == Spec => []WindowRespected
<1>1. IndInv => WindowRespected
  BY DEF IndInv, WindowInv, WindowRespected
<1>2. QED
  BY <1>1, ConnectionInvariant, PTL

\* exit-status is sent only after every byte of output and the child's end.
THEOREM ConnectionOutputComplete == Spec => []OutputComplete
<1>1. IndInv => OutputComplete
  BY DEF IndInv, OutputInv, OutputComplete
<1>2. QED
  BY <1>1, ConnectionInvariant, PTL

\* No exit of the session's loop leaves a child behind.
THEOREM ConnectionNoOrphan == Spec => []NoOrphan
<1>1. IndInv => NoOrphan
  BY DEF IndInv, ChildInv, NoOrphan
<1>2. QED
  BY <1>1, ConnectionInvariant, PTL

\* One channel per connection, and CLOSE sent at most once for it.
THEOREM ConnectionOneChannelOneClose == Spec => []OneChannelOneClose
<1>1. IndInv => OneChannelOneClose
  BY DEF IndInv, TypeOK, ChannelInv, OneChannelOneClose
<1>2. QED
  BY <1>1, ConnectionInvariant, PTL

\* While the connection drains there is no channel and no session.
THEOREM ConnectionDrainIsFinal == Spec => []DrainIsFinal
<1>1. IndInv => DrainIsFinal
  BY DEF IndInv, ChannelInv, DrainIsFinal
<1>2. QED
  BY <1>1, ConnectionInvariant, PTL

\* No process runs for a peer that has not been authenticated, and the limit
\* on attempts holds.
THEOREM ConnectionSessionAuthorised == Spec => []SessionAuthorised
<1>1. IndInv => SessionAuthorised
  BY DEF IndInv, TypeOK, ChannelInv, ChildInv, SessionAuthorised
<1>2. QED
  BY <1>1, ConnectionInvariant, PTL

----------------------------------------------------------------------------
(* Refinement: what the peer sees of the channel.                          *)

\* The variables the refinement mapping reads.
wireHistory == <<opened, closes, status_sent, eof_sent, delivered>>

\* The steps that send a message of the channel.
WireSteps ==
    \/ \E w \in Windows : ServeChannelOpen(w)
    \/ ServeClose \/ RecvClose
    \/ SendOutput \/ SendStatus \/ SendEof \/ SendClose

\* No other step is seen by the peer.
LEMMA OthersUnseen == [Next]_vars => WireSteps \/ UNCHANGED wireHistory
<1> SUFFICES ASSUME [Next]_vars, ~WireSteps PROVE UNCHANGED wireHistory
  OBVIOUS
<1> USE DEF wireHistory
<1>1. CASE InSession
  <2>1. CASE Child
    BY <2>1 DEF Child, ChildSetsid, ChildWrite, ChildCloseOutput, ChildExit
  <2>2. CASE SessionPacket
    BY <2>2 DEF SessionPacket, RecvBreaks, RecvIgnored, RecvGlobalRequest,
       RecvData, RecvWindowAdjust, RecvEof, WireSteps
  <2>3. CASE SessionLocal
    BY <2>3 DEF SessionLocal, PollOverLimit, Poll, PollTick, PollHangup,
       ReadOutput, ReadEof, NoOutput, SendOutputFails, Reap,
       SendCompletionFails, TeardownReaped, TeardownTerm, TeardownKill,
       TeardownWaited, WireSteps
  <2>4. QED
    BY <1>1, <2>1, <2>2, <2>3 DEF InSession, Poll, PollIdle
<1>2. CASE ServePacket
  BY <1>2 DEF ServePacket, ServeOverLimit, ServeDisconnect, ServeMalformed,
     ServeReplyFails, ServeUserauthService, ServeConnectionService,
     ServeUserauth, UserauthCounted, ServeWindowAdjust, ServePtyReq, ServeExec,
     ServeExecFails, ServeData, Finish, WireSteps
<1>3. CASE Handshake \/ DiscardEnds \/ CloseWaitEnds \/ ReceiveFails
  BY <1>3 DEF Handshake, BannerLine, BannerOverlong, HandshakeStep,
     HandshakeFails, DiscardEnds, CloseWaitEnds, ReceiveFails, Finish
<1>4. CASE PeerGone \/ HandshakeExpire \/ CloseWaitTick \/ RekeyLimit
  BY <1>4 DEF PeerGone, HandshakeExpire, CloseWaitTick, RekeyLimit
<1>5. CASE UNCHANGED vars
  BY <1>5 DEF vars
<1>6. QED
  BY <1>1, <1>2, <1>3, <1>4, <1>5 DEF Next

\* Such a step is a step of the abstract channel, or stutters (a late CLOSE of
\* the peer, a CLOSE that could not be sent).
LEMMA SeenSteps ==
  ASSUME IndInv, WireSteps
  PROVE  [Wire!WireNext]_(Wire!wireState)
<1> USE DEF Wire!wireState, Wire!WireNext, Wire!Confirm, Wire!Data,
            Wire!ExitStatus, Wire!Eof, Wire!Close
<1>1. ASSUME NEW w \in Windows, ServeChannelOpen(w)
      PROVE  [Wire!WireNext]_(Wire!wireState)
  <2>1. CASE OpenRefused
    BY <1>1, <2>1 DEF ServeChannelOpen, Finish
  <2>2. CASE ~OpenRefused
    <3>1. opened = 0 /\ closes = 0 /\ ~status_sent /\ ~eof_sent
      BY <1>1, <2>2 DEF ServeChannelOpen, Serving, OpenRefused, IndInv, TypeOK,
         ChannelInv, ChildInv, OutputInv, WireInv
    <3>2. /\ opened' = 1
          /\ UNCHANGED <<closes, status_sent, eof_sent, delivered>>
      BY <1>1, <2>2, <3>1 DEF ServeChannelOpen
    <3>3. QED
      BY <3>1, <3>2
  <2>3. QED
    BY <2>1, <2>2
<1>2. CASE ServeClose
  <2>1. UNCHANGED <<opened, status_sent, eof_sent, delivered>>
    BY <1>2 DEF ServeClose
  <2>2. CASE ~channel_open
    BY <1>2, <2>1, <2>2 DEF ServeClose, srv_handle_channel_end
  <2>3. CASE channel_open
    BY <1>2, <2>1, <2>3 DEF ServeClose, Serving, srv_handle_channel_end, IndInv,
       TypeOK, ChannelInv, ChildInv, OutputInv, WireInv
  <2>4. QED
    BY <2>2, <2>3
<1>3. CASE RecvClose
  <2>1. /\ UNCHANGED <<opened, status_sent, eof_sent, delivered>>
        /\ closes' \in {closes, closes + 1}
    BY <1>3 DEF RecvClose, srv_handle_channel_end
  <2>2. opened = 1 /\ closes = 0 /\ ~status_sent /\ ~eof_sent
    BY <1>3 DEF RecvClose, Receiving, IndInv, TypeOK, ChannelInv, ChildInv,
       WireInv
  <2>3. QED
    BY <2>1, <2>2
<1>4. CASE SendOutput
  <2>1. opened = 1 /\ closes = 0 /\ ~status_sent /\ ~eof_sent
    BY <1>4 DEF SendOutput, IndInv, TypeOK, ChannelInv, ChildInv, WireInv
  <2>2. /\ UNCHANGED <<opened, closes, status_sent, eof_sent>>
        /\ delivered' = delivered + chunk
    BY <1>4 DEF SendOutput
  <2>3. delivered \in Nat /\ chunk \in Nat
    BY DEF IndInv, TypeOK
  <2>4. QED
    BY <2>1, <2>2, <2>3
<1>5. CASE SendStatus
  BY <1>5 DEF SendStatus, IndInv, TypeOK, FlagsOK, ChannelInv, ChildInv, WireInv
<1>6. CASE SendEof
  BY <1>6 DEF SendEof, IndInv, TypeOK, FlagsOK, ChannelInv, ChildInv, WireInv
<1>7. CASE SendClose
  BY <1>7 DEF SendClose, IndInv, TypeOK, FlagsOK, ChannelInv, ChildInv, WireInv
<1>8. QED
  BY <1>1, <1>2, <1>3, <1>4, <1>5, <1>6, <1>7 DEF WireSteps

\* The channel of noxsshd implements the abstract channel: its messages come
\* in the order open, data, exit-status, EOF, CLOSE, or a bare CLOSE.
THEOREM ConnectionRefinesWire == Spec => WireRefined
<1>1. Init => Wire!WireInit
  BY DEF Init, Wire!WireInit
<1>2. IndInv /\ [Next]_vars => [Wire!WireNext]_(Wire!wireState)
  <2> SUFFICES ASSUME IndInv, [Next]_vars
               PROVE  [Wire!WireNext]_(Wire!wireState)
    OBVIOUS
  <2>1. CASE WireSteps
    BY <2>1, SeenSteps
  <2>2. CASE UNCHANGED wireHistory
    BY <2>2 DEF wireHistory, Wire!wireState
  <2>3. QED
    BY <2>1, <2>2, OthersUnseen
<1>3. QED
  BY <1>1, <1>2, ConnectionInvariant, PTL DEF Spec, WireRefined, Wire!WireSpec
=============================================================================
