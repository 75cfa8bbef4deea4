---------------------------- MODULE ChannelWire ----------------------------
(***************************************************************************)
(* The session channel of noxsshd as its peer sees it: the order in which  *)
(* the server's messages for the channel may come.  The server promises    *)
(* docs/server.md's "exit-status/EOF/CLOSE order" when a command completes *)
(* and a bare CLOSE in answer to the peer's own.  The connection may be    *)
(* lost in any phase.                                                      *)
(***************************************************************************)
EXTENDS Naturals

VARIABLES phase,  \* last kind of message sent for the channel
          bytes   \* channel data sent so far

wireState == <<phase, bytes>>

WireInit == phase = "none" /\ bytes = 0

Confirm == phase = "none" /\ phase' = "open" /\ UNCHANGED bytes

Data == phase = "open" /\ bytes' > bytes /\ UNCHANGED phase

ExitStatus == phase = "open" /\ phase' = "status" /\ UNCHANGED bytes

Eof == phase = "status" /\ phase' = "eof" /\ UNCHANGED bytes

Close == phase \in {"open", "eof"} /\ phase' = "closed" /\ UNCHANGED bytes

WireNext == Confirm \/ Data \/ ExitStatus \/ Eof \/ Close

WireSpec == WireInit /\ [][WireNext]_wireState
=============================================================================
