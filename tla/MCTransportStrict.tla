------------------------- MODULE MCTransportStrict -------------------------
(* What README.md says of key re-exchange, as a property of Transport.     *)
EXTENDS Transport

\* README.md:110-111: "Use `--rekey-interval` to trigger periodic key
\* re-exchange during long-lived sessions.  Server-initiated
\* `SSH_MSG_KEXINIT` rekey events are also handled during active sessions":
\* when an exchange is over at both ends, each can read what the other sends.
RekeyAgrees ==
    (\A e \in Ends : Established(e) /\ wire[e] = <<>>)
        => \A e \in Ends : out_key[e] = in_key[Peer(e)]
=============================================================================
