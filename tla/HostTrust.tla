----------------------------- MODULE HostTrust ------------------------------
(***************************************************************************)
(* The identity of a host over its life: invocations of noxsshd that make  *)
(* or find the host's seed (HostSeed), and clients that are shown the key  *)
(* of that seed and keep its fingerprint (KnownHosts).  A key is named     *)
(* after the invocation that made its seed.  An invocation serves the seed *)
(* host_seed() returned until power is lost; the clients, and their        *)
(* known_hosts file, are on another machine.                               *)
(***************************************************************************)
EXTENDS HostSeed, KnownHosts

ASSUME HostTrustAssumption == Keys = Invocations

VARIABLE serving   \* invocations that listen with the seed they returned

htVars == <<vars, khVars, serving>>

HTInit == Init /\ KHInit /\ serving = {}

\* An invocation that succeeds goes on to listen; a power loss ends them all.
Identity ==
    /\ Next
    /\ serving' = IF losses' # losses THEN {}
                  ELSE serving \cup {p \in Invocations : pc[p] # "ok" /\ pc'[p] = "ok"}
    /\ UNCHANGED khVars

\* A client's key exchange with an invocation that listens.
Meet(c) ==
    /\ \E p \in serving : Connect(c, seed[p])
    /\ UNCHANGED <<vars, serving>>

Trust(c) == Verify(c) /\ UNCHANGED <<vars, serving>>

HTNext == Identity \/ \E c \in Clients : Meet(c) \/ Trust(c)

HTSpec == HTInit /\ [][HTNext]_htVars

----------------------------------------------------------------------------
\* A host whose key was made with success is never taken for another: when a
\* client meets REMOTE HOST IDENTIFICATION HAS CHANGED, the record is the text
\* a torn append left, or an invocation that made one of the two keys did not
\* return success, that is, it died or reported a failure while others already
\* served its seed.
NoFalseAlarm ==
    \A c \in Clients : verdict[c] = "alarmed" =>
        \/ Record(known_hosts) = GARBLED
        \/ \E k \in {Record(known_hosts), shown[c]} : pc[k] # "ok"
=============================================================================
