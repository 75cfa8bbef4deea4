---------------------------- MODULE SessionPool ----------------------------
(***************************************************************************)
(* What noxsshd promises about the connections it serves: every client is  *)
(* answered once, by a session of its own or by being turned away, and no  *)
(* more than MaxSessions sessions exist at a time.  It leaves open WHEN a  *)
(* client is turned away: the listener's counter may lag behind the end of *)
(* a session, and a connection be closed although a slot is free.          *)
(***************************************************************************)
EXTENDS Naturals, FiniteSets

CONSTANTS Clients,     \* connections that reach the listening socket
          MaxSessions  \* "permits four concurrent connections"

VARIABLES live,        \* clients that have a session now
          turnedAway,  \* clients whose connection was closed unserved
          finished     \* clients whose session is over

poolVars == <<live, turnedAway, finished>>

Answered == live \cup turnedAway \cup finished

PoolInit == live = {} /\ turnedAway = {} /\ finished = {}

Admit(c) ==
    /\ c \notin Answered
    /\ Cardinality(live) < MaxSessions
    /\ live' = live \cup {c}
    /\ UNCHANGED <<turnedAway, finished>>

TurnAway(c) ==
    /\ c \notin Answered
    /\ turnedAway' = turnedAway \cup {c}
    /\ UNCHANGED <<live, finished>>

Finish(c) ==
    /\ c \in live
    /\ live' = live \ {c}
    /\ finished' = finished \cup {c}
    /\ UNCHANGED turnedAway

PoolNext == \E c \in Clients : Admit(c) \/ TurnAway(c) \/ Finish(c)

PoolSpec == PoolInit /\ [][PoolNext]_poolVars
=============================================================================
