------------------------------- MODULE Daemon -------------------------------
(***************************************************************************)
(* The listener of noxsshd: noxsshd_listen_posix() of                      *)
(* server/daemon_runtime.c.  One process accepts connections, forks one    *)
(* child per connection and counts them in the local variable active.      *)
(* Children end at any time; SIGCHLD runs an empty handler installed       *)
(* without SA_RESTART, so its only effect is that a blocked accept() fails *)
(* with EINTR.  A SIGCHLD that arrives anywhere else is lost.              *)
(***************************************************************************)
EXTENDS Naturals, FiniteSets, Sequences

CONSTANTS Clients,      \* connections that may reach the listening socket
          MaxSessions,  \* the literal 4u
          Backlog       \* queue limit of listen(); connects beyond it wait

ASSUME DaemonAssumption ==
    /\ IsFiniteSet(Clients)
    /\ MaxSessions \in Nat \ {0}
    /\ Backlog \in Nat \ {0}

VARIABLES
    pc,           \* where the listener is: see PCs
    active,       \* its counter of children
    queue,        \* completed connections not yet accepted
    client,       \* the connection accept() returned last
    proc,         \* state of the process forked for each connection
    refused,      \* connections closed without a process
    interrupted   \* a SIGCHLD reached the listener blocked in accept()

vars == <<pc, active, queue, client, proc, refused, interrupted>>

\* "reap": the waitpid loop; "enter": between its last waitpid and accept();
\* "accept": blocked in accept(); "admit": accept() returned a socket;
\* "forked": between a successful fork() and active++.
PCs == {"reap", "enter", "accept", "admit", "forked"}

\* "none": not forked; "live": serving; "zombie": exited, not waited for;
\* "gone": reaped.
ProcStates == {"none", "live", "zombie", "gone"}

Live == {c \in Clients : proc[c] = "live"}
Zombies == {c \in Clients : proc[c] = "zombie"}
Queued == {queue[i] : i \in 1..Len(queue)}

Init ==
    /\ pc = "reap"
    /\ active = 0
    /\ queue = <<>>
    /\ client \in Clients
    /\ proc = [c \in Clients |-> "none"]
    /\ refused = {}
    /\ interrupted = FALSE

----------------------------------------------------------------------------
(* The network and the connection processes.                               *)

\* A TCP connection completes and waits in the listen queue.
Connect(c) ==
    /\ proc[c] = "none"
    /\ c \notin refused \cup Queued
    /\ pc \in {"admit", "forked"} => c # client
    /\ Len(queue) < Backlog
    /\ queue' = Append(queue, c)
    /\ UNCHANGED <<pc, active, client, proc, refused, interrupted>>

\* Mutation: the SIGCHLD handler itself decrements the counter.
ChildExitCounts(c) ==
    /\ proc[c] = "live"
    /\ proc' = [proc EXCEPT ![c] = "zombie"]
    /\ active' = active - 1
    /\ interrupted' = (interrupted \/ pc = "accept")
    /\ UNCHANGED <<pc, queue, client, refused>>

\* A connection's process calls _exit(): it is a zombie until waited for, and
\* SIGCHLD wakes the listener if, and only if, it sleeps in accept().
ChildExit(c) ==
    /\ proc[c] = "live"
    /\ proc' = [proc EXCEPT ![c] = "zombie"]
    /\ interrupted' = (interrupted \/ pc = "accept")
    /\ UNCHANGED <<pc, active, queue, client, refused>>

----------------------------------------------------------------------------
(* The listener.                                                           *)

\* while((done = waitpid(-1,NULL,WNOHANG)) > 0) { if(active) active--; }
ReapOne(c) ==
    /\ pc = "reap"
    /\ proc[c] = "zombie"
    /\ proc' = [proc EXCEPT ![c] = "gone"]
    /\ active' = IF active > 0 THEN active - 1 ELSE active
    /\ UNCHANGED <<pc, queue, client, refused, interrupted>>

ReapDone ==
    /\ pc = "reap"
    /\ Zombies = {}
    /\ pc' = "enter"
    /\ UNCHANGED <<active, queue, client, proc, refused, interrupted>>

\* The call of accept() itself: from here on a SIGCHLD interrupts it.
EnterAccept ==
    /\ pc = "enter"
    /\ pc' = "accept"
    /\ interrupted' = FALSE
    /\ UNCHANGED <<active, queue, client, proc, refused>>

\* Mutation: the loop tests errno == EINTR instead of accept()'s result, and
\* drops the socket accept() returned after a signal.
AcceptTestsErrno ==
    /\ pc = "accept"
    /\ queue # <<>>
    /\ client' = Head(queue)
    /\ queue' = Tail(queue)
    /\ pc' = IF interrupted THEN "reap" ELSE "admit"
    /\ UNCHANGED <<active, proc, refused, interrupted>>

\* accept() prefers a queued connection to reporting a signal, but a signal
\* that arrived while the queue was empty may win the race with one.
AcceptClient ==
    /\ pc = "accept"
    /\ queue # <<>>
    /\ client' = Head(queue)
    /\ queue' = Tail(queue)
    /\ pc' = "admit"
    /\ UNCHANGED <<active, proc, refused, interrupted>>

\* Mutation: the handler is installed with SA_RESTART, so accept() goes on
\* sleeping after the signal.
AcceptRestarted ==
    /\ pc = "accept"
    /\ interrupted
    /\ interrupted' = FALSE
    /\ UNCHANGED <<pc, active, queue, client, proc, refused>>

AcceptInterrupted ==
    /\ pc = "accept"
    /\ interrupted
    /\ pc' = "reap"
    /\ UNCHANGED <<active, queue, client, proc, refused, interrupted>>

\* Any other error of accept() is reported and the loop continues.
AcceptError ==
    /\ pc = "accept"
    /\ pc' = "reap"
    /\ UNCHANGED <<active, queue, client, proc, refused, interrupted>>

\* if(active >= 4u) { close(client); continue; }
Refuse ==
    /\ pc = "admit"
    /\ active >= MaxSessions
    /\ refused' = refused \cup {client}
    /\ pc' = "reap"
    /\ UNCHANGED <<active, queue, client, proc, interrupted>>

\* Mutation: the limit is tested with > instead of >=.
ForkOverLimit ==
    /\ pc = "admit"
    /\ active <= MaxSessions
    /\ proc' = [proc EXCEPT ![client] = "live"]
    /\ pc' = "forked"
    /\ UNCHANGED <<active, queue, client, refused, interrupted>>

\* The socket timeouts, fork(), and in the parent close(client).
Fork ==
    /\ pc = "admit"
    /\ active < MaxSessions
    /\ proc' = [proc EXCEPT ![client] = "live"]
    /\ pc' = "forked"
    /\ UNCHANGED <<active, queue, client, refused, interrupted>>

\* fork() fails: the connection is closed and not counted.
ForkFails ==
    /\ pc = "admit"
    /\ active < MaxSessions
    /\ refused' = refused \cup {client}
    /\ pc' = "reap"
    /\ UNCHANGED <<active, queue, client, proc, interrupted>>

\* Mutation: the increment is missing.
CountNothing ==
    /\ pc = "forked"
    /\ pc' = "reap"
    /\ UNCHANGED <<active, queue, client, proc, refused, interrupted>>

\* if(child > 0) active++;
Count ==
    /\ pc = "forked"
    /\ active' = active + 1
    /\ pc' = "reap"
    /\ UNCHANGED <<queue, client, proc, refused, interrupted>>

----------------------------------------------------------------------------
Listener ==
    \/ \E c \in Clients : ReapOne(c)
    \/ ReapDone
    \/ EnterAccept
    \/ AcceptClient
    \/ AcceptInterrupted
    \/ Refuse
    \/ Fork
    \/ Count

Next ==
    \/ \E c \in Clients : Connect(c) \/ ChildExit(c)
    \/ Listener
    \/ AcceptError
    \/ ForkFails

Spec == Init /\ [][Next]_vars

\* The listener runs whenever it can (WF), and accept() does not fail forever
\* with a connection waiting (SF): errors of accept() and fork() themselves
\* are never required to happen.
FairSpec == Spec /\ WF_vars(Listener) /\ SF_vars(AcceptClient)
----------------------------------------------------------------------------
\* Types of the listener's state; the counter is a natural number, so no
\* decrement of the waitpid loop wraps it.
TypeOK ==
    /\ pc \in PCs
    /\ active \in Nat
    /\ queue \in Seq(Clients)
    /\ client \in Clients
    /\ proc \in [Clients -> ProcStates]
    /\ refused \in SUBSET Clients
    /\ interrupted \in BOOLEAN

\* Processes the listener has forked and not yet waited for.
Unreaped == Live \cup Zombies

\* The counter equals the number of unreaped processes at every point of the
\* loop except between fork() and active++, where it is one behind: children
\* that die before they are counted are still counted down exactly once, so
\* the guard if(active) never hides a lost decrement.
CounterExact ==
    Cardinality(Unreaped) = active + (IF pc = "forked" THEN 1 ELSE 0)

\* docs/server.md: "It permits four concurrent connections": never more.
SessionLimit == Cardinality(Live) <= MaxSessions

\* A connection is answered once: it is never both refused and served, nor
\* back in the queue after it was answered, nor queued twice.
AnsweredOnce ==
    /\ \A c \in refused : proc[c] = "none" /\ c \notin Queued
    /\ \A c \in Queued : proc[c] = "none"
    /\ \A i, j \in 1..Len(queue) : queue[i] = queue[j] => i = j

\* Every completed connection is answered: served or closed.
EveryClientAnswered ==
    \A c \in Clients : c \in Queued ~> (proc[c] # "none" \/ c \in refused)

\* A session that ends while the listener sleeps in accept() gives its slot
\* back without waiting for another connection: SIGCHLD's one purpose.
InterruptReaps ==
    \A c \in Clients :
        (pc = "accept" /\ interrupted /\ proc[c] = "zombie") ~> (proc[c] = "gone")

\* The daemon keeps the promise of SessionPool: a session exists for a client
\* from fork() until its process ends, closing unserved is turning away.
Pool == INSTANCE SessionPool
            WITH live <- Live,
                 turnedAway <- refused,
                 finished <- {c \in Clients : proc[c] \in {"zombie", "gone"}}

PoolRefined == Pool!PoolSpec
=============================================================================
