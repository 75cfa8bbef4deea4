---------------------------- MODULE DaemonProofs ----------------------------
(***************************************************************************)
(* The listener for any set of clients, limit and backlog: its counter is  *)
(* exact, the session limit holds, each client is answered once, and the   *)
(* daemon implements SessionPool.                                          *)
(***************************************************************************)
EXTENDS Daemon, FiniteSetTheorems, TLAPS

\* A connection accept() just returned is unanswered, and the listener forks
\* only below the limit.
AdmitFresh ==
    pc = "admit" => /\ proc[client] = "none"
                    /\ client \notin refused
                    /\ client \notin Queued

ForkBelowLimit == active + (IF pc = "forked" THEN 1 ELSE 0) <= MaxSessions

\* The inductive invariant of the listener.
DaemonInv ==
    TypeOK /\ CounterExact /\ ForkBelowLimit /\ AnsweredOnce /\ AdmitFresh

----------------------------------------------------------------------------
(* Facts about the listen queue.                                           *)

\* The members of the queue after one more connection completed.
LEMMA QueuedAppend ==
    ASSUME NEW q \in Seq(Clients), NEW c \in Clients
    PROVE  {Append(q, c)[i] : i \in 1..Len(Append(q, c))}
             = {q[i] : i \in 1..Len(q)} \cup {c}
<1> DEFINE a == Append(q, c)
<1>1. Len(a) = Len(q) + 1 /\ Len(q) \in Nat
  OBVIOUS
<1>2. \A i \in 1..Len(q) : a[i] = q[i]
  OBVIOUS
<1>3. a[Len(q) + 1] = c
  OBVIOUS
<1> HIDE DEF a
<1>4. {a[i] : i \in 1..Len(a)} \subseteq {q[i] : i \in 1..Len(q)} \cup {c}
  BY <1>1, <1>2, <1>3
<1>5. {q[i] : i \in 1..Len(q)} \cup {c} \subseteq {a[i] : i \in 1..Len(a)}
  BY <1>1, <1>2, <1>3
<1> QED
  BY <1>4, <1>5 DEF a

\* Taking the head off a queue without repetitions removes that member.
LEMMA QueuedTail ==
    ASSUME NEW q \in Seq(Clients), q # <<>>,
           \A i, j \in 1..Len(q) : q[i] = q[j] => i = j
    PROVE  /\ {Tail(q)[i] : i \in 1..Len(Tail(q))}
                = {q[i] : i \in 1..Len(q)} \ {Head(q)}
           /\ Head(q) \in {q[i] : i \in 1..Len(q)}
           /\ \A i, j \in 1..Len(Tail(q)) : Tail(q)[i] = Tail(q)[j] => i = j
<1> DEFINE t == Tail(q)
<1>1. Len(t) = Len(q) - 1 /\ Len(q) \in Nat \ {0}
  OBVIOUS
<1>2. \A i \in 1..Len(t) : t[i] = q[i + 1]
  OBVIOUS
<1>3. Head(q) = q[1]
  OBVIOUS
<1> HIDE DEF t
<1>4. {t[i] : i \in 1..Len(t)} \subseteq {q[i] : i \in 1..Len(q)} \ {q[1]}
  BY <1>1, <1>2
<1>5. ASSUME NEW i \in 1..Len(q), q[i] # q[1]
      PROVE  q[i] \in {t[k] : k \in 1..Len(t)}
  <2>1. i - 1 \in 1..Len(t) /\ t[i - 1] = q[i]
    BY <1>1, <1>2, <1>5
  <2> QED
    BY <2>1
<1>6. \A i, j \in 1..Len(t) : t[i] = t[j] => i = j
  BY <1>1, <1>2
<1>7. q[1] \in {q[i] : i \in 1..Len(q)}
  BY <1>1
<1>8. {q[i] : i \in 1..Len(q)} \ {q[1]} \subseteq {t[i] : i \in 1..Len(t)}
  BY <1>5
<1>9. {t[i] : i \in 1..Len(t)} = {q[i] : i \in 1..Len(q)} \ {Head(q)}
  BY <1>3, <1>4, <1>8
<1> QED
  BY <1>3, <1>6, <1>7, <1>9 DEF t

----------------------------------------------------------------------------
(* Facts about the set of unreaped processes.                              *)

\* Sets of clients are finite, so their cardinalities are natural numbers.
LEMMA ClientSetsFinite ==
    ASSUME NEW S \in SUBSET Clients
    PROVE  IsFiniteSet(S) /\ Cardinality(S) \in Nat
BY FS_Subset, FS_CardinalityType, DaemonAssumption

\* The unreaped processes, as one set comprehension.
LEMMA UnreapedIs ==
    /\ Unreaped = {c \in Clients : proc[c] \in {"live", "zombie"}}
    /\ Unreaped' = {c \in Clients : proc'[c] \in {"live", "zombie"}}
BY DEF Unreaped, Live, Zombies

----------------------------------------------------------------------------
\* The loop starts with no process, no connection and a counter of 0.
LEMMA InitInv == Init => DaemonInv
<1> SUFFICES ASSUME Init PROVE DaemonInv
  OBVIOUS
<1>1. TypeOK
  <2>1. queue \in Seq(Clients)
    BY DEF Init
  <2>2. proc \in [Clients -> ProcStates] /\ active \in Nat
    BY DEF Init, ProcStates
  <2> QED
    BY <2>1, <2>2 DEF Init, TypeOK, PCs
<1>2. Unreaped = {}
  BY UnreapedIs DEF Init
<1>3. CounterExact
  BY <1>2, FS_EmptySet DEF Init, CounterExact
<1>4. ForkBelowLimit
  BY DaemonAssumption DEF Init, ForkBelowLimit
<1>5. AnsweredOnce /\ AdmitFresh
  BY DEF Init, AnsweredOnce, AdmitFresh, Queued
<1> QED
  BY <1>1, <1>3, <1>4, <1>5 DEF DaemonInv

\* A connection joins the queue: it is new, so it has no answer yet.
LEMMA ConnectInv ==
    ASSUME DaemonInv, NEW c \in Clients, Connect(c) PROVE DaemonInv'
<1> USE DEF DaemonInv, Connect
<1>1. TypeOK'
  BY DEF TypeOK
<1>2. CounterExact' /\ ForkBelowLimit'
  BY DEF CounterExact, ForkBelowLimit, Unreaped, Live, Zombies
<1>3. Queued' = Queued \cup {c}
  BY QueuedAppend DEF Queued, TypeOK
<1>4. \A i, j \in 1..Len(queue') : queue'[i] = queue'[j] => i = j
  <2>1. Len(queue') = Len(queue) + 1 /\ Len(queue) \in Nat
    BY DEF TypeOK
  <2>2. \A i \in 1..Len(queue) : queue'[i] = queue[i] /\ queue[i] # c
    BY DEF TypeOK, Queued
  <2>3. queue'[Len(queue) + 1] = c
    BY DEF TypeOK
  <2> QED
    BY <2>1, <2>2, <2>3 DEF AnsweredOnce
<1>5. AnsweredOnce'
  BY <1>3, <1>4 DEF AnsweredOnce
<1>6. AdmitFresh'
  BY <1>3 DEF AdmitFresh
<1> QED
  BY <1>1, <1>2, <1>5, <1>6

\* A process ends: it becomes a zombie and still counts.
LEMMA ChildExitInv ==
    ASSUME DaemonInv, NEW c \in Clients, ChildExit(c) PROVE DaemonInv'
<1> USE DEF DaemonInv, ChildExit
<1>1. TypeOK'
  BY DEF TypeOK, ProcStates
<1>2. Unreaped' = Unreaped
  BY UnreapedIs DEF TypeOK
<1>3. CounterExact' /\ ForkBelowLimit'
  BY <1>2 DEF CounterExact, ForkBelowLimit
<1>4. AnsweredOnce' /\ AdmitFresh'
  BY DEF AnsweredOnce, AdmitFresh, Queued, TypeOK
<1> QED
  BY <1>1, <1>3, <1>4

\* waitpid() takes one zombie away and the counter goes down with it; the
\* guard if(active) never swallows a decrement.
LEMMA ReapOneInv ==
    ASSUME DaemonInv, NEW c \in Clients, ReapOne(c) PROVE DaemonInv'
<1> USE DEF DaemonInv, ReapOne
<1>1. /\ c \in Unreaped
      /\ Unreaped' = Unreaped \ {c}
  BY UnreapedIs DEF TypeOK
<1>2. /\ IsFiniteSet(Unreaped)
      /\ Cardinality(Unreaped) \in Nat
      /\ Cardinality(Unreaped) = active
  BY ClientSetsFinite, UnreapedIs DEF CounterExact, TypeOK
<1>3. Cardinality(Unreaped') = active - 1 /\ Cardinality(Unreaped') \in Nat
  BY <1>1, <1>2, FS_RemoveElement, FS_CardinalityType
<1>4. active > 0 /\ active' = active - 1
  BY <1>3 DEF TypeOK
<1>5. TypeOK'
  BY <1>4 DEF TypeOK, ProcStates
<1>6. CounterExact' /\ ForkBelowLimit'
  BY <1>3, <1>4, DaemonAssumption DEF CounterExact, ForkBelowLimit, TypeOK
<1>7. AnsweredOnce' /\ AdmitFresh'
  BY DEF AnsweredOnce, AdmitFresh, Queued, TypeOK
<1> QED
  BY <1>5, <1>6, <1>7

\* accept() takes the head of the queue, whose answer is still open.
LEMMA AcceptClientInv == ASSUME DaemonInv, AcceptClient PROVE DaemonInv'
<1> USE DEF DaemonInv, AcceptClient
<1>1. TypeOK'
  BY DEF TypeOK, PCs
<1>2. CounterExact' /\ ForkBelowLimit'
  BY DEF CounterExact, ForkBelowLimit, Unreaped, Live, Zombies
<1>3. /\ Queued' = Queued \ {client'}
      /\ client' \in Queued
      /\ \A i, j \in 1..Len(queue') : queue'[i] = queue'[j] => i = j
  <2>1. /\ queue \in Seq(Clients) /\ queue # <<>>
        /\ \A i, j \in 1..Len(queue) : queue[i] = queue[j] => i = j
    BY DEF TypeOK, AnsweredOnce
  <2> HIDE DEF DaemonInv
  <2>2. /\ {Tail(queue)[i] : i \in 1..Len(Tail(queue))}
             = {queue[i] : i \in 1..Len(queue)} \ {Head(queue)}
        /\ Head(queue) \in {queue[i] : i \in 1..Len(queue)}
        /\ \A i, j \in 1..Len(Tail(queue)) :
               Tail(queue)[i] = Tail(queue)[j] => i = j
    BY <2>1, QueuedTail, Zenon
  <2> QED
    BY <2>2, ZenonT(30) DEF Queued
<1>4. AnsweredOnce'
  BY <1>3 DEF AnsweredOnce
<1>5. AdmitFresh'
  BY <1>3 DEF AdmitFresh, AnsweredOnce
<1> QED
  BY <1>1, <1>2, <1>4, <1>5

\* fork() and active++: one more process, below the limit.
LEMMA ForkInv == ASSUME DaemonInv, Fork PROVE DaemonInv'
<1> USE DEF DaemonInv, Fork
<1>1. TypeOK'
  BY DEF TypeOK, PCs, ProcStates
<1>2. client \notin Unreaped /\ Unreaped' = Unreaped \cup {client}
  BY UnreapedIs DEF TypeOK, AdmitFresh
<1>3. /\ IsFiniteSet(Unreaped)
      /\ Cardinality(Unreaped) = active
  BY ClientSetsFinite, UnreapedIs DEF CounterExact, TypeOK
<1>4. Cardinality(Unreaped') = active + 1
  BY <1>2, <1>3, FS_AddElement
<1>5. CounterExact' /\ ForkBelowLimit'
  BY <1>4, DaemonAssumption DEF CounterExact, ForkBelowLimit, TypeOK
<1>6. AnsweredOnce' /\ AdmitFresh'
  BY DEF AnsweredOnce, AdmitFresh, Queued, TypeOK
<1> QED
  BY <1>1, <1>5, <1>6

\* The remaining steps move the listener without touching its processes.
LEMMA OtherStepsInv ==
    ASSUME DaemonInv,
           \/ ReapDone \/ EnterAccept \/ AcceptInterrupted \/ AcceptError
           \/ Refuse \/ ForkFails \/ Count \/ UNCHANGED vars
    PROVE  DaemonInv'
<1> USE DEF DaemonInv, ReapDone, EnterAccept, AcceptInterrupted, AcceptError,
            Refuse, ForkFails, Count, vars
<1>1. TypeOK'
  <2>1. /\ queue' = queue /\ client' = client /\ proc' = proc
        /\ active' \in Nat /\ refused' \in SUBSET Clients
    BY DEF TypeOK
  <2>2. pc' \in PCs
    BY DEF TypeOK, PCs
  <2>3. interrupted' \in BOOLEAN
    BY Zenon DEF TypeOK
  <2> QED
    BY <2>1, <2>2, <2>3 DEF TypeOK
<1>2. Unreaped' = Unreaped /\ Queued' = Queued /\ proc' = proc /\ queue' = queue
  BY DEF Unreaped, Live, Zombies, Queued
<1>3. CounterExact'
  BY <1>2, ClientSetsFinite, UnreapedIs DEF CounterExact, TypeOK
<1>4. ForkBelowLimit'
  BY DaemonAssumption DEF ForkBelowLimit, TypeOK
<1>5. AnsweredOnce'
  BY <1>2 DEF AnsweredOnce, AdmitFresh
<1>6. AdmitFresh'
  BY <1>2 DEF AdmitFresh
<1> QED
  BY <1>1, <1>3, <1>4, <1>5, <1>6

\* The invariant is inductive.
LEMMA NextInv == DaemonInv /\ [Next]_vars => DaemonInv'
BY ConnectInv, ChildExitInv, ReapOneInv, AcceptClientInv, ForkInv,
   OtherStepsInv DEF Next, Listener

\* The inductive invariant holds in every reachable state of the listener.
THEOREM DaemonInvariant == Spec => []DaemonInv
BY InitInv, NextInv, PTL DEF Spec

----------------------------------------------------------------------------
\* Type correctness of the listener.
THEOREM DaemonTypeOK == Spec => []TypeOK
<1>1. DaemonInv => TypeOK
  BY DEF DaemonInv
<1> QED
  BY <1>1, DaemonInvariant, PTL

\* The counter of noxsshd_listen_posix() is exact: it equals the number of
\* forked and not yet reaped processes wherever the loop can be.
THEOREM DaemonCounterExact == Spec => []CounterExact
<1>1. DaemonInv => CounterExact
  BY DEF DaemonInv
<1> QED
  BY <1>1, DaemonInvariant, PTL

\* Never more than MaxSessions connection processes run, however exits,
\* signals, accept errors and fork failures interleave.
THEOREM DaemonSessionLimit == Spec => []SessionLimit
<1>1. DaemonInv => SessionLimit
  <2> SUFFICES ASSUME DaemonInv PROVE SessionLimit
    OBVIOUS
  <2>1. Live \in SUBSET Unreaped /\ Unreaped \in SUBSET Clients
    BY DEF Unreaped, Live, Zombies
  <2>2. /\ Cardinality(Live) <= Cardinality(Unreaped)
        /\ Cardinality(Live) \in Nat
        /\ Cardinality(Unreaped) \in Nat
    BY <2>1, ClientSetsFinite, FS_Subset
  <2>3. Cardinality(Unreaped) <= MaxSessions
    BY DEF DaemonInv, CounterExact, ForkBelowLimit
  <2> QED
    BY <2>2, <2>3, DaemonAssumption DEF SessionLimit
<1> QED
  BY <1>1, DaemonInvariant, PTL

\* No connection is answered twice.
THEOREM DaemonAnsweredOnce == Spec => []AnsweredOnce
<1>1. DaemonInv => AnsweredOnce
  BY DEF DaemonInv
<1> QED
  BY <1>1, DaemonInvariant, PTL

----------------------------------------------------------------------------
(* Refinement of SessionPool.                                              *)

\* The listener starts with an empty pool.
LEMMA InitRefines == Init => Pool!PoolInit
BY DEF Init, Pool!PoolInit, Live

\* Sessions below the limit leave room for one more.
LEMMA RoomForOne == ASSUME DaemonInv, Fork PROVE Cardinality(Live) < MaxSessions
<1>1. Live \in SUBSET Unreaped /\ Unreaped \in SUBSET Clients
  BY DEF Unreaped, Live, Zombies
<1>2. Cardinality(Live) <= Cardinality(Unreaped) /\ Cardinality(Live) \in Nat
  BY <1>1, ClientSetsFinite, FS_Subset
<1>3. Cardinality(Unreaped) = active /\ active < MaxSessions /\ active \in Nat
  BY DEF DaemonInv, CounterExact, Fork, TypeOK
<1> QED
  BY <1>2, <1>3, DaemonAssumption

\* Every step of the listener is a step of the pool or invisible in it.
LEMMA StepRefines ==
    DaemonInv /\ [Next]_vars => [Pool!PoolNext]_(Pool!poolVars)
<1> SUFFICES ASSUME DaemonInv, [Next]_vars
             PROVE  [Pool!PoolNext]_(Pool!poolVars)
  OBVIOUS
<1> USE DEF DaemonInv
<1>1. ASSUME NEW c \in Clients, ChildExit(c) PROVE Pool!Finish(c)
  BY <1>1 DEF ChildExit, Pool!Finish, Live, TypeOK
<1>2. ASSUME Fork PROVE Pool!Admit(client)
  <2>1. Cardinality(Live) < MaxSessions
    BY <1>2, RoomForOne
  <2>2. client \notin Pool!Answered /\ client \in Clients
    BY <1>2 DEF Fork, Pool!Answered, AdmitFresh, Live, TypeOK
  <2>3. Live' = Live \cup {client} /\ refused' = refused
    BY <1>2 DEF Fork, Live, AdmitFresh, TypeOK
  <2>4. {c \in Clients : proc'[c] \in {"zombie", "gone"}}
          = {c \in Clients : proc[c] \in {"zombie", "gone"}}
    BY <1>2 DEF Fork, AdmitFresh, TypeOK
  <2>5. Pool!Cardinality(Live) = Cardinality(Live)
    BY DEF Pool!Cardinality, Cardinality
  <2> HIDE DEF DaemonInv
  <2> QED
    BY <2>1, <2>2, <2>3, <2>4, <2>5 DEF Pool!Admit
<1>3. ASSUME Refuse \/ ForkFails PROVE Pool!TurnAway(client)
  BY <1>3 DEF Refuse, ForkFails, Pool!TurnAway, Pool!Answered, AdmitFresh,
              Live, TypeOK
<1>4. ASSUME NEW c \in Clients, ReapOne(c) PROVE UNCHANGED Pool!poolVars
  BY <1>4 DEF ReapOne, Pool!poolVars, Live, TypeOK
<1>5. ASSUME \/ \E c \in Clients : Connect(c)
             \/ ReapDone \/ EnterAccept \/ AcceptClient \/ AcceptInterrupted
             \/ AcceptError \/ Count \/ UNCHANGED vars
      PROVE  UNCHANGED Pool!poolVars
  BY <1>5 DEF Connect, ReapDone, EnterAccept, AcceptClient, AcceptInterrupted,
              AcceptError, Count, vars, Pool!poolVars, Live
<1>6. client \in Clients
  BY DEF TypeOK
<1> QED
  BY <1>1, <1>2, <1>3, <1>4, <1>5, <1>6 DEF Next, Listener, Pool!PoolNext

\* The listener implements SessionPool: each of its steps is a step of the
\* pool or leaves the pool unchanged.
THEOREM DaemonRefinesPool == Spec => PoolRefined
BY InitRefines, StepRefines, DaemonInvariant, PTL
   DEF Spec, PoolRefined, Pool!PoolSpec
=============================================================================
