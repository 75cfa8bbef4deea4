----------------------------- MODULE ExecProofs -----------------------------
(***************************************************************************)
(* `noxssh user@host command' against noxsshd, for every window, chunk     *)
(* size, amount of output and order of events: the two halves agree on     *)
(* every packet of the login (ClientAcceptable), and a client that got the *)
(* exit status has printed the whole output (OutputIntact).                *)
(***************************************************************************)
EXTENDS ExecSystem, ConnectionProofs, SequenceTheorems

P(t) == Cli!Packet(t)

----------------------------------------------------------------------------
(* The conversation.  At each place of the client its last request is on   *)
(* its way to a server that will accept it, or the answer is on its way    *)
(* back.                                                                   *)

\* The stages of the server in its main loop, and behind the fork().
Login == pc = "serve" /\ child = "none" /\ opened = 0 /\ close_deadline = UNSET
Fresh == Login /\ ~authenticated
Ready == Fresh /\ userauth_service_ready
Known == Login /\ authenticated /\ connection_service_ready
Opened == pc = "serve" /\ child = "none" /\ channel_open
Running == child # "none"

Asked(ms, stage) == c2s = ms /\ s2c = <<>> /\ stage
Told(ms, stage) == c2s = <<>> /\ s2c = ms /\ stage

\* The packets of a session, in the order of sending a matter of Account below.
Stream(q) ==
    \A k \in DOMAIN q : \/ q[k] \in {P("EOF"), P("CLOSE"), [t |-> "STATUS", n |-> ExitCode]}
                        \/ q[k].t = "DATA" /\ q[k].n \in 1..CHUNK
Ignores(q) == \A k \in DOMAIN q : q[k] = P("IGNORE")

\* The answer to the START and what the command wrote behind it.
Begun(q) == q # <<>> /\ Head(q) = P("CHANNEL_SUCCESS") /\ Stream(Tail(q))

OPEN == [t |-> "OPEN", n |-> OPENWINDOW]

\* The client's NEWKEYS need not be read before it goes on.
KeysSent == \/ c2s = <<P("NEWKEYS")>> /\ pc = "newkeys"
            \/ c2s = <<>> /\ Fresh

Lockstep ==
    \/ cpc = "connect" /\ Told(<<>>, pc = "ident")
    \/ cpc = "ident" /\ \/ Asked(<<P("IDENT")>>, pc = "ident")
                        \/ Told(<<P("IDENT")>>, pc = "kexinit")
    \/ cpc = "kexinit" /\ \/ Asked(<<P("KEXINIT")>>, pc = "kexinit")
                          \/ Told(<<P("KEXINIT")>>, pc = "ecdh")
    \/ cpc = "ecdh" /\ \/ Asked(<<P("ECDH_INIT")>>, pc = "ecdh")
                       \/ Told(<<P("ECDH_REPLY"), P("NEWKEYS")>>, pc = "newkeys")
    \/ cpc = "newkeys" /\ s2c = <<P("NEWKEYS")>> /\ KeysSent
    \/ cpc \in {"verify", "creds"} /\ s2c = <<>> /\ KeysSent
    \/ cpc = "prompt" /\ s2c = <<>> /\ IF c_userauth THEN c2s = <<>> /\ Ready ELSE KeysSent
    \/ cpc = "svc_userauth" /\ \/ Asked(<<P("NEWKEYS"), P("SERVICE_USERAUTH")>>, pc = "newkeys")
                               \/ Asked(<<P("SERVICE_USERAUTH")>>, Fresh)
                               \/ Told(<<P("SERVICE_ACCEPT")>>, Ready)
    \/ cpc \in {"auth_key", "auth_password"} /\
         \/ Asked(<<P("USERAUTH_REQUEST")>>, Ready /\ auth_attempts < requests)
         \/ Told(<<P("USERAUTH_FAILURE")>>, Ready)
         \/ Told(<<P("USERAUTH_SUCCESS")>>, Known)
    \/ cpc = "svc_conn" /\ \/ Asked(<<P("SERVICE_CONNECTION")>>, Known)
                           \/ Told(<<P("SERVICE_ACCEPT")>>, Known)
    \/ cpc = "open" /\ \/ Asked(<<OPEN>>, Known)
                       \/ Told(<<P("OPEN_CONFIRMATION")>>, Opened)
    \/ cpc = "request" /\ \/ Asked(<<P("START")>>, Opened)
                          \/ c2s = <<>> /\ Begun(s2c) /\ Running
    \/ cpc \in {"wait", "recv"} /\ Ignores(c2s) /\ Stream(s2c) /\ Running

\* What the client may still read, when the server may have returned.
Inbox ==
    \/ cpc \in {"connect", "verify", "creds", "prompt"} /\ s2c = <<>>
    \/ cpc = "ident" /\ s2c \in {<<>>, <<P("IDENT")>>}
    \/ cpc = "kexinit" /\ s2c \in {<<>>, <<P("KEXINIT")>>}
    \/ cpc = "ecdh" /\ s2c \in {<<>>, <<P("ECDH_REPLY"), P("NEWKEYS")>>}
    \/ cpc = "newkeys" /\ s2c = <<P("NEWKEYS")>>
    \/ cpc \in {"svc_userauth", "svc_conn"} /\ s2c \in {<<>>, <<P("SERVICE_ACCEPT")>>}
    \/ cpc \in {"auth_key", "auth_password"} /\
         s2c \in {<<>>, <<P("USERAUTH_FAILURE")>>, <<P("USERAUTH_SUCCESS")>>}
    \/ cpc = "open" /\ s2c \in {<<>>, <<P("OPEN_CONFIRMATION")>>}
    \/ cpc = "request" /\ (s2c = <<>> \/ Begun(s2c))
    \/ cpc \in {"wait", "recv"} /\ Stream(s2c)

\* What the server may still read, when the client may have exited.
Acceptable ==
    \/ c2s = <<>>
    \/ c2s = <<P("IDENT")>> /\ pc = "ident"
    \/ c2s = <<P("KEXINIT")>> /\ pc = "kexinit"
    \/ c2s = <<P("ECDH_INIT")>> /\ pc = "ecdh"
    \/ c2s \in {<<P("NEWKEYS")>>, <<P("NEWKEYS"), P("SERVICE_USERAUTH")>>} /\ pc = "newkeys"
    \/ c2s = <<P("SERVICE_USERAUTH")>> /\ Fresh
    \/ c2s = <<P("USERAUTH_REQUEST")>> /\ Ready /\ auth_attempts < requests
    \/ c2s \in {<<P("SERVICE_CONNECTION")>>, <<OPEN>>} /\ Known
    \/ c2s = <<P("START")>> /\ Opened
    \/ Ignores(c2s) /\ Running

Talk ==
    /\ cpc # "done" /\ pc # "done" => Lockstep
    /\ cpc # "done" => Inbox
    /\ pc # "done" => Acceptable

----------------------------------------------------------------------------
(* The client by itself.                                                   *)

Places == {"connect", "ident", "kexinit", "ecdh", "newkeys", "verify", "creds", "prompt",
           "svc_userauth", "auth_key", "auth_password", "svc_conn", "open", "request",
           "wait", "recv", "done"}

\* The first key exchange is the only one.
ClientPlace ==
    /\ cpc \in Places /\ opts.command = TRUE
    /\ stack = IF cpc \in {"kexinit", "ecdh", "newkeys"}
               THEN <<[at |-> "verify", seen |-> 0]>> ELSE <<>>

\* At most three requests for authentication: the key, the key again with the
\* password that was prompted for, and the password.
Tries ==
    /\ requests \in 0..3 /\ auth_attempts \in 0..requests
    /\ password \in {"unset", "empty", "given"}
    /\ cpc \in {"connect", "ident", "kexinit", "ecdh", "newkeys", "verify", "creds",
                "svc_userauth"} => ~c_userauth
    /\ c_userauth \in BOOLEAN /\ (~c_userauth => requests = 0)
    /\ cpc = "prompt" => password = "unset" /\ requests <= 1
    /\ cpc = "auth_key" => requests <= 2 /\ (password = "unset" => requests <= 1)
    /\ cpc = "auth_password" => password = "given"
    /\ cpc \in {"auth_key", "auth_password"} => c_userauth

----------------------------------------------------------------------------
(* The bytes of the command.                                               *)

Bytes(m) == IF m.t = "DATA" THEN m.n ELSE 0

\* f leads from the a bytes that were printed to the b bytes that were sent, and
\* has arrived there with the exit status.
Account(q, a, b) ==
    \E f \in [0..Len(q) -> Nat] :
        /\ f[0] = a /\ f[Len(q)] = b
        /\ \A k \in 1..Len(q) :
             /\ f[k] = f[k - 1] + Bytes(q[k])
             /\ q[k].t = "STATUS" => \A j \in k..Len(q) : f[j] = b

Counted ==
    /\ printed \in Nat /\ chunk <= CHUNK
    /\ cpc # "done" =>
         /\ Account(s2c, printed, delivered)
         /\ \A k \in DOMAIN s2c : s2c[k].t = "STATUS" => status_sent

\* A status that came is the command's, behind all of its output.
StatusLast ==
    status # NOSTATUS =>
        /\ status = ExitCode /\ status_sent /\ printed = delivered
        /\ cpc \in {"wait", "recv", "done"}
        /\ cpc # "done" => \A k \in DOMAIN s2c : Bytes(s2c[k]) = 0
        /\ cpc = "done" /\ exit_code \notin Cli!Signals => exit_code = ExitCode % BYTE

Types == {"IDENT", "KEXINIT", "ECDH_INIT", "ECDH_REPLY", "NEWKEYS", "SERVICE_USERAUTH",
          "SERVICE_ACCEPT", "USERAUTH_REQUEST", "USERAUTH_SUCCESS", "USERAUTH_FAILURE",
          "SERVICE_CONNECTION", "OPEN", "OPEN_CONFIRMATION", "START", "CHANNEL_SUCCESS",
          "IGNORE", "DATA", "STATUS", "EOF", "CLOSE"}
Answers == [t : Types, n : Nat]

QueuesTyped == c2s \in Seq(Answers) /\ s2c \in Seq(Answers)

\* The inductive invariant.
ExecInv == IndInv /\ QueuesTyped /\ Talk /\ ClientPlace /\ Tries /\ Counted /\ StatusLast

USE ExecAssumption, SessionAssumption, ConnectionAssumption
USE DEF authVars, hsVars, sessionVars, childVars, loopVars, windowVars,
        wireVars, endVars, envVars, stillVars, HandshakePCs, LoopPCs,
        TeardownPCs, UNSET

----------------------------------------------------------------------------
(* Packets and queues.                                                     *)

\* The fields of a packet without data.
LEMMA PacketFields ==
    /\ \A t : P(t).t = t /\ P(t).n = 0
    /\ \A t \in Types : P(t) \in Answers
BY DEF P, Cli!Packet, Answers

\* The client's CHANNEL_OPEN carries a window the server may be sent.
LEMMA OpenFields == OPEN \in Answers /\ OPEN.t = "OPEN" /\ OPEN.n \in Windows
<1>1. OPENWINDOW \in Nat
  OBVIOUS
<1>2. OPEN.t = "OPEN" /\ OPEN.n = OPENWINDOW
  BY DEF OPEN
<1>3. ASSUME NEW w \in Nat PROVE [t |-> "OPEN", n |-> w] \in Answers
  BY DEF Answers, Types
<1>4. OPEN \in Answers
  BY <1>1, <1>3 DEF OPEN
<1> QED
  BY <1>2, <1>4

\* Queues of no more than two packets, put together and taken apart.
LEMMA Joined ==
    /\ \A q \in Seq(Answers) : q \o <<>> = q /\ <<>> \o q = q
    /\ \A a, b \in Answers : <<a>> \o <<b>> = <<a, b>>
    /\ \A a, b : Tail(<<a>>) = <<>> /\ Tail(<<a, b>>) = <<b>>
    /\ \A a, b : Head(<<a>>) = a /\ Head(<<a, b>>) = a /\ <<a>> # <<>> /\ <<a, b>> # <<>>
<1>1. \A q \in Seq(Answers) : q \o <<>> = q /\ <<>> \o q = q
  OBVIOUS
<1>2. ASSUME NEW a \in Answers, NEW b \in Answers PROVE <<a>> \o <<b>> = <<a, b>>
  <2>1. <<a>> \in Seq(Answers) /\ <<b>> \in Seq(Answers) /\ <<a, b>> \in Seq(Answers)
    OBVIOUS
  <2>2. Len(<<a>>) = 1 /\ Len(<<b>>) = 1 /\ Len(<<a, b>>) = 2
    OBVIOUS
  <2>3. <<a>> \o <<b>> \in Seq(Answers) /\ Len(<<a>> \o <<b>>) = 2
    BY <2>1, <2>2, ConcatProperties
  <2>4. (<<a>> \o <<b>>)[1] = a /\ (<<a>> \o <<b>>)[2] = b
    BY <2>1, <2>2, ConcatProperties
  <2>5. <<a, b>>[1] = a /\ <<a, b>>[2] = b
    OBVIOUS
  <2> DEFINE c == <<a>> \o <<b>>
             d == <<a, b>>
  <2>6. c \in Seq(Answers) /\ d \in Seq(Answers) /\ Len(c) = 2 /\ Len(d) = 2
        /\ c[1] = d[1] /\ c[2] = d[2]
    BY <2>1, <2>2, <2>3, <2>4, <2>5
  <2> HIDE DEF c, d
  <2>7. c = d
    BY <2>6, SeqEqual
  <2> QED
    BY <2>7 DEF c, d
<1>3. \A a, b : Tail(<<a>>) = <<>> /\ Tail(<<a, b>>) = <<b>>
  OBVIOUS
<1>4. \A a, b : Head(<<a>>) = a /\ Head(<<a, b>>) = a /\ <<a>> # <<>> /\ <<a, b>> # <<>>
  OBVIOUS
<1> QED
  BY <1>1, <1>2, <1>3, <1>4

\* A packet of a type that c2s never holds behind others is the only one.
LEMMA OpenAlone ==
    ASSUME Acceptable, c2s # <<>>, Head(c2s).t = "OPEN", c2s \in Seq(Answers)
    PROVE  c2s = <<OPEN>>
<1>1. ~Ignores(c2s)
  <2> SUFFICES ASSUME Ignores(c2s) PROVE FALSE
    OBVIOUS
  <2>1. Head(c2s) = P("IGNORE")
    BY DEF Ignores
  <2> QED
    BY <2>1, PacketFields
<1> QED
  BY <1>1, PacketFields, Joined DEF Acceptable

----------------------------------------------------------------------------
(* The server of the composition is a Connection.                          *)

\* Every step of the system is a step of the server, or none, for module
\* Connection.
LEMMA ServerIsConnection ==
    ASSUME ExecInv, [SysNext]_sysVars
    PROVE  [Next]_vars
<1>1. CASE ClientStep \/ ClientUser \/ ClientSlice
  <2>1. ClientSends
    BY <1>1 DEF ClientStep, ClientUser, ClientSlice, ClientReceives, ClientMoves, ClientBroken
  <2>2. link \in {"up", "down"}
    BY DEF ExecInv, IndInv, TypeOK
  <2>3. CASE link = "up" /\ cpc' = "done"
    BY <2>1, <2>3 DEF ClientSends, PeerGone, Next
  <2>4. CASE ~(link = "up" /\ cpc' = "done")
    BY <2>1, <2>2, <2>4 DEF ClientSends, vars
  <2> QED
    BY <2>3, <2>4
<1>2. CASE ServerStep
  <2>1. CASE ServerHandshake
    BY <2>1 DEF ServerHandshake, Next, Handshake
  <2>2. CASE ServerServes
    <3>1. CASE Hears("OPEN") /\ ServeChannelOpen(Head(c2s).n)
      <4>1. pc # "done"
        BY <3>1 DEF ServeChannelOpen, Serving
      <4>2. Head(c2s).n \in Windows
        BY <3>1, <4>1, OpenAlone, OpenFields, Joined DEF ExecInv, Talk, Hears, QueuesTyped
      <4> QED
        BY <3>1, <4>2 DEF ServePacket, Next
    <3>2. CASE \E ok \in BOOLEAN : ServeUserauth(ok)
      BY <3>2 DEF ServePacket, Next
    <3>3. CASE \/ ServeUserauthService \/ ServeConnectionService \/ ServeExec \/ ServeExecFails
               \/ UNCHANGED vars
      BY <3>3 DEF ServePacket, Next
    <3> QED
      BY <2>2, <3>1, <3>2, <3>3 DEF ServerServes
  <2>3. CASE ServerStops
    BY <2>3 DEF ServerStops, Next, Handshake
  <2>4. CASE ServerReceives
    BY <2>4 DEF ServerReceives, Next, InSession, SessionPacket
  <2>5. CASE ServerRuns
    BY <2>5 DEF ServerRuns, Next, InSession
  <2>6. CASE ServerIdles
    BY <2>6 DEF ServerIdles, Next, InSession
  <2> QED
    BY <1>2, <2>1, <2>2, <2>3, <2>4, <2>5, <2>6 DEF ServerStep
<1>3. CASE Drains
  BY <1>3 DEF Drains, Next
<1>4. CASE CommandRuns
  BY <1>4 DEF CommandRuns, Next, InSession
<1>5. CASE UNCHANGED sysVars
  BY <1>5 DEF sysVars
<1> QED
  BY <1>1, <1>2, <1>3, <1>4, <1>5 DEF SysNext

----------------------------------------------------------------------------
(* The account of the bytes.                                               *)

\* A packet carries a number of bytes.
LEMMA BytesTyped == \A m \in Answers : Bytes(m) \in Nat
BY DEF Bytes, Answers

\* The first packet is read.
LEMMA AccountTake ==
    ASSUME NEW q \in Seq(Answers), q # <<>>, NEW a \in Nat, NEW b \in Nat, Account(q, a, b)
    PROVE  /\ Account(Tail(q), a + Bytes(Head(q)), b)
           /\ Head(q).t = "STATUS" =>
                a = b /\ \A k \in DOMAIN Tail(q) : Bytes(Tail(q)[k]) = 0
<1> DEFINE n == Len(q)
           r == Tail(q)
<1>1. /\ n \in Nat \ {0} /\ Head(q) = q[1] /\ r \in Seq(Answers) /\ Len(r) = n - 1
      /\ \A k \in 1..(n - 1) : r[k] = q[k + 1]
  OBVIOUS
<1>2. PICK f \in [0..n -> Nat] :
        /\ f[0] = a /\ f[n] = b
        /\ \A k \in 1..n :
             /\ f[k] = f[k - 1] + Bytes(q[k])
             /\ q[k].t = "STATUS" => \A j \in k..n : f[j] = b
  BY DEF Account
<1> HIDE DEF n, r
<1>3. f[1] = a + Bytes(q[1]) /\ (q[1].t = "STATUS" => f[1] = b)
  BY <1>1, <1>2
<1> DEFINE g == [k \in 0..(n - 1) |-> f[k + 1]]
<1>4. g \in [0..Len(r) -> Nat] /\ g[0] = f[1] /\ g[Len(r)] = b
  BY <1>1, <1>2
<1>5. ASSUME NEW k \in 1..Len(r)
      PROVE  /\ g[k] = g[k - 1] + Bytes(r[k])
             /\ r[k].t = "STATUS" => \A j \in k..Len(r) : g[j] = b
  <2>1. k + 1 \in 1..n /\ k \in 0..(n - 1) /\ k - 1 \in 0..(n - 1) /\ r[k] = q[k + 1]
    BY <1>1
  <2>2. g[k] = f[k + 1] /\ g[k - 1] = f[k]
    BY <2>1
  <2>3. f[k + 1] = f[k] + Bytes(r[k])
    BY <1>2, <2>1
  <2>4. ASSUME r[k].t = "STATUS", NEW j \in k..Len(r) PROVE g[j] = b
    <3>1. j + 1 \in (k + 1)..n /\ j \in 0..(n - 1)
      BY <1>1
    <3>2. f[j + 1] = b
      BY <1>2, <2>1, <2>4, <3>1
    <3> QED
      BY <3>1, <3>2
  <2> QED
    BY <2>2, <2>3, <2>4
<1> HIDE DEF g
<1>6. Account(r, f[1], b)
  BY <1>4, <1>5 DEF Account
<1>7. Head(q).t = "STATUS" => a = b
  BY <1>1, <1>3 DEF Bytes
<1>8. ASSUME Head(q).t = "STATUS", NEW k \in DOMAIN r PROVE Bytes(r[k]) = 0
  <2>0. DOMAIN r = 1..(n - 1)
    BY <1>1
  <2>a. k \in 1..(n - 1) /\ n \in Nat
    BY <1>1, <2>0
  <2>b. k \in 1..n /\ k + 1 \in 1..n /\ 1 \in 1..n
    BY <2>a
  <2>1. k \in 1..(n - 1) /\ k \in 1..n /\ k + 1 \in 1..n /\ r[k] = q[k + 1] /\ 1 \in 1..n
    BY <1>1, <2>a, <2>b
  <2>2. f[k] = b /\ f[k + 1] = b
    BY <1>1, <1>2, <1>8, <2>1
  <2>3. q[k + 1] \in Answers
    BY <2>1 DEF n
  <2>4. Bytes(r[k]) \in Nat
    BY <2>1, <2>3, BytesTyped
  <2>5. f[k + 1] = f[k] + Bytes(r[k])
    BY <1>2, <2>1
  <2> QED
    BY <2>2, <2>4, <2>5
<1> QED
  BY <1>1, <1>3, <1>6, <1>7, <1>8 DEF r

\* A packet is sent: data only before the status.
LEMMA AccountPut ==
    ASSUME NEW q \in Seq(Answers), NEW a \in Nat, NEW b \in Nat, Account(q, a, b),
           NEW m \in Answers,
           Bytes(m) = 0 \/ \A k \in DOMAIN q : q[k].t # "STATUS"
    PROVE  Account(Append(q, m), a, b + Bytes(m))
<1> DEFINE n == Len(q)
           r == Append(q, m)
           c == b + Bytes(m)
<1>1. /\ n \in Nat /\ Len(r) = n + 1 /\ r[n + 1] = m /\ DOMAIN q = 1..n
      /\ \A k \in 1..n : r[k] = q[k]
  OBVIOUS
<1>2. PICK f \in [0..n -> Nat] :
        /\ f[0] = a /\ f[n] = b
        /\ \A k \in 1..n :
             /\ f[k] = f[k - 1] + Bytes(q[k])
             /\ q[k].t = "STATUS" => \A j \in k..n : f[j] = b
  BY DEF Account
<1>3. c \in Nat /\ (m.t = "STATUS" => c = b)
  BY BytesTyped DEF Bytes
<1>c. c = b + Bytes(m)
  OBVIOUS
<1> HIDE DEF n, r, c
<1> DEFINE g == [k \in 0..(n + 1) |-> IF k <= n THEN f[k] ELSE c]
<1>4. g \in [0..Len(r) -> Nat] /\ g[0] = a /\ g[Len(r)] = c
  BY <1>1, <1>2, <1>3
<1>5. ASSUME NEW k \in 1..Len(r)
      PROVE  /\ g[k] = g[k - 1] + Bytes(r[k])
             /\ r[k].t = "STATUS" => \A j \in k..Len(r) : g[j] = c
  <2>1. CASE k = n + 1
    <3>1. g[k] = c /\ g[k - 1] = f[n] /\ r[k] = m
      BY <1>1, <2>1
    <3>2. \A j \in k..Len(r) : j = k
      BY <1>1, <2>1
    <3> QED
      BY <1>2, <1>c, <3>1, <3>2
  <2>2. CASE k \in 1..n
    <3>1. g[k] = f[k] /\ g[k - 1] = f[k - 1] /\ r[k] = q[k]
      BY <1>1, <2>2
    <3>2. ASSUME r[k].t = "STATUS", NEW j \in k..Len(r) PROVE g[j] = c
      <4>1. c = b
        <5>1. k \in DOMAIN q /\ q[k].t = "STATUS"
          BY <1>1, <2>2, <3>1, <3>2, Zenon
        <5>2. Bytes(m) = 0
          BY <5>1, Zenon
        <5> QED
          BY <1>c, <5>2
      <4>2. CASE j = n + 1
        BY <1>1, <4>2
      <4>3. CASE j \in k..n
        BY <1>1, <1>2, <2>2, <3>1, <3>2, <4>1, <4>3
      <4> QED
        BY <1>1, <4>2, <4>3
    <3> QED
      BY <1>2, <2>2, <3>1, <3>2
  <2>3. k = n + 1 \/ k \in 1..n
    BY <1>1
  <2> QED
    BY <2>1, <2>2, <2>3
<1> HIDE DEF g
<1> QED
  BY <1>4, <1>5 DEF Account, r, c

----------------------------------------------------------------------------
(* What a step of the client comes to in the composition.                  *)

Kept == UNCHANGED <<opts, status, printed, requests, password, c_userauth>>

\* The client exits, with the status if it has one.
Ends ==
    /\ cpc' = "done" /\ stack' = <<>> /\ Kept
    /\ status # NOSTATUS /\ exit_code' \notin Cli!Signals => exit_code' = status % BYTE

Hop(from, to, ms) == cpc = from /\ cpc' = to /\ sent' = ms

\* A status is known in the session only.
Unreported == status # NOSTATUS => cpc \in {"wait", "recv", "done"}

\* The ways the client exits; before the session it has no status to lose.
LEMMA ExitEnds ==
    ASSUME ClientPlace, Unreported, cpc # "done"
    PROVE  /\ Cli!Exit(1) /\ cpc \notin {"wait", "recv"} => Ends /\ sent' = <<>>
           /\ Cli!Exit(0) /\ cpc \notin {"wait", "recv"} => Ends /\ sent' = <<>>
           /\ Cli!Exit(Cli!SIGPIPE) => Ends /\ sent' = <<>>
           /\ Cli!Exit(Cli!SIGSEGV) => Ends /\ sent' = <<>>
           /\ Cli!Exit(Cli!ExitStatus) => Ends /\ sent' = <<>>
           /\ Cli!Fail => Ends /\ sent' = <<>>
<1> USE DEF Cli!tcpVars, Cli!loginVars, Cli!channelVars, Cli!aliveVars
<1>1. ASSUME NEW c, Cli!Exit(c)
      PROVE  cpc' = "done" /\ stack' = <<>> /\ Kept /\ exit_code' = c /\ sent' = <<>>
  BY <1>1 DEF Cli!Exit, Kept
<1>2. Cli!SIGPIPE \in Cli!Signals /\ Cli!SIGSEGV \in Cli!Signals
  BY DEF Cli!Signals
<1>3. status # NOSTATUS => Cli!ExitStatus = status % BYTE
  BY DEF Cli!ExitStatus
<1>4. cpc \notin {"wait", "recv"} => status = NOSTATUS
  BY DEF Unreported
<1>5. Cli!Exit(1) /\ cpc \notin {"wait", "recv"} => Ends /\ sent' = <<>>
  BY <1>1, <1>4 DEF Ends
<1>6. Cli!Exit(0) /\ cpc \notin {"wait", "recv"} => Ends /\ sent' = <<>>
  BY <1>1, <1>4 DEF Ends
<1>7. Cli!Exit(Cli!SIGPIPE) => Ends /\ sent' = <<>>
  BY <1>1, <1>2 DEF Ends
<1>8. Cli!Exit(Cli!SIGSEGV) => Ends /\ sent' = <<>>
  BY <1>1, <1>2 DEF Ends
<1>9. Cli!Exit(Cli!ExitStatus) => Ends /\ sent' = <<>>
  BY <1>1, <1>3 DEF Ends
<1>10. Cli!Base = IF cpc \in {"kexinit", "ecdh", "newkeys"} THEN "verify" ELSE cpc
  BY DEF Cli!Base, ClientPlace
<1>11. Cli!Fail => Ends /\ sent' = <<>>
  BY <1>5, <1>9, <1>10 DEF Cli!Fail, ClientPlace
<1> QED
  BY <1>5, <1>6, <1>7, <1>8, <1>9, <1>11

\* The places of the client and the packets that take it from one to the next.
ReadHop ==
    \/ Hop("ident", "kexinit", <<P("KEXINIT")>>) /\ s2c = <<P("IDENT")>> /\ Kept
    \/ Hop("kexinit", "ecdh", <<P("ECDH_INIT")>>) /\ s2c = <<P("KEXINIT")>> /\ Kept
    \/ Hop("ecdh", "newkeys", <<P("NEWKEYS")>>) /\ s2c = <<P("ECDH_REPLY"), P("NEWKEYS")>> /\ Kept
    \/ Hop("newkeys", "verify", <<>>) /\ s2c = <<P("NEWKEYS")>> /\ Kept
    \/ cpc \in {"auth_key", "auth_password"} /\ Hop(cpc, "svc_conn", <<P("SERVICE_CONNECTION")>>)
       /\ s2c = <<P("USERAUTH_SUCCESS")>> /\ Kept
    \/ cpc \in {"auth_key", "auth_password"} /\ Hop(cpc, "prompt", <<>>)
       /\ s2c = <<P("USERAUTH_FAILURE")>> /\ password = "unset" /\ Kept
    \/ Hop("svc_conn", "open", <<OPEN>>) /\ s2c = <<P("SERVICE_ACCEPT")>> /\ Kept
    \/ Hop("open", "request", <<P("START")>>) /\ s2c = <<P("OPEN_CONFIRMATION")>> /\ Kept
    \/ Hop("request", "wait", <<>>) /\ Begun(s2c) /\ Kept

\* The two that ask for authentication.
Asks(to) ==
    /\ cpc' = to /\ sent' = <<P("USERAUTH_REQUEST")>>
    /\ requests' = requests + 1
    /\ UNCHANGED <<opts, status, printed>>

AskHop ==
    /\ s2c = <<P("SERVICE_ACCEPT")>> /\ cpc = "svc_userauth"
    /\ c_userauth' = TRUE /\ password' = password
    /\ \/ Asks("auth_key")
       \/ Asks("auth_password") /\ password = "given"

AskAgain ==
    /\ s2c = <<P("USERAUTH_FAILURE")>> /\ cpc = "auth_key" /\ password = "given"
    /\ Asks("auth_password") /\ UNCHANGED <<c_userauth, password>>

\* Data is printed, or the status noted.
DataHop ==
    /\ Hop("recv", "wait", <<>>) /\ Head(s2c).t = "DATA"
    /\ printed' = printed + Bytes(Head(s2c))
    /\ UNCHANGED <<opts, status, requests, password, c_userauth>>

StatusHop ==
    /\ Hop("recv", "recv", <<>>) /\ Head(s2c).t = "STATUS"
    /\ status' = Head(s2c).n
    /\ UNCHANGED <<opts, printed, requests, password, c_userauth>>

\* Which actions of the client can read a packet at each of its places.
LEMMA ReadersByPlace ==
    ASSUME NEW m, Cli!Receive(m), ClientPlace
    PROVE  /\ cpc = "ident" => Cli!LongLine(m) \/ Cli!BannerLine(m) \/ Cli!IdentLine(m)
           /\ cpc = "kexinit" => Cli!Kexinit(m)
           /\ cpc = "ecdh" => Cli!ServerKexinit(m) \/ Cli!EcdhReply(m) \/ Cli!Discard(m)
           /\ cpc = "newkeys" => Cli!ServerKexinit(m) \/ Cli!NewKeys(m) \/ Cli!Discard(m)
           /\ cpc = "svc_userauth" => Cli!ServerKexinit(m) \/ Cli!UserauthService(m) \/ Cli!Discard(m)
           /\ cpc \in {"auth_key", "auth_password"} =>
                Cli!ServerKexinit(m) \/ Cli!Accepted(m) \/ Cli!Rejected(m) \/ Cli!Discard(m)
           /\ cpc = "svc_conn" => Cli!ServerKexinit(m) \/ Cli!ConnectionService(m) \/ Cli!Discard(m)
           /\ cpc = "open" =>
                Cli!ServerKexinit(m) \/ Cli!OpenConfirmed(m) \/ Cli!Refused(m) \/ Cli!Discard(m)
           /\ cpc = "request" =>
                Cli!ServerKexinit(m) \/ Cli!Started(m) \/ Cli!Refused(m) \/ Cli!Discard(m)
           /\ cpc = "recv" => \/ Cli!ServerKexinit(m) \/ Cli!ReceiveData(m) \/ Cli!ReceiveStatus(m)
                              \/ Cli!ReceiveEof(m) \/ Cli!ReceiveClose(m) \/ Cli!ReceiveOther(m)
           /\ cpc \notin {"connect", "verify", "creds", "prompt", "wait", "done"}
BY DEF Cli!Receive, ClientPlace, Places, Cli!LongLine, Cli!BannerLine, Cli!IdentLine, Cli!Kexinit,
       Cli!ServerKexinit, Cli!EcdhReply, Cli!NewKeys, Cli!Discard, Cli!UserauthService,
       Cli!Accepted, Cli!Rejected, Cli!ConnectionService, Cli!OpenConfirmed, Cli!PtyGranted,
       Cli!Started, Cli!Refused, Cli!ReceiveData, Cli!ReceiveStatus, Cli!ReceiveEof,
       Cli!ReceiveClose, Cli!ReceiveOther, Cli!Waits, Cli!KexWaits, Cli!LoginWaits

\* What reading the first packet under way does to the client.
LEMMA ClientReads ==
    ASSUME ClientPlace, Tries, Unreported, Inbox, QueuesTyped, cpc # "done", s2c # <<>>,
           Cli!Receive(Head(s2c))
    PROVE  /\ ClientPlace'
           /\ \/ Ends /\ sent' = <<>>
              \/ ReadHop \/ AskHop \/ AskAgain \/ DataHop \/ StatusHop
<1> DEFINE m == Head(s2c)
<1> USE DEF Cli!tcpVars, Cli!kexVars, Cli!loginVars, Cli!channelVars, Cli!aliveVars, Cli!Proceed
<1>0. Cli!Receive(m)
  OBVIOUS
<1>a. Ends => ClientPlace'
  BY DEF Ends, Kept, ClientPlace, Places
<1>1. CASE cpc = "ident"
  <2>1. s2c = <<P("IDENT")>> /\ m.t = "IDENT"
    BY <1>1, PacketFields, Joined DEF Inbox
  <2>2. Cli!IdentLine(m)
    BY <1>0, <1>1, <2>1, ReadersByPlace DEF Cli!LongLine, Cli!BannerLine
  <2> QED
    BY <1>1, <2>1, <2>2 DEF Cli!IdentLine, ReadHop, Hop, Kept, ClientPlace, Places, P
<1>2. CASE cpc = "kexinit"
  <2>1. s2c = <<P("KEXINIT")>> /\ m.t = "KEXINIT"
    BY <1>2, PacketFields, Joined DEF Inbox
  <2>2. Cli!Kexinit(m)
    BY <1>0, <1>2, <2>1, ReadersByPlace
  <2> QED
    BY <1>2, <2>1, <2>2 DEF Cli!Kexinit, ReadHop, Hop, Kept, ClientPlace, Places, P
<1>3. CASE cpc = "ecdh"
  <2>1. s2c = <<P("ECDH_REPLY"), P("NEWKEYS")>> /\ m.t = "ECDH_REPLY"
    BY <1>3, PacketFields, Joined DEF Inbox
  <2>2. Cli!EcdhReply(m)
    BY <1>0, <1>3, <2>1, ReadersByPlace DEF Cli!ServerKexinit, Cli!Discard, Cli!Expected
  <2> QED
    BY <1>3, <2>1, <2>2 DEF Cli!EcdhReply, ReadHop, Hop, Kept, ClientPlace, Places, P
<1>4. CASE cpc = "newkeys"
  <2>1. s2c = <<P("NEWKEYS")>> /\ m.t = "NEWKEYS"
    BY <1>4, PacketFields, Joined DEF Inbox
  <2>2. Cli!NewKeys(m)
    BY <1>0, <1>4, <2>1, ReadersByPlace DEF Cli!ServerKexinit, Cli!Discard, Cli!Expected
  <2>3. stack = <<[at |-> "verify", seen |-> 0]>> /\ stack[1].at = "verify" /\ Tail(stack) = <<>>
    BY <1>4 DEF ClientPlace
  <2> QED
    BY <1>4, <2>1, <2>2, <2>3 DEF Cli!NewKeys, Cli!ReturnFromKex, Cli!Waits, Cli!KexWaits,
         Cli!LoginWaits, ReadHop, Hop, Kept, ClientPlace, Places
<1>5. CASE cpc = "svc_userauth"
  <2>1. s2c = <<P("SERVICE_ACCEPT")>> /\ m.t = "SERVICE_ACCEPT"
    BY <1>5, PacketFields, Joined DEF Inbox
  <2>2. Cli!FirstMethod(password)
    BY <1>0, <1>5, <2>1, ReadersByPlace DEF Cli!ServerKexinit, Cli!Discard, Cli!Expected,
         Cli!UserauthService
  <2>3. CASE Cli!Exit(1)
    BY <1>5, <1>a, <2>3, ExitEnds
  <2>4. CASE ~Cli!Exit(1)
    BY <1>5, <2>1, <2>2, <2>4 DEF Cli!FirstMethod, AskHop, Asks, ClientPlace, Places, P, Tries
  <2> QED
    BY <2>3, <2>4
<1>6. CASE cpc \in {"auth_key", "auth_password"} /\ s2c = <<P("USERAUTH_SUCCESS")>>
  <2>1. m.t = "USERAUTH_SUCCESS"
    BY <1>6, PacketFields, Joined
  <2>2. Cli!Accepted(m)
    BY <1>0, <1>6, <2>1, ReadersByPlace DEF Cli!ServerKexinit, Cli!Discard, Cli!Expected,
         Cli!Rejected
  <2> QED
    BY <1>6, <2>1, <2>2 DEF Cli!Accepted, ReadHop, Hop, Kept, ClientPlace, Places, P
<1>7. CASE cpc \in {"auth_key", "auth_password"} /\ s2c = <<P("USERAUTH_FAILURE")>>
  <2>1. m.t = "USERAUTH_FAILURE"
    BY <1>7, PacketFields, Joined
  <2>2. Cli!Rejected(m)
    BY <1>0, <1>7, <2>1, ReadersByPlace DEF Cli!ServerKexinit, Cli!Discard, Cli!Expected,
         Cli!Accepted
  <2>3. CASE Cli!Exit(1)
    BY <1>7, <1>a, <2>3, ExitEnds
  <2>4. CASE Cli!AskPassword /\ password = "unset"
    BY <1>7, <2>4 DEF Cli!AskPassword, ReadHop, Hop, Kept, ClientPlace, Places
  <2>5. CASE ~Cli!Exit(1) /\ ~(Cli!AskPassword /\ password = "unset")
    BY <1>7, <2>2, <2>5 DEF Cli!Rejected, AskAgain, Asks, ClientPlace, Places, P
  <2> QED
    BY <2>3, <2>4, <2>5
<1>8. CASE cpc = "svc_conn"
  <2>1. s2c = <<P("SERVICE_ACCEPT")>> /\ m.t = "SERVICE_ACCEPT"
    BY <1>8, PacketFields, Joined DEF Inbox
  <2>2. Cli!ConnectionService(m)
    BY <1>0, <1>8, <2>1, ReadersByPlace DEF Cli!ServerKexinit, Cli!Discard, Cli!Expected
  <2> QED
    BY <1>8, <2>1, <2>2 DEF Cli!ConnectionService, ReadHop, Hop, Kept, ClientPlace, Places, OPEN
<1>9. CASE cpc = "open"
  <2>1. s2c = <<P("OPEN_CONFIRMATION")>> /\ m.t = "OPEN_CONFIRMATION"
    BY <1>9, PacketFields, Joined DEF Inbox
  <2>2. Cli!OpenConfirmed(m)
    BY <1>0, <1>9, <2>1, ReadersByPlace DEF Cli!ServerKexinit, Cli!Discard, Cli!Expected,
         Cli!Refused
  <2> QED
    BY <1>9, <2>1, <2>2 DEF Cli!OpenConfirmed, ReadHop, Hop, Kept, ClientPlace, Places, P
<1>10. CASE cpc = "request"
  <2>1. Begun(s2c) /\ m.t = "CHANNEL_SUCCESS"
    BY <1>10, PacketFields DEF Inbox, Begun
  <2>2. Cli!Started(m)
    BY <1>0, <1>10, <2>1, ReadersByPlace DEF Cli!ServerKexinit, Cli!Discard, Cli!Expected,
         Cli!Refused
  <2> QED
    BY <1>10, <2>1, <2>2 DEF Cli!Started, ReadHop, Hop, Kept, ClientPlace, Places
<1>11. CASE cpc = "recv"
  <2>1. m = s2c[1] /\ 1 \in DOMAIN s2c /\ m \in Answers
    BY DEF QueuesTyped
  <2>2. /\ m.t \in {"EOF", "CLOSE", "STATUS", "DATA"}
        /\ m.t = "DATA" => m.n \in 1..CHUNK
    <3>1. \/ m \in {P("EOF"), P("CLOSE"), [t |-> "STATUS", n |-> ExitCode]}
          \/ m.t = "DATA" /\ m.n \in 1..CHUNK
      BY <1>11, <2>1 DEF Inbox, Stream
    <3> QED
      BY <3>1, PacketFields
  <2>3. CASE m.t = "DATA"
    <3>1. Cli!ReceiveData(m)
      BY <1>0, <1>11, <2>3, ReadersByPlace DEF Cli!ServerKexinit, Cli!ReceiveStatus,
           Cli!ReceiveEof, Cli!ReceiveClose, Cli!ReceiveOther
    <3>2. (IF m.n < BUFLEN THEN m.n ELSE BUFLEN) = m.n /\ m.n # 0 /\ Bytes(m) = m.n
      BY <2>2, <2>3 DEF Bytes
    <3> QED
      BY <1>11, <2>3, <3>1, <3>2 DEF Cli!ReceiveData, DataHop, Hop, ClientPlace, Places
  <2>4. CASE m.t = "STATUS"
    <3>1. Cli!ReceiveStatus(m)
      BY <1>0, <1>11, <2>4, ReadersByPlace DEF Cli!ServerKexinit, Cli!ReceiveData,
           Cli!ReceiveEof, Cli!ReceiveClose, Cli!ReceiveOther
    <3> QED
      BY <1>11, <2>4, <3>1 DEF Cli!ReceiveStatus, Cli!ReadsOn, StatusHop, Hop, ClientPlace, Places
  <2>5. CASE m.t = "EOF"
    <3>1. Cli!ReceiveEof(m)
      BY <1>0, <1>11, <2>5, ReadersByPlace DEF Cli!ServerKexinit, Cli!ReceiveData,
           Cli!ReceiveStatus, Cli!ReceiveClose, Cli!ReceiveOther
    <3>2. Cli!Exit(Cli!ExitStatus)
      BY <3>1 DEF Cli!ReceiveEof, Cli!ChannelEnds, ClientPlace
    <3> QED
      BY <1>11, <1>a, <3>2, ExitEnds
  <2>6. CASE m.t = "CLOSE"
    <3>1. Cli!ReceiveClose(m)
      BY <1>0, <1>11, <2>6, ReadersByPlace DEF Cli!ServerKexinit, Cli!ReceiveData,
           Cli!ReceiveStatus, Cli!ReceiveEof, Cli!ReceiveOther
    <3>2. Ends /\ sent' = <<>>
      BY <1>11, <3>1 DEF Cli!ReceiveClose, Cli!ExitStatus, ClientPlace, Ends, Kept
    <3> QED
      BY <1>a, <3>2
  <2> QED
    BY <2>2, <2>3, <2>4, <2>5, <2>6
<1> QED
  BY <1>0, <1>1, <1>2, <1>3, <1>4, <1>5, <1>6, <1>7, <1>8, <1>9, <1>10, <1>11, ReadersByPlace
     DEF Inbox, ClientPlace, Places

\* The steps of the client that read no packet.
AskPrompted ==
    /\ cpc = "prompt" /\ c_userauth /\ c_userauth' = TRUE
    /\ password' \in {"empty", "given"}
    /\ \/ Asks("auth_key")
       \/ Asks("auth_password") /\ password' = "given"

AskService ==
    /\ cpc \in {"creds", "prompt"} /\ ~c_userauth
    /\ Hop(cpc, "svc_userauth", <<P("SERVICE_USERAUTH")>>)
    /\ password' \in {"unset", "empty", "given"}
    /\ UNCHANGED <<opts, status, printed, requests, c_userauth>>

LocalHop ==
    \/ Hop("connect", "ident", <<P("IDENT")>>) /\ Kept
    \/ Hop("connect", "connect", <<>>) /\ Kept
    \/ Hop("verify", "creds", <<>>) /\ Kept
    \/ Hop("creds", "prompt", <<>>) /\ Kept /\ password = "unset"
    \/ Hop("wait", "recv", <<>>) /\ Kept
    \/ Hop("wait", "wait", <<>>) /\ Kept
    \/ Hop("wait", "wait", <<P("IGNORE")>>) /\ Kept

\* A client that has exited takes no step.
LEMMA NeverAfterDone ==
    ASSUME cpc = "done"
    PROVE  /\ ~Cli!Local /\ ~Cli!Readable /\ ~Cli!User /\ ~Cli!Slice /\ ~Cli!Broken
           /\ ~Cli!WaitBreaks
<1>1. ~Cli!Local /\ ~Cli!Readable
  BY DEF Cli!Local, Cli!Connect, Cli!ConnectFails, Cli!Credentials, Cli!WaitEnds, Cli!Rekey,
       Cli!Readable
<1>2. ~Cli!User
  BY DEF Cli!User, Cli!VerifyHostKey, Cli!Prompt, Cli!InputLine, Cli!InputEnds
<1>3. ~Cli!Slice /\ ~Cli!Broken /\ ~Cli!WaitBreaks
  BY DEF Cli!Slice, Cli!Broken, Cli!WaitBreaks, Cli!Receiving, Cli!Waits, Cli!KexWaits,
       Cli!LoginWaits
<1> QED
  BY <1>1, <1>2, <1>3

\* netnox_ssh_client_authenticate() with a password that was given or typed.
LEMMA Authenticates ==
    ASSUME ClientPlace, Tries, Unreported, NEW pw \in {"unset", "empty", "given"},
           Cli!Authenticate(pw), cpc = "creds" \/ (cpc = "prompt" /\ pw # "unset")
    PROVE  /\ ClientPlace'
           /\ (Ends /\ sent' = <<>>) \/ AskPrompted \/ AskService
<1> USE DEF Cli!tcpVars, Cli!kexVars, Cli!loginVars, Cli!channelVars, Cli!aliveVars, Cli!Proceed
<1>1. CASE c_userauth
  <2>1. Cli!FirstMethod(pw) /\ cpc = "prompt" /\ pw # "unset"
    BY <1>1 DEF Cli!Authenticate, Tries
  <2>2. CASE Cli!Exit(1)
    BY <2>1, <2>2, ExitEnds DEF Ends, Kept, ClientPlace, Places
  <2>3. CASE ~Cli!Exit(1)
    BY <1>1, <2>1, <2>3 DEF Cli!FirstMethod, AskPrompted, Asks, ClientPlace, Places, P
  <2> QED
    BY <2>2, <2>3
<1>2. CASE ~c_userauth
  BY <1>2 DEF Cli!Authenticate, AskService, Hop, ClientPlace, Places, P
<1> QED
  BY <1>1, <1>2

\* What the client does without reading a packet.
LEMMA ClientActs ==
    ASSUME ClientPlace, Tries, Unreported, cpc # "done",
           Cli!Local \/ Cli!Readable \/ Cli!User \/ Cli!Slice \/ Cli!Broken \/ Cli!WaitBreaks
    PROVE  /\ ClientPlace'
           /\ \/ Ends /\ sent' = <<>>
              \/ Ends /\ cpc = "wait" /\ sent' = <<P("IGNORE")>>
              \/ LocalHop \/ AskPrompted \/ AskService
           /\ Cli!Broken \/ Cli!WaitBreaks => Ends /\ sent' = <<>>
<1> USE DEF Cli!tcpVars, Cli!kexVars, Cli!loginVars, Cli!channelVars, Cli!aliveVars, Cli!Proceed
<1>a. Ends => ClientPlace'
  BY DEF Ends, Kept, ClientPlace, Places
<1>1. Cli!Broken \/ Cli!WaitBreaks => Ends /\ sent' = <<>>
  BY ExitEnds DEF Cli!Broken, Cli!WaitBreaks
<1>2. CASE Cli!Connect
  BY <1>1, <1>2 DEF Cli!Connect, LocalHop, Hop, Kept, ClientPlace, Places, P
<1>3. CASE Cli!ConnectFails
  <2>1. CASE Cli!Exit(1)
    BY <1>1, <1>3, <1>a, <2>1, ExitEnds DEF Cli!ConnectFails
  <2>2. CASE ~Cli!Exit(1)
    BY <1>1, <1>3, <2>2 DEF Cli!ConnectFails, LocalHop, Hop, Kept, ClientPlace, Places
  <2> QED
    BY <2>1, <2>2
<1>4. CASE Cli!Credentials
  <2>1. cpc = "creds" /\ password \in {"unset", "empty", "given"}
    BY <1>4 DEF Cli!Credentials, Tries
  <2>2. CASE Cli!Exit(1) \/ Cli!Exit(0)
    BY <1>1, <1>a, <2>1, <2>2, ExitEnds
  <2>3. CASE Cli!Authenticate(password)
    BY <1>1, <2>1, <2>3, Authenticates
  <2>4. CASE ~Cli!HasCredentials /\ Cli!AskPassword
    BY <1>1, <2>1, <2>4 DEF Cli!AskPassword, Cli!HasCredentials, LocalHop, Hop, Kept, ClientPlace,
         Places
  <2> QED
    BY <1>4, <2>2, <2>3, <2>4 DEF Cli!Credentials
<1>5. CASE Cli!WaitEnds \/ Cli!Rekey
  BY <1>5 DEF Cli!WaitEnds, Cli!Rekey, ClientPlace
<1>6. CASE Cli!Readable
  BY <1>1, <1>6 DEF Cli!Readable, LocalHop, Hop, Kept, ClientPlace, Places
<1>7. CASE \E trusted \in BOOLEAN : Cli!VerifyHostKey(trusted)
  <2>1. PICK trusted \in BOOLEAN : Cli!VerifyHostKey(trusted)
    BY <1>7
  <2>2. CASE Cli!Exit(1)
    BY <1>1, <1>a, <2>1, <2>2, ExitEnds DEF Cli!VerifyHostKey
  <2>3. CASE ~Cli!Exit(1)
    BY <1>1, <2>1, <2>3 DEF Cli!VerifyHostKey, LocalHop, Hop, Kept, ClientPlace, Places
  <2> QED
    BY <2>2, <2>3
<1>8. CASE Cli!Prompt
  <2>1. cpc = "prompt"
    BY <1>8 DEF Cli!Prompt
  <2>2. CASE Cli!Exit(1)
    BY <1>1, <1>a, <2>1, <2>2, ExitEnds
  <2>3. CASE \E pw \in {"empty", "given"} : Cli!Authenticate(pw)
    BY <1>1, <2>1, <2>3, Authenticates
  <2> QED
    BY <1>8, <2>2, <2>3 DEF Cli!Prompt
<1>9. CASE Cli!InputLine \/ Cli!InputEnds
  BY <1>9 DEF Cli!InputLine, Cli!InputEnds, ClientPlace, Places
<1>10. CASE Cli!Slice
  <2>1. cpc = "wait" /\ sent' \in {<<>>, <<P("IGNORE")>>} /\ Kept /\ stack' = stack
    BY <1>10 DEF Cli!Slice, Kept, P
  <2>2. CASE cpc' = "wait"
    BY <1>1, <2>1, <2>2 DEF LocalHop, Hop, Kept, ClientPlace, Places
  <2>3. CASE cpc' # "wait"
    <3>1. cpc' = "done" /\ exit_code' = Cli!ExitStatus
      BY <1>10, <2>3 DEF Cli!Slice, ClientPlace
    <3>2. Ends
      BY <2>1, <3>1 DEF Ends, Cli!ExitStatus, ClientPlace
    <3> QED
      BY <1>1, <1>a, <2>1, <3>2
  <2> QED
    BY <2>2, <2>3
<1>11. CASE Cli!Broken \/ Cli!WaitBreaks
  BY <1>1, <1>a, <1>11
<1> QED
  BY <1>2, <1>3, <1>4, <1>5, <1>6, <1>7, <1>8, <1>9, <1>10, <1>11 DEF Cli!Local, Cli!User

----------------------------------------------------------------------------
(* The conversation through a step of the client.                          *)

\* With both processes running, Lockstep includes what each may still read.
LEMMA LockstepParts == Lockstep' => Inbox' /\ Acceptable'
<1> SUFFICES ASSUME Lockstep' PROVE Inbox' /\ Acceptable'
  OBVIOUS
<1>1. Inbox'
  BY DEF Lockstep, Inbox, Asked, Told
<1>2. Acceptable'
  BY DEF Lockstep, Acceptable, Asked, Told, KeysSent
<1> QED
  BY <1>1, <1>2

\* The client does not touch the server.
LEMMA StagesStay ==
    ASSUME ClientSends
    PROVE  /\ pc' = pc /\ (Fresh' <=> Fresh) /\ (Ready' <=> Ready) /\ (Known' <=> Known)
           /\ (Opened' <=> Opened) /\ (Running' <=> Running)
           /\ auth_attempts' = auth_attempts /\ delivered' = delivered /\ chunk' = chunk
           /\ status_sent' = status_sent /\ c2s' = c2s \o sent'
BY DEF ClientSends, Fresh, Ready, Known, Opened, Running, Login

Reading == ReadHop \/ AskHop \/ AskAgain \/ DataHop \/ StatusHop
Acting == LocalHop \/ AskPrompted \/ AskService

\* Taking a packet off leaves packets of the session,
LEMMA StreamTail ==
    ASSUME NEW q \in Seq(Answers), q # <<>>, Stream(q)
    PROVE  Stream(Tail(q))
<1>1. \A k \in DOMAIN Tail(q) : k + 1 \in DOMAIN q /\ Tail(q)[k] = q[k + 1]
  OBVIOUS
<1> QED
  BY <1>1 DEF Stream

\* and one keepalive more leaves keepalives.
LEMMA IgnoresMore ==
    ASSUME NEW q \in Seq(Answers), Ignores(q)
    PROVE  Ignores(q \o <<P("IGNORE")>>)
<1>1. P("IGNORE") \in Answers
  BY PacketFields DEF Types
<1>2. q \o <<P("IGNORE")>> = Append(q, P("IGNORE"))
  BY <1>1, AppendIsConcat
<1> QED
  BY <1>1, <1>2 DEF Ignores

\* The client reads a packet and sends the next request, if any.
LEMMA ReadTalk ==
    ASSUME QueuesTyped, Talk, Tries, ClientSends, Reading, s2c # <<>>, s2c' = Tail(s2c),
           cpc # "done"
    PROVE  Talk'
<1> USE StagesStay, Joined
<1>q. c2s \in Seq(Answers) /\ s2c \in Seq(Answers) /\ Inbox
  BY DEF QueuesTyped, Talk
<1>p. \A t \in Types : P(t) \in Answers
  BY PacketFields
<1>s. ASSUME NEW m \in Answers, c2s = <<>>, sent' = <<m>> PROVE c2s' = <<m>>
  BY <1>s
<1>1. Inbox'
  <2>1. CASE ReadHop
    <3>1. CASE Begun(s2c) /\ cpc = "request" /\ cpc' = "wait"
      BY <3>1 DEF Inbox, Begun
    <3>2. CASE Hop("ecdh", "newkeys", <<P("NEWKEYS")>>) /\ s2c = <<P("ECDH_REPLY"), P("NEWKEYS")>>
      BY <3>2 DEF Hop, Inbox
    <3>3. CASE \E m : s2c = <<m>>
      <4>1. s2c' = <<>>
        BY <3>3
      <4>2. cpc' \in {"kexinit", "ecdh", "verify", "svc_conn", "prompt", "open", "request", "wait"}
            \/ cpc = "ecdh"
        BY <2>1 DEF ReadHop, Hop
      <4>3. cpc # "ecdh"
        BY <1>q, <3>3 DEF Inbox
      <4>4. Stream(<<>>)
        BY DEF Stream
      <4> QED
        BY <4>1, <4>2, <4>3, <4>4 DEF Inbox
    <3> QED
      BY <2>1, <3>1, <3>2, <3>3 DEF ReadHop, Hop
  <2>2. CASE AskHop \/ AskAgain
    BY <2>2 DEF AskHop, AskAgain, Asks, Inbox
  <2>3. CASE DataHop \/ StatusHop
    <3>1. cpc = "recv" /\ cpc' \in {"wait", "recv"}
      BY <2>3 DEF DataHop, StatusHop, Hop
    <3>2. Stream(Tail(s2c))
      BY <3>1, <1>q, StreamTail DEF Inbox
    <3> QED
      BY <3>1, <3>2 DEF Inbox
  <2> QED
    BY <2>1, <2>2, <2>3 DEF Reading
<1>2. ASSUME pc # "done" PROVE Lockstep'
  <2>0. Lockstep
    BY <1>2 DEF Talk
  <2>1. CASE ReadHop
    <3>1. CASE Hop("ident", "kexinit", <<P("KEXINIT")>>) /\ s2c = <<P("IDENT")>>
      <4>1. c2s = <<>> /\ pc = "kexinit"
        BY <2>0, <3>1 DEF Hop, Lockstep, Asked, Told
      <4> QED
        BY <3>1, <4>1, <1>p DEF Hop, Lockstep, Asked, Types
    <3>2. CASE Hop("kexinit", "ecdh", <<P("ECDH_INIT")>>) /\ s2c = <<P("KEXINIT")>>
      <4>1. c2s = <<>> /\ pc = "ecdh"
        BY <2>0, <3>2 DEF Hop, Lockstep, Asked, Told
      <4> QED
        BY <3>2, <4>1, <1>p DEF Hop, Lockstep, Asked, Types
    <3>3. CASE Hop("ecdh", "newkeys", <<P("NEWKEYS")>>) /\ s2c = <<P("ECDH_REPLY"), P("NEWKEYS")>>
      <4>1. c2s = <<>> /\ pc = "newkeys"
        BY <2>0, <3>3 DEF Hop, Lockstep, Asked, Told
      <4> QED
        BY <3>3, <4>1, <1>p DEF Hop, Lockstep, KeysSent, Types
    <3>4. CASE Hop("newkeys", "verify", <<>>) /\ s2c = <<P("NEWKEYS")>>
      <4>1. KeysSent
        BY <2>0, <3>4 DEF Hop, Lockstep
      <4> QED
        BY <3>4, <4>1, <1>q DEF Hop, Lockstep, KeysSent
    <3>5. CASE /\ cpc \in {"auth_key", "auth_password"}
               /\ Hop(cpc, "svc_conn", <<P("SERVICE_CONNECTION")>>)
               /\ s2c = <<P("USERAUTH_SUCCESS")>>
      <4>1. P("USERAUTH_SUCCESS") # P("USERAUTH_FAILURE")
        BY PacketFields
      <4>2. <<P("USERAUTH_SUCCESS")>> # <<P("USERAUTH_FAILURE")>>
        BY <4>1, Joined
      <4>3. c2s = <<>> /\ Known
        BY <2>0, <3>5, <4>2 DEF Lockstep, Asked, Told
      <4>4. c2s' = <<P("SERVICE_CONNECTION")>>
        BY <3>5, <4>3, <1>p, <1>s DEF Hop, Types
      <4> QED
        BY <3>5, <4>3, <4>4 DEF Hop, Lockstep, Asked
    <3>6. CASE /\ cpc \in {"auth_key", "auth_password"} /\ Hop(cpc, "prompt", <<>>)
               /\ s2c = <<P("USERAUTH_FAILURE")>> /\ Kept
      <4>1. P("USERAUTH_SUCCESS") # P("USERAUTH_FAILURE")
        BY PacketFields
      <4>2. <<P("USERAUTH_SUCCESS")>> # <<P("USERAUTH_FAILURE")>>
        BY <4>1, Joined
      <4>3. c2s = <<>> /\ Ready
        BY <2>0, <3>6, <4>2 DEF Lockstep, Asked, Told
      <4> QED
        BY <3>6, <4>3, <1>q DEF Hop, Lockstep, Tries, Kept
    <3>7. CASE Hop("svc_conn", "open", <<OPEN>>) /\ s2c = <<P("SERVICE_ACCEPT")>>
      <4>1. c2s = <<>> /\ Known
        BY <2>0, <3>7 DEF Hop, Lockstep, Asked, Told
      <4> QED
        BY <3>7, <4>1, OpenFields DEF Hop, Lockstep, Asked
    <3>8. CASE Hop("open", "request", <<P("START")>>) /\ s2c = <<P("OPEN_CONFIRMATION")>>
      <4>1. c2s = <<>> /\ Opened
        BY <2>0, <3>8 DEF Hop, Lockstep, Asked, Told
      <4> QED
        BY <3>8, <4>1, <1>p DEF Hop, Lockstep, Asked, Types
    <3>9. CASE Hop("request", "wait", <<>>) /\ Begun(s2c)
      <4>1. c2s = <<>> /\ Running
        BY <2>0, <3>9 DEF Hop, Lockstep, Asked, Begun
      <4>2. Stream(Tail(s2c)) /\ Ignores(c2s)
        BY <3>9, <4>1 DEF Begun, Ignores
      <4> QED
        BY <3>9, <4>1, <4>2, <1>q DEF Hop, Lockstep
    <3> QED
      BY <2>1, <3>1, <3>2, <3>3, <3>4, <3>5, <3>6, <3>7, <3>8, <3>9 DEF ReadHop
  <2>2. CASE AskHop
    <3>1. c2s = <<>> /\ Ready
      BY <2>0, <2>2 DEF AskHop, Lockstep, Asked, Told
    <3>2. requests \in Nat /\ auth_attempts \in 0..requests /\ requests' = requests + 1
      BY <2>2 DEF AskHop, Asks, Tries
    <3>3. auth_attempts < requests'
      BY <3>2
    <3>4. c2s' = <<P("USERAUTH_REQUEST")>>
      BY <2>2, <3>1, <1>p, <1>s DEF AskHop, Asks, Types
    <3> QED
      BY <2>2, <3>1, <3>3, <3>4 DEF AskHop, Asks, Lockstep, Asked
  <2>3. CASE AskAgain
    <3>0. <<P("USERAUTH_SUCCESS")>> # <<P("USERAUTH_FAILURE")>>
      BY PacketFields, Joined
    <3>1. c2s = <<>> /\ Ready
      BY <2>0, <2>3, <3>0 DEF AskAgain, Lockstep, Asked, Told
    <3>2. requests \in Nat /\ auth_attempts \in 0..requests /\ requests' = requests + 1
      BY <2>3 DEF AskAgain, Asks, Tries
    <3>3. auth_attempts < requests'
      BY <3>2
    <3>4. c2s' = <<P("USERAUTH_REQUEST")>>
      BY <2>3, <3>1, <1>p, <1>s DEF AskAgain, Asks, Types
    <3> QED
      BY <2>3, <3>1, <3>3, <3>4 DEF AskAgain, Asks, Lockstep, Asked
  <2>4. CASE DataHop \/ StatusHop
    <3>1. cpc = "recv" /\ cpc' \in {"wait", "recv"} /\ sent' = <<>>
      BY <2>4 DEF DataHop, StatusHop, Hop
    <3>2. Ignores(c2s) /\ Stream(s2c) /\ Running
      BY <2>0, <3>1 DEF Lockstep
    <3>3. Stream(Tail(s2c)) /\ c2s' = c2s
      BY <3>1, <3>2, <1>q, StreamTail
    <3> QED
      BY <3>1, <3>2, <3>3 DEF Lockstep
  <2> QED
    BY <2>1, <2>2, <2>3, <2>4 DEF Reading
<1>3. pc' # "done" => Acceptable'
  BY <1>2, LockstepParts
<1> QED
  BY <1>1, <1>2, <1>3 DEF Talk
\* The client goes on without reading: its requests find the server ready.
LEMMA ActTalk ==
    ASSUME QueuesTyped, Talk, Tries, ClientSends, Acting, s2c' = s2c, cpc # "done"
    PROVE  Talk'
<1> USE StagesStay, Joined
<1>q. c2s \in Seq(Answers) /\ s2c \in Seq(Answers) /\ Inbox
  BY DEF QueuesTyped, Talk
<1>p. \A t \in Types : P(t) \in Answers
  BY PacketFields
<1>s. ASSUME NEW m \in Answers, c2s = <<>>, sent' = <<m>> PROVE c2s' = <<m>>
  BY <1>s
<1>1. Inbox'
  <2>1. CASE LocalHop
    BY <1>q, <2>1 DEF LocalHop, Hop, Inbox
  <2>2. CASE AskPrompted
    BY <1>q, <2>2 DEF AskPrompted, Asks, Inbox
  <2>3. CASE AskService
    BY <1>q, <2>3 DEF AskService, Hop, Inbox
  <2> QED
    BY <2>1, <2>2, <2>3 DEF Acting
<1>2. ASSUME pc # "done" PROVE Lockstep'
  <2>0. Lockstep
    BY <1>2 DEF Talk
  <2>1. CASE Hop("connect", "ident", <<P("IDENT")>>)
    <3>1. c2s = <<>> /\ s2c = <<>> /\ pc = "ident"
      BY <2>0, <2>1 DEF Hop, Lockstep, Told
    <3>2. c2s' = <<P("IDENT")>>
      BY <2>1, <3>1, <1>p, <1>s DEF Hop, Types
    <3> QED
      BY <2>1, <3>1, <3>2 DEF Hop, Lockstep, Asked
  <2>2. CASE Hop("connect", "connect", <<>>)
    <3>1. c2s = <<>> /\ s2c = <<>> /\ pc = "ident"
      BY <2>0, <2>2 DEF Hop, Lockstep, Told
    <3> QED
      BY <2>2, <3>1, <1>q DEF Hop, Lockstep, Told
  <2>3. CASE Hop("verify", "creds", <<>>) \/ (Hop("creds", "prompt", <<>>) /\ Kept)
    <3>1. s2c = <<>> /\ KeysSent
      BY <2>0, <2>3 DEF Hop, Lockstep
    <3>2. c2s' = c2s
      BY <1>q, <2>3 DEF Hop
    <3>3. KeysSent'
      BY <3>1, <3>2 DEF KeysSent
    <3> QED
      BY <2>3, <3>1, <3>3 DEF Hop, Lockstep, Kept, Tries
  <2>4. CASE Hop("wait", "recv", <<>>) \/ Hop("wait", "wait", <<>>)
             \/ Hop("wait", "wait", <<P("IGNORE")>>)
    <3>1. Ignores(c2s) /\ Stream(s2c) /\ Running
      BY <2>0, <2>4 DEF Hop, Lockstep
    <3>a. c2s' = c2s \/ c2s' = c2s \o <<P("IGNORE")>>
      BY <1>q, <2>4 DEF Hop
    <3>2. Ignores(c2s')
      BY <1>q, <3>1, <3>a, IgnoresMore
    <3>3. cpc' \in {"wait", "recv"}
      BY <2>4 DEF Hop
    <3> QED
      BY <3>1, <3>2, <3>3 DEF Lockstep
  <2>5. CASE AskPrompted
    <3>1. c2s = <<>> /\ s2c = <<>> /\ Ready
      BY <2>0, <2>5 DEF AskPrompted, Lockstep
    <3>2. requests \in Nat /\ auth_attempts \in 0..requests /\ requests' = requests + 1
      BY <2>5 DEF AskPrompted, Asks, Tries
    <3>3. auth_attempts < requests'
      BY <3>2
    <3>4. c2s' = <<P("USERAUTH_REQUEST")>>
      BY <2>5, <3>1, <1>p, <1>s DEF AskPrompted, Asks, Types
    <3> QED
      BY <2>5, <3>1, <3>3, <3>4 DEF AskPrompted, Asks, Lockstep, Asked
  <2>6. CASE AskService
    <3>1. s2c = <<>> /\ KeysSent /\ cpc' = "svc_userauth" /\ sent' = <<P("SERVICE_USERAUTH")>>
      BY <2>0, <2>6 DEF AskService, Hop, Lockstep
    <3>2. CASE c2s = <<P("NEWKEYS")>> /\ pc = "newkeys"
      <4>1. c2s' = <<P("NEWKEYS"), P("SERVICE_USERAUTH")>>
        BY <3>1, <3>2, <1>p DEF Types
      <4> QED
        BY <3>1, <3>2, <4>1 DEF Lockstep, Asked
    <3>3. CASE c2s = <<>> /\ Fresh
      <4>1. c2s' = <<P("SERVICE_USERAUTH")>>
        BY <3>1, <3>3, <1>p, <1>s DEF Types
      <4> QED
        BY <3>1, <3>3, <4>1 DEF Lockstep, Asked
    <3> QED
      BY <3>1, <3>2, <3>3 DEF KeysSent
  <2> QED
    BY <2>1, <2>2, <2>3, <2>4, <2>5, <2>6 DEF Acting, LocalHop
<1>3. pc' # "done" => Acceptable'
  BY <1>2, LockstepParts
<1> QED
  BY <1>1, <1>2, <1>3 DEF Talk

\* The client exits; what it sent before is still read.
LEMMA EndTalk ==
    ASSUME QueuesTyped, Talk, ClientSends, Ends, cpc # "done",
           sent' = <<>> \/ (cpc = "wait" /\ sent' = <<P("IGNORE")>>)
    PROVE  Talk'
<1> USE StagesStay
<1>1. ASSUME pc # "done" PROVE Acceptable'
  <2>1. CASE sent' = <<>>
    <3>1. c2s' = c2s
      BY <2>1 DEF QueuesTyped
    <3>2. requests' = requests
      BY DEF Ends, Kept
    <3> QED
      BY <1>1, <3>1, <3>2 DEF Talk, Acceptable
  <2>2. CASE cpc = "wait" /\ sent' = <<P("IGNORE")>>
    <3>1. Ignores(c2s) /\ Running
      BY <1>1, <2>2 DEF Talk, Lockstep
    <3>2. Ignores(c2s')
      BY <2>2, <3>1, IgnoresMore DEF QueuesTyped
    <3> QED
      BY <3>1, <3>2 DEF Acceptable
  <2> QED
    BY <2>1, <2>2
<1> QED
  BY <1>1 DEF Talk, Ends
----------------------------------------------------------------------------
(* A step of the client.                                                   *)

\* It reads a packet, moves on without one, or exits.
Exits ==
    /\ Ends
    /\ sent' = <<>> \/ (cpc = "wait" /\ sent' = <<P("IGNORE")>>)
    /\ s2c' = s2c \/ s2c' = <<>> \/ (s2c # <<>> /\ s2c' = Tail(s2c))
Reads == Reading /\ s2c # <<>> /\ s2c' = Tail(s2c)
Acts == Acting /\ s2c' = s2c

\* Every step of the client is one of the three.
LEMMA ClientSteps ==
    ASSUME ExecInv, ClientStep \/ ClientUser \/ ClientSlice
    PROVE  cpc # "done" /\ ClientSends /\ ClientPlace' /\ (Exits \/ Reads \/ Acts)
<1>0. ClientPlace /\ Tries /\ QueuesTyped /\ Talk /\ Unreported
  BY DEF ExecInv, StatusLast, Unreported
<1>1. CASE ClientReceives
  <2>1. s2c # <<>> /\ Cli!Receive(Head(s2c)) /\ s2c' = Tail(s2c) /\ ClientSends
    BY <1>1 DEF ClientReceives
  <2>2. cpc # "done"
    BY <1>0, <2>1, ReadersByPlace
  <2>3. Inbox
    BY <1>0, <2>2 DEF Talk
  <2>4. ClientPlace' /\ ((Ends /\ sent' = <<>>) \/ Reading)
    BY <1>0, <2>1, <2>2, <2>3, ClientReads DEF Reading
  <2> QED
    BY <2>1, <2>2, <2>4 DEF Exits, Reads
<1>2. CASE ClientBroken
  <2>1. (Cli!Broken \/ Cli!WaitBreaks) /\ s2c' = <<>> /\ ClientSends
    BY <1>2 DEF ClientBroken
  <2>2. cpc # "done"
    BY <2>1, NeverAfterDone
  <2>3. ClientPlace' /\ Ends /\ sent' = <<>>
    BY <1>0, <2>1, <2>2, ClientActs
  <2> QED
    BY <2>1, <2>2, <2>3 DEF Exits
<1>3. CASE ClientMoves \/ ClientUser \/ ClientSlice
  <2>1. (Cli!Local \/ Cli!Readable \/ Cli!User \/ Cli!Slice) /\ s2c' = s2c /\ ClientSends
    BY <1>3 DEF ClientMoves, ClientUser, ClientSlice
  <2>2. cpc # "done"
    BY <2>1, NeverAfterDone
  <2>3. /\ ClientPlace'
        /\ \/ Ends /\ sent' = <<>>
           \/ Ends /\ cpc = "wait" /\ sent' = <<P("IGNORE")>>
           \/ Acting
    BY <1>0, <2>1, <2>2, ClientActs DEF Acting
  <2> QED
    BY <2>1, <2>2, <2>3 DEF Exits, Acts
<1> QED
  BY <1>1, <1>2, <1>3 DEF ClientStep

\* What the client sends are packets.
LEMMA SentTyped ==
    ASSUME Exits \/ Reads \/ Acts
    PROVE  sent' \in Seq(Answers)
<1>1. \A t \in Types : P(t) \in Answers
  BY PacketFields
<1>2. sent' = <<>> \/ sent' = <<OPEN>> \/ \E t \in Types : sent' = <<P(t)>>
  <2>1. CASE Exits
    BY <2>1 DEF Exits, Types
  <2>2. CASE ReadHop
    BY <2>2 DEF ReadHop, Hop, Types
  <2>3. CASE AskHop \/ AskAgain \/ AskPrompted
    BY <2>3 DEF AskHop, AskAgain, AskPrompted, Asks, Types
  <2>4. CASE DataHop \/ StatusHop
    BY <2>4 DEF DataHop, StatusHop, Hop
  <2>5. CASE LocalHop
    BY <2>5 DEF LocalHop, Hop, Types
  <2>6. CASE AskService
    BY <2>6 DEF AskService, Hop, Types
  <2> QED
    BY <2>1, <2>2, <2>3, <2>4, <2>5, <2>6 DEF Reads, Reading, Acts, Acting
<1>3. \A m \in Answers : <<m>> \in Seq(Answers)
  OBVIOUS
<1>4. sent' \in Seq(Answers)
  <2>1. <<OPEN>> \in Seq(Answers) /\ \A t \in Types : <<P(t)>> \in Seq(Answers)
    BY <1>1, <1>3, OpenFields
  <2>2. <<>> \in Seq(Answers)
    OBVIOUS
  <2> QED
    BY <1>2, <2>1, <2>2, Zenon
<1> QED
  BY <1>4

\* The queues stay queues of packets.
LEMMA ClientQueues ==
    ASSUME QueuesTyped, ClientSends, Exits \/ Reads \/ Acts
    PROVE  QueuesTyped'
<1>1. s2c' \in Seq(Answers)
  <2>1. s2c \in Seq(Answers) /\ <<>> \in Seq(Answers)
    BY DEF QueuesTyped
  <2>2. s2c # <<>> => Tail(s2c) \in Seq(Answers)
    BY <2>1
  <2>3. s2c' = s2c \/ s2c' = <<>> \/ (s2c # <<>> /\ s2c' = Tail(s2c))
    BY DEF Exits, Reads, Acts
  <2> QED
    BY <2>1, <2>2, <2>3
<1>2. c2s' = c2s \o sent' /\ sent' \in Seq(Answers)
  BY SentTyped DEF ClientSends
<1> QED
  BY <1>1, <1>2 DEF QueuesTyped

\* The client never asks for authentication a fourth time.
LEMMA ClientTries ==
    ASSUME Tries, ClientSends, cpc # "done", Exits \/ Reads \/ Acts
    PROVE  Tries'
<1>0. auth_attempts' = auth_attempts
  BY DEF ClientSends
<1>1. CASE Exits
  BY <1>0, <1>1 DEF Exits, Ends, Kept, Tries
<1>2. CASE ReadHop
  BY <1>0, <1>2 DEF ReadHop, Hop, Kept, Tries
<1>3. CASE AskHop \/ AskAgain \/ AskPrompted
  <2>1. requests' = requests + 1 /\ requests \in 0..2 /\ c_userauth' = TRUE
    BY <1>3 DEF AskHop, AskAgain, AskPrompted, Asks, Tries
  <2>2. requests' \in 0..3 /\ auth_attempts' \in 0..requests'
    BY <1>0, <2>1 DEF Tries
  <2>3. CASE AskHop
    BY <2>1, <2>2, <2>3 DEF AskHop, Asks, Tries
  <2>4. CASE AskAgain
    BY <2>1, <2>2, <2>4 DEF AskAgain, Asks, Tries
  <2>5. CASE AskPrompted
    BY <2>1, <2>2, <2>5 DEF AskPrompted, Asks, Tries
  <2> QED
    BY <1>3, <2>3, <2>4, <2>5
<1>4. CASE DataHop \/ StatusHop
  BY <1>0, <1>4 DEF DataHop, StatusHop, Hop, Tries
<1>5. CASE LocalHop
  BY <1>0, <1>5 DEF LocalHop, Hop, Kept, Tries
<1>6. CASE AskService
  BY <1>0, <1>6 DEF AskService, Hop, Tries
<1> QED
  BY <1>1, <1>2, <1>3, <1>4, <1>5, <1>6 DEF Reads, Reading, Acts, Acting

\* The bytes printed and those under way stay those that were sent.
LEMMA ClientCounts ==
    ASSUME ExecInv, ClientSends, cpc # "done", Exits \/ Reads \/ Acts
    PROVE  Counted' /\ StatusLast'
<1>0. /\ QueuesTyped /\ Inbox /\ delivered \in Nat /\ delivered' = delivered /\ chunk' = chunk
      /\ status_sent' = status_sent /\ printed \in Nat /\ chunk <= CHUNK
      /\ Account(s2c, printed, delivered)
  BY DEF ExecInv, IndInv, TypeOK, Talk, ClientSends, Counted
<1>1. CASE Exits
  <2>1. cpc' = "done" /\ printed' = printed /\ status' = status
    BY <1>1 DEF Exits, Ends, Kept
  <2>2. status # NOSTATUS /\ exit_code' \notin Cli!Signals => exit_code' = status % BYTE
    BY <1>1 DEF Exits, Ends
  <2>3. Counted'
    BY <1>0, <2>1 DEF Counted
  <2>4. StatusLast'
    BY <1>0, <2>1, <2>2 DEF ExecInv, StatusLast, Cli!Signals, Cli!SIGPIPE, Cli!SIGSEGV
  <2> QED
    BY <2>3, <2>4
<1>2. CASE Acts
  <2>1. printed' = printed /\ status' = status /\ s2c' = s2c /\ cpc' # "done"
    BY <1>2 DEF Acts, Acting, LocalHop, AskPrompted, AskService, Asks, Hop, Kept
  <2>2. cpc \in {"wait", "recv", "done"} => cpc' \in {"wait", "recv", "done"}
    BY <1>2 DEF Acts, Acting, LocalHop, AskPrompted, AskService, Asks, Hop
  <2>3. Counted'
    BY <1>0, <2>1 DEF ExecInv, Counted
  <2>4. StatusLast'
    BY <1>0, <2>1, <2>2 DEF ExecInv, StatusLast
  <2> QED
    BY <2>3, <2>4
<1>3. CASE Reads
  <2> DEFINE m == Head(s2c)
  <2>1. /\ m = s2c[1] /\ 1 \in DOMAIN s2c /\ m \in Answers /\ s2c' = Tail(s2c) /\ s2c # <<>>
        /\ \A k \in DOMAIN Tail(s2c) : k + 1 \in DOMAIN s2c /\ Tail(s2c)[k] = s2c[k + 1]
    BY <1>0, <1>3 DEF QueuesTyped, Reads
  <2>2. /\ Account(Tail(s2c), printed + Bytes(m), delivered)
        /\ m.t = "STATUS" => /\ printed = delivered
                             /\ \A k \in DOMAIN Tail(s2c) : Bytes(Tail(s2c)[k]) = 0
    BY <1>0, <2>1, AccountTake DEF QueuesTyped
  <2>3. printed' = printed + Bytes(m)
    <3>1. CASE DataHop
      BY <3>1 DEF DataHop
    <3>2. CASE StatusHop
      BY <1>0, <3>2 DEF StatusHop, Bytes
    <3>3. CASE ReadHop \/ AskHop \/ AskAgain
      <4>1. printed' = printed
        BY <3>3 DEF ReadHop, AskHop, AskAgain, Asks, Kept
      <4>2. m.t # "DATA"
        BY <3>3, PacketFields, Joined DEF ReadHop, AskHop, AskAgain, Begun
      <4> QED
        BY <1>0, <4>1, <4>2 DEF Bytes
    <3> QED
      BY <1>3, <3>1, <3>2, <3>3 DEF Reads, Reading
  <2>4. printed' \in Nat
    BY <1>0, <2>1, <2>3, BytesTyped
  <2>5. \A k \in DOMAIN s2c' : s2c'[k].t = "STATUS" => status_sent'
    BY <1>0, <2>1 DEF ExecInv, Counted
  <2>6. Counted'
    BY <1>0, <2>1, <2>2, <2>3, <2>4, <2>5 DEF Counted
  <2>7. CASE StatusHop
    <3>1. cpc = "recv" /\ cpc' = "recv" /\ m.t = "STATUS" /\ status' = m.n /\ printed' = printed
      BY <2>7 DEF StatusHop, Hop
    <3>2. Stream(s2c)
      BY <1>0, <3>1 DEF Inbox
    <3>3. m.n = ExitCode
      BY <2>1, <3>1, <3>2, PacketFields DEF Stream
    <3>4. status_sent
      BY <2>1, <3>1 DEF ExecInv, Counted
    <3>5. printed' = delivered' /\ \A k \in DOMAIN s2c' : Bytes(s2c'[k]) = 0
      BY <1>0, <2>1, <2>2, <3>1
    <3> QED
      BY <1>0, <2>6, <3>1, <3>3, <3>4, <3>5 DEF StatusLast
  <2>8. CASE ~StatusHop
    <3>1. status' = status
      BY <1>3, <2>8 DEF Reads, Reading, ReadHop, AskHop, AskAgain, DataHop, Asks, Kept
    <3>2. cpc \in {"wait", "recv", "done"} => cpc' \in {"wait", "recv"}
      BY <1>3, <2>8 DEF Reads, Reading, ReadHop, AskHop, AskAgain, DataHop, Asks, Hop
    <3>3. ASSUME status # NOSTATUS PROVE StatusLast'
      <4>1. /\ status = ExitCode /\ status_sent /\ printed = delivered
            /\ cpc \in {"wait", "recv", "done"} /\ \A k \in DOMAIN s2c : Bytes(s2c[k]) = 0
        BY <3>3 DEF ExecInv, StatusLast
      <4>2. printed' = printed
        BY <1>0, <2>1, <2>3, <4>1
      <4>3. \A k \in DOMAIN s2c' : Bytes(s2c'[k]) = 0
        BY <2>1, <4>1
      <4> QED
        BY <1>0, <3>1, <3>2, <4>1, <4>2, <4>3 DEF StatusLast
    <3>4. ASSUME status = NOSTATUS PROVE StatusLast'
      BY <3>1, <3>4 DEF StatusLast
    <3> QED
      BY <2>6, <3>3, <3>4
  <2> QED
    BY <2>7, <2>8
<1> QED
  BY <1>1, <1>2, <1>3

\* The parts of the invariant through a step of the client.
LEMMA ClientStepInv ==
    ASSUME ExecInv, ClientStep \/ ClientUser \/ ClientSlice
    PROVE  QueuesTyped' /\ Talk' /\ ClientPlace' /\ Tries' /\ Counted' /\ StatusLast'
<1>1. cpc # "done" /\ ClientSends /\ ClientPlace' /\ (Exits \/ Reads \/ Acts)
  BY ClientSteps
<1>2. QueuesTyped /\ Talk /\ Tries
  BY DEF ExecInv
<1>3. QueuesTyped' /\ Tries' /\ Counted' /\ StatusLast'
  BY <1>1, <1>2, ClientQueues, ClientTries, ClientCounts
<1>4. Talk'
  BY <1>1, <1>2, ReadTalk, ActTalk, EndTalk DEF Exits, Reads, Acts
<1> QED
  BY <1>1, <1>3, <1>4
----------------------------------------------------------------------------
(* What the server reads, and what it answers.                             *)

\* What the server's answers append to s2c.
LEMMA RepliesAre ==
    ASSUME QueuesTyped
    PROVE  /\ Replies(<<>>) => s2c' = s2c
           /\ \A t \in Types : Replies(<<t>>) => s2c' = Append(s2c, P(t))
           /\ \A t, u \in Types : Replies(<<t, u>>) => s2c' = Append(Append(s2c, P(t)), P(u))
<1>0. s2c \in Seq(Answers)
  BY DEF QueuesTyped
<1>1. ASSUME Replies(<<>>) PROVE s2c' = s2c
  <2>1. [k \in 1..0 |-> Cli!Packet((<<>>)[k])] = <<>>
    OBVIOUS
  <2>2. Len(<<>>) = 0
    OBVIOUS
  <2> QED
    BY <1>0, <1>1, <2>1, <2>2 DEF Replies
<1>2. ASSUME NEW t \in Types, Replies(<<t>>) PROVE s2c' = Append(s2c, P(t))
  <2> DEFINE e == [k \in 1..1 |-> Cli!Packet(<<t>>[k])]
  <2>0. P(t) \in Answers
    BY PacketFields
  <2>1. Len(<<t>>) = 1 /\ <<t>>[1] = t
    OBVIOUS
  <2>2. DOMAIN e = 1..1 /\ e[1] = P(t)
    BY <2>1 DEF P
  <2>3. e = <<P(t)>>
    BY <2>2
  <2>4. s2c' = s2c \o e
    BY <1>2, <2>1 DEF Replies
  <2> QED
    BY <1>0, <2>0, <2>3, <2>4, AppendIsConcat
<1>3. ASSUME NEW t \in Types, NEW u \in Types, Replies(<<t, u>>)
      PROVE  s2c' = Append(Append(s2c, P(t)), P(u))
  <2> DEFINE e == [k \in 1..2 |-> Cli!Packet(<<t, u>>[k])]
  <2>0. P(t) \in Answers /\ P(u) \in Answers
    BY PacketFields
  <2>1. Len(<<t, u>>) = 2 /\ <<t, u>>[1] = t /\ <<t, u>>[2] = u
    OBVIOUS
  <2>2. DOMAIN e = 1..2 /\ e[1] = P(t) /\ e[2] = P(u)
    BY <2>1 DEF P
  <2>3. e = <<P(t), P(u)>>
    BY <2>2
  <2>4. s2c' = s2c \o <<P(t), P(u)>>
    BY <1>3, <2>1, <2>3 DEF Replies
  <2> HIDE DEF e
  <2>5. s2c \o <<P(t), P(u)>> = (s2c \o <<P(t)>>) \o <<P(u)>>
    <3>1. <<P(t), P(u)>> = <<P(t)>> \o <<P(u)>>
      BY <2>0, Joined
    <3>2. <<P(t)>> \in Seq(Answers) /\ <<P(u)>> \in Seq(Answers)
      BY <2>0
    <3> QED
      BY <1>0, <3>1, <3>2, ConcatAssociative
  <2>6. s2c \o <<P(t)>> = Append(s2c, P(t)) /\ Append(s2c, P(t)) \in Seq(Answers)
    BY <1>0, <2>0, AppendIsConcat
  <2>7. Append(s2c, P(t)) \o <<P(u)>> = Append(Append(s2c, P(t)), P(u))
    BY <2>0, <2>6, AppendIsConcat
  <2> QED
    BY <2>4, <2>5, <2>6, <2>7
<1> QED
  BY <1>1, <1>2, <1>3

\* The first packet tells what is under way and where the server is ...
LEMMA Heard ==
    ASSUME Acceptable, QueuesTyped, c2s # <<>>
    PROVE  /\ Head(c2s).t = "SERVICE_USERAUTH" => c2s = <<P("SERVICE_USERAUTH")>> /\ Fresh
           /\ Head(c2s).t = "USERAUTH_REQUEST" =>
                c2s = <<P("USERAUTH_REQUEST")>> /\ Ready /\ auth_attempts < requests
           /\ Head(c2s).t = "SERVICE_CONNECTION" => c2s = <<P("SERVICE_CONNECTION")>> /\ Known
           /\ Head(c2s).t = "OPEN" => c2s = <<OPEN>> /\ Known
           /\ Head(c2s).t = "START" => c2s = <<P("START")>> /\ Opened
           /\ Head(c2s).t = "IGNORE" => Ignores(c2s) /\ Running
           /\ pc \in HandshakePCs /\ ~Running =>
                \/ pc = "ident" /\ c2s = <<P("IDENT")>>
                \/ pc = "kexinit" /\ c2s = <<P("KEXINIT")>>
                \/ pc = "ecdh" /\ c2s = <<P("ECDH_INIT")>>
                \/ pc = "newkeys" /\ c2s = <<P("NEWKEYS")>>
                \/ pc = "newkeys" /\ c2s = <<P("NEWKEYS"), P("SERVICE_USERAUTH")>>
<1>1. Ignores(c2s) => Head(c2s).t = "IGNORE"
  <2>1. Ignores(c2s) => Head(c2s) = P("IGNORE")
    BY DEF Ignores, QueuesTyped
  <2> QED
    BY <2>1, PacketFields
<1>2. OPEN.t = "OPEN"
  BY OpenFields
<1>3. pc \in HandshakePCs => ~Fresh /\ ~Ready /\ ~Known /\ ~Opened
  BY DEF Fresh, Ready, Known, Opened, Login
<1> QED
  BY <1>1, <1>2, <1>3, PacketFields, Joined DEF Acceptable

\* ... and where the client waits for the answer.
LEMMA Waiting ==
    ASSUME Lockstep, QueuesTyped, c2s # <<>>
    PROVE  /\ Head(c2s).t = "IDENT" => cpc = "ident" /\ s2c = <<>>
           /\ Head(c2s).t = "KEXINIT" => cpc = "kexinit" /\ s2c = <<>>
           /\ Head(c2s).t = "ECDH_INIT" => cpc = "ecdh" /\ s2c = <<>>
           /\ Head(c2s).t = "SERVICE_USERAUTH" => cpc = "svc_userauth" /\ s2c = <<>>
           /\ Head(c2s).t = "USERAUTH_REQUEST" =>
                cpc \in {"auth_key", "auth_password"} /\ s2c = <<>>
           /\ Head(c2s).t = "SERVICE_CONNECTION" => cpc = "svc_conn" /\ s2c = <<>>
           /\ Head(c2s).t = "OPEN" => cpc = "open" /\ s2c = <<>>
           /\ Head(c2s).t = "START" => cpc = "request" /\ s2c = <<>>
           /\ c2s = <<P("NEWKEYS"), P("SERVICE_USERAUTH")>> => cpc = "svc_userauth" /\ s2c = <<>>
           /\ c2s = <<P("NEWKEYS")>> =>
                \/ cpc = "newkeys" /\ s2c = <<P("NEWKEYS")>>
                \/ cpc \in {"verify", "creds"} /\ s2c = <<>>
                \/ cpc = "prompt" /\ s2c = <<>> /\ ~c_userauth
<1>1. Ignores(c2s) => Head(c2s).t = "IGNORE"
  <2>1. Ignores(c2s) => Head(c2s) = P("IGNORE")
    BY DEF Ignores, QueuesTyped
  <2> QED
    BY <2>1, PacketFields
<1>2. OPEN.t = "OPEN"
  BY OpenFields
<1>3. /\ <<P("NEWKEYS"), P("SERVICE_USERAUTH")>> # <<P("NEWKEYS")>>
      /\ Head(<<P("NEWKEYS"), P("SERVICE_USERAUTH")>>).t = "NEWKEYS"
      /\ Head(<<P("NEWKEYS")>>).t = "NEWKEYS"
  BY PacketFields
<1>4. ASSUME NEW t \in Types, Head(c2s).t = t PROVE \A u \in Types : u # t => c2s # <<P(u)>>
  BY <1>4, PacketFields, Joined
<1>5. Head(c2s).t # "OPEN" => c2s # <<OPEN>>
  BY <1>2, Joined
<1>6. CASE cpc \in {"connect", "ident", "kexinit", "ecdh"}
  BY <1>3, <1>6, PacketFields, Joined DEF Lockstep, Asked, Told
<1>9. CASE cpc \in {"newkeys", "verify", "creds", "prompt"}
  <2>1. c2s = <<P("NEWKEYS")>> /\ Head(c2s).t = "NEWKEYS"
    BY <1>9, PacketFields, Joined DEF Lockstep, KeysSent
  <2>2. \/ cpc = "newkeys" /\ s2c = <<P("NEWKEYS")>>
        \/ cpc \in {"verify", "creds"} /\ s2c = <<>>
        \/ cpc = "prompt" /\ s2c = <<>> /\ ~c_userauth
    BY <1>9, <2>1 DEF Lockstep
  <2> QED
    BY <1>3, <2>1, <2>2
<1>7. CASE cpc \in {"svc_userauth", "auth_key", "auth_password", "svc_conn"}
  BY <1>3, <1>7, PacketFields, Joined DEF Lockstep, Asked, Told
<1>8. CASE cpc \in {"open", "request", "wait", "recv"}
  BY <1>1, <1>2, <1>3, <1>8, PacketFields, Joined DEF Lockstep, Asked, Told
<1> QED
  BY <1>6, <1>7, <1>8, <1>9 DEF Lockstep

----------------------------------------------------------------------------
(* The bytes through a step of the server.                                 *)

\* The bytes stay accounted for when the server sends nothing,
LEMMA QuietCounts ==
    ASSUME Counted, StatusLast, UNCHANGED cliVars, s2c' = s2c, delivered' = delivered,
           status_sent' = status_sent, chunk' <= CHUNK
    PROVE  Counted' /\ StatusLast'
<1>1. Counted'
  BY DEF Counted, cliVars
<1>2. StatusLast'
  BY DEF StatusLast, cliVars, Cli!Signals, Cli!SIGPIPE, Cli!SIGSEGV
<1> QED
  BY <1>1, <1>2

\* and when it sends one packet.
LEMMA SaidCounts ==
    ASSUME QueuesTyped, delivered \in Nat, Counted, StatusLast, UNCHANGED cliVars,
           NEW m \in Answers, s2c' = Append(s2c, m), delivered' = delivered + Bytes(m),
           status_sent => status_sent' = TRUE /\ Bytes(m) = 0, chunk' <= CHUNK,
           m.t = "STATUS" => status_sent' = TRUE
    PROVE  Counted' /\ StatusLast'
<1>0. s2c \in Seq(Answers) /\ Bytes(m) \in Nat
  BY BytesTyped DEF QueuesTyped
<1>1. \A k \in DOMAIN s2c' : (k \in DOMAIN s2c /\ s2c'[k] = s2c[k]) \/ s2c'[k] = m
  BY <1>0
<1>2. ASSUME cpc # "done" PROVE Account(s2c', printed', delivered')
  <2>1. Account(s2c, printed, delivered) /\ printed \in Nat /\ printed' = printed
    BY <1>2 DEF Counted, cliVars
  <2>2. Bytes(m) = 0 \/ \A k \in DOMAIN s2c : s2c[k].t # "STATUS"
    BY <1>2 DEF Counted
  <2> QED
    BY <1>0, <2>1, <2>2, AccountPut
<1>3. ASSUME cpc # "done", NEW k \in DOMAIN s2c', s2c'[k].t = "STATUS" PROVE status_sent'
  BY <1>1, <1>3 DEF Counted
<1>4. Counted'
  BY <1>2, <1>3 DEF Counted, cliVars
<1>5. ASSUME status # NOSTATUS
      PROVE  /\ status_sent' /\ printed' = delivered'
             /\ cpc # "done" => \A k \in DOMAIN s2c' : Bytes(s2c'[k]) = 0
  <2>1. status_sent /\ printed = delivered /\ Bytes(m) = 0
    BY <1>5 DEF StatusLast
  <2>2. cpc # "done" => \A k \in DOMAIN s2c : Bytes(s2c[k]) = 0
    BY <1>5 DEF StatusLast
  <2> QED
    BY <1>1, <2>1, <2>2 DEF cliVars
<1>6. StatusLast'
  BY <1>5 DEF StatusLast, cliVars, Cli!Signals, Cli!SIGPIPE, Cli!SIGSEGV
<1> QED
  BY <1>4, <1>6
----------------------------------------------------------------------------
(* The conversation through a step of the server.                          *)

\* Where the two meet, Lockstep says all.
LEMMA ServerTalk ==
    ASSUME Talk, UNCHANGED cliVars, pc # "done",
           cpc # "done" /\ pc' # "done" /\ Lockstep => Lockstep',
           cpc # "done" /\ pc' = "done" => Inbox',
           cpc = "done" /\ pc' # "done" => Acceptable'
    PROVE  Talk'
<1>1. cpc' = cpc
  BY DEF cliVars
<1>2. cpc # "done" /\ pc' # "done" => Lockstep' /\ Inbox' /\ Acceptable'
  BY LockstepParts DEF Talk
<1> QED
  BY <1>1, <1>2 DEF Talk

\* What a server step leaves as it is.
LEMMA Untouched ==
    ASSUME UNCHANGED cliVars
    PROVE  /\ cpc' = cpc /\ requests' = requests /\ c_userauth' = c_userauth
           /\ (ClientPlace => ClientPlace')
           /\ (Tries /\ auth_attempts' \in 0..requests => Tries')
BY DEF cliVars, ClientPlace, Tries

\* The handshake: what the server reads is what it awaits.
LEMMA HandshakeTalks ==
    ASSUME ExecInv, ServerHandshake, UNCHANGED cliVars
    PROVE  pc' # "done" /\ QueuesTyped' /\ Talk' /\ Tries' /\ Counted' /\ StatusLast'
<1>0. /\ QueuesTyped /\ Talk /\ Tries /\ Counted /\ StatusLast /\ c2s # <<>>
      /\ pc \in HandshakePCs /\ pc # "done" /\ c2s' = Tail(c2s)
  BY DEF ExecInv, ServerHandshake
<1>1. /\ ~authenticated /\ opened = 0 /\ child = "none" /\ close_deadline = UNSET
      /\ ~status_sent /\ delivered \in Nat
  BY <1>0 DEF ExecInv, IndInv, HandshakeInv, OutputInv, TypeOK
<1>2. \/ pc = "ident" /\ c2s = <<P("IDENT")>>
      \/ pc = "kexinit" /\ c2s = <<P("KEXINIT")>>
      \/ pc = "ecdh" /\ c2s = <<P("ECDH_INIT")>>
      \/ pc = "newkeys" /\ c2s = <<P("NEWKEYS")>>
      \/ pc = "newkeys" /\ c2s = <<P("NEWKEYS"), P("SERVICE_USERAUTH")>>
  BY <1>0, <1>1, Heard DEF Talk, Running
<1>3. Head(c2s).t = Awaited
  BY <1>2, PacketFields, Joined DEF Awaited
<1>4. HandshakeStep /\ Replies(HandshakeReply)
  BY <1>3 DEF ServerHandshake
<1>5. /\ delivered' = delivered /\ status_sent' = status_sent /\ chunk' = chunk
      /\ child' = child /\ opened' = opened /\ close_deadline' = close_deadline
      /\ authenticated' = authenticated /\ auth_attempts' = auth_attempts
  BY <1>4 DEF HandshakeStep
<1>6. pc' = CASE pc = "ident" -> "kexinit" [] pc = "kexinit" -> "ecdh"
              [] pc = "ecdh" -> "newkeys" [] pc = "newkeys" -> "serve"
  BY <1>4 DEF HandshakeStep
<1>7. pc' # "done" /\ Tries' /\ chunk' <= CHUNK
  BY <1>0, <1>2, <1>5, <1>6, Untouched DEF Tries, Counted
<1>8. pc' = "serve" => Fresh'
  BY <1>1, <1>5 DEF Fresh, Login
<1>l. cpc # "done" => Lockstep
  BY <1>0 DEF Talk
<1>p. \A t \in Types : P(t) \in Answers
  BY PacketFields
<1>9. CASE pc \in {"ident", "kexinit"}
  <2>1. PICK t \in {"IDENT", "KEXINIT"} :
          /\ pc = "ident" => t = "IDENT"
          /\ pc = "kexinit" => t = "KEXINIT"
    BY <1>9
  <2>2. c2s = <<P(t)>> /\ Head(c2s).t = t /\ c2s' = <<>> /\ HandshakeReply = <<t>>
    BY <1>0, <1>2, <1>9, <2>1, PacketFields, Joined DEF HandshakeReply
  <2>3. s2c' = Append(s2c, P(t)) /\ P(t) \in Answers /\ Bytes(P(t)) = 0
    <3>1. t \in Types /\ t # "DATA"
      BY DEF Types
    <3>2. s2c' = Append(s2c, P(t))
      BY <1>0, <1>4, <2>2, <3>1, RepliesAre
    <3> QED
      BY <1>p, <3>1, <3>2, PacketFields DEF Bytes
  <2>4. ASSUME cpc # "done" PROVE Lockstep'
    <3>1. s2c = <<>> /\ cpc = pc
      BY <1>0, <1>9, <1>l, <2>1, <2>2, <2>4, Waiting
    <3>2. s2c' = <<P(t)>> /\ cpc' = cpc
      BY <2>3, <3>1, Untouched
    <3> QED
      BY <1>6, <1>9, <2>1, <2>2, <3>1, <3>2 DEF Lockstep, Told
  <2>5. Acceptable'
    BY <2>2 DEF Acceptable
  <2>6. Talk'
    BY <1>0, <1>7, <2>4, <2>5, ServerTalk
  <2>7. P(t).t # "STATUS"
    BY PacketFields
  <2>8. Counted' /\ StatusLast'
    <3>1. delivered' = delivered + Bytes(P(t)) /\ delivered \in Nat /\ ~status_sent
      BY <1>1, <1>5, <2>3
    <3> QED
      BY <1>0, <1>7, <2>3, <2>7, <3>1, SaidCounts
  <2>9. QueuesTyped'
    BY <1>0, <2>2, <2>3 DEF QueuesTyped
  <2> QED
    BY <1>7, <2>6, <2>8, <2>9
<1>10. CASE pc = "ecdh"
  <2>1. c2s = <<P("ECDH_INIT")>> /\ Head(c2s).t = "ECDH_INIT" /\ c2s' = <<>>
    BY <1>0, <1>2, <1>10, PacketFields, Joined
  <2> DEFINE a == P("ECDH_REPLY")
             b == P("NEWKEYS")
  <2>2. a \in Answers /\ b \in Answers /\ Bytes(a) = 0 /\ Bytes(b) = 0 /\ a.t # "STATUS"
        /\ b.t # "STATUS"
    BY <1>p, PacketFields DEF Types, Bytes
  <2>3. HandshakeReply = <<"ECDH_REPLY", "NEWKEYS">>
    BY <1>10 DEF HandshakeReply
  <2>4. s2c' = Append(Append(s2c, a), b)
    BY <1>0, <1>4, <2>3, RepliesAre DEF Types
  <2> HIDE DEF a, b
  <2>q. s2c \in Seq(Answers) /\ Append(s2c, a) \in Seq(Answers) /\ s2c' \in Seq(Answers)
    BY <1>0, <2>2, <2>4 DEF QueuesTyped
  <2>5. ASSUME cpc # "done" PROVE s2c = <<>> /\ cpc = "ecdh" /\ s2c' = <<a, b>>
    <3>1. s2c = <<>> /\ cpc = "ecdh"
      BY <1>0, <1>l, <2>1, <2>5, Waiting
    <3>2. Append(<<>>, a) = <<a>> /\ Append(<<a>>, b) = <<a, b>>
      <4>1. <<>> \in Seq(Answers) /\ <<a>> \in Seq(Answers)
        BY <2>2
      <4>2. Append(<<>>, a) = <<>> \o <<a>> /\ Append(<<a>>, b) = <<a>> \o <<b>>
        BY <2>2, <4>1, AppendIsConcat, Zenon
      <4>3. <<>> \o <<a>> = <<a>> /\ <<a>> \o <<b>> = <<a, b>>
        BY <2>2, <4>1, Joined, Zenon
      <4> QED
        BY <4>2, <4>3
    <3> QED
      BY <2>4, <3>1, <3>2
  <2>6. ASSUME cpc # "done" PROVE Lockstep'
    <3>1. cpc' = "ecdh" /\ pc' = "newkeys"
      BY <1>6, <1>10, <2>5, <2>6, Untouched
    <3> QED
      BY <2>1, <2>5, <2>6, <3>1 DEF Lockstep, Told, a, b
  <2>7. Acceptable'
    BY <2>1 DEF Acceptable
  <2>8. Talk'
    BY <1>0, <1>7, <2>6, <2>7, ServerTalk
  <2>9. ASSUME cpc # "done" PROVE Account(s2c', printed', delivered')
    <3>1. Account(s2c, printed, delivered) /\ printed \in Nat /\ printed' = printed
      BY <1>0, <2>9 DEF Counted, cliVars
    <3>2. Account(Append(s2c, a), printed, delivered + Bytes(a)) /\ delivered + Bytes(a) = delivered
      BY <1>1, <2>2, <2>q, <3>1, AccountPut
    <3>3. Account(s2c', printed, delivered + Bytes(b)) /\ delivered + Bytes(b) = delivered
      BY <1>1, <2>2, <2>4, <2>q, <3>1, <3>2, AccountPut
    <3> QED
      BY <1>5, <3>1, <3>3
  <2>10. ASSUME cpc # "done", NEW k \in DOMAIN s2c' PROVE s2c'[k].t # "STATUS"
    <3>1. s2c' = <<a, b>>
      BY <2>5, <2>10
    <3>2. s2c'[k] \in {a, b}
      BY <2>10, <3>1
    <3> QED
      BY <2>2, <3>2
  <2>11. Counted'
    BY <1>0, <1>7, <2>9, <2>10 DEF Counted, cliVars
  <2>12. StatusLast'
    BY <1>0, <1>1 DEF StatusLast, cliVars
  <2> QED
    BY <1>0, <1>7, <2>1, <2>8, <2>11, <2>12, <2>q DEF QueuesTyped
<1>11. CASE pc = "newkeys"
  <2>1. HandshakeReply = <<>>
    BY <1>11 DEF HandshakeReply
  <2>2. s2c' = s2c
    BY <1>0, <1>4, <2>1, RepliesAre
  <2>3. pc' = "serve" /\ Fresh'
    BY <1>6, <1>8, <1>11
  <2>4. CASE c2s = <<P("NEWKEYS")>>
    <3>1. c2s' = <<>>
      BY <1>0, <2>4, Joined
    <3>2. ASSUME cpc # "done" PROVE Lockstep'
      <4>1. \/ cpc = "newkeys" /\ s2c = <<P("NEWKEYS")>>
            \/ cpc \in {"verify", "creds"} /\ s2c = <<>>
            \/ cpc = "prompt" /\ s2c = <<>> /\ ~c_userauth
        BY <1>0, <1>l, <2>4, <3>2, Waiting
      <4>2. KeysSent'
        BY <2>3, <3>1 DEF KeysSent
      <4> QED
        BY <2>2, <4>1, <4>2, Untouched DEF Lockstep
    <3>3. Acceptable'
      BY <3>1 DEF Acceptable
    <3> QED
      BY <1>0, <1>5, <1>7, <2>2, <3>1, <3>2, <3>3, ServerTalk, QuietCounts DEF QueuesTyped
  <2>5. CASE c2s = <<P("NEWKEYS"), P("SERVICE_USERAUTH")>>
    <3>1. c2s' = <<P("SERVICE_USERAUTH")>> /\ c2s' \in Seq(Answers)
      BY <1>0, <1>p, <2>5, Joined DEF Types
    <3>2. ASSUME cpc # "done" PROVE Lockstep'
      BY <1>0, <1>l, <2>2, <2>3, <2>5, <3>1, <3>2, Waiting, Untouched DEF Lockstep, Asked
    <3>3. Acceptable'
      BY <2>3, <3>1 DEF Acceptable
    <3> QED
      BY <1>0, <1>5, <1>7, <2>2, <3>1, <3>2, <3>3, ServerTalk, QuietCounts DEF QueuesTyped
  <2> QED
    BY <1>2, <1>11, <2>4, <2>5
<1> QED
  BY <1>2, <1>9, <1>10, <1>11
\* Once the command runs, the client waits for it.
LEMMA Keepalives ==
    ASSUME Lockstep, Running
    PROVE  \/ cpc = "request" /\ c2s = <<>> /\ Begun(s2c)
           \/ cpc \in {"wait", "recv"} /\ Ignores(c2s) /\ Stream(s2c)
           \/ pc \in HandshakePCs
BY DEF Lockstep, Running, Asked, Told, KeysSent, Fresh, Ready, Known, Opened, Login

\* One request of the login is read and answered.
LEMMA OneAnswer ==
    ASSUME ExecInv, UNCHANGED cliVars, pc = "serve",
           NEW q, c2s = <<q>>, c2s' = Tail(c2s),
           NEW t \in Types \ {"DATA", "STATUS"}, s2c' = Append(s2c, P(t)),
           delivered' = delivered, status_sent' = status_sent, chunk' = chunk,
           auth_attempts' \in 0..requests,
           cpc # "done" => s2c = <<>>,
           cpc # "done" /\ c2s' = <<>> /\ s2c' = <<P(t)>> => IF pc' = "done" THEN Inbox' ELSE Lockstep'
    PROVE  QueuesTyped' /\ Talk' /\ Tries' /\ Counted' /\ StatusLast'
<1>0. QueuesTyped /\ Talk /\ Tries /\ Counted /\ StatusLast /\ delivered \in Nat /\ chunk <= CHUNK
  BY DEF ExecInv, IndInv, TypeOK, Counted
<1>1. P(t) \in Answers /\ Bytes(P(t)) = 0 /\ P(t).t # "STATUS"
  BY PacketFields DEF Bytes
<1>2. c2s' = <<>>
  BY Joined
<1>3. cpc # "done" => s2c' = <<P(t)>>
  <2>1. <<>> \in Seq(Answers) /\ <<P(t)>> \in Seq(Answers)
    BY <1>1
  <2>2. Append(<<>>, P(t)) = <<>> \o <<P(t)>>
    BY <1>1, <2>1, AppendIsConcat, Zenon
  <2>3. <<>> \o <<P(t)>> = <<P(t)>>
    BY <2>1, Joined, Zenon
  <2> QED
    BY <2>2, <2>3
<1>4. Talk'
  <2>1. Acceptable'
    BY <1>2 DEF Acceptable
  <2>2. cpc # "done" => IF pc' = "done" THEN Inbox' ELSE Lockstep'
    BY <1>2, <1>3
  <2> QED
    BY <1>0, <2>1, <2>2, ServerTalk
<1>5. Counted' /\ StatusLast'
  <2>1. delivered' = delivered + Bytes(P(t)) /\ (status_sent => status_sent' = TRUE)
    BY <1>0, <1>1 DEF ExecInv, IndInv, TypeOK, FlagsOK
  <2> QED
    BY <1>0, <1>1, <2>1, SaidCounts
<1>6. QueuesTyped'
  BY <1>0, <1>1, <1>2 DEF QueuesTyped
<1> QED
  BY <1>0, <1>4, <1>5, <1>6, Untouched

\* No packet of the client is refused: the connection ends on one only when
\* fork() fails.
LEMMA ServesTalks ==
    ASSUME ExecInv, ServerServes, UNCHANGED cliVars
    PROVE  /\ pc' = "done" => session_started'
           /\ QueuesTyped' /\ Talk' /\ Tries' /\ Counted' /\ StatusLast'
<1>0. QueuesTyped /\ Talk /\ Tries /\ Counted /\ StatusLast /\ Serving /\ pc = "serve"
  BY DEF ExecInv, ServerServes, Serving, ServeUserauthService, ServeConnectionService,
       ServeUserauth, ServeChannelOpen, ServeExec, ServeExecFails
<1>1. Acceptable /\ (cpc # "done" => Lockstep) /\ c2s # <<>> /\ c2s' = Tail(c2s)
  BY <1>0 DEF Talk, ServerServes, Hears
<1>2. /\ auth_attempts \in 0..requests /\ requests \in 0..3
      /\ cpc' = cpc /\ requests' = requests
  BY <1>0, Untouched DEF Tries
<1>3. CASE Hears("SERVICE_USERAUTH") /\ ServeUserauthService /\ Replies(<<"SERVICE_ACCEPT">>)
  <2>1. c2s = <<P("SERVICE_USERAUTH")>> /\ Fresh /\ Head(c2s).t = "SERVICE_USERAUTH"
    BY <1>0, <1>1, <1>3, Heard DEF Hears
  <2>2. s2c' = Append(s2c, P("SERVICE_ACCEPT"))
    BY <1>0, <1>3, RepliesAre DEF Types
  <2>3. Ready' /\ pc' = pc /\ delivered' = delivered /\ status_sent' = status_sent /\ chunk' = chunk
        /\ auth_attempts' = auth_attempts
    BY <1>3, <2>1 DEF ServeUserauthService, Fresh, Ready, Login
  <2>4. cpc # "done" => cpc = "svc_userauth" /\ s2c = <<>>
    BY <1>0, <1>1, <2>1, Waiting
  <2>5. cpc # "done" /\ c2s' = <<>> /\ s2c' = <<P("SERVICE_ACCEPT")>> => Lockstep'
    BY <1>2, <2>3, <2>4 DEF Lockstep, Told
  <2>6. "SERVICE_ACCEPT" \in Types \ {"DATA", "STATUS"}
    BY DEF Types
  <2>7. auth_attempts' \in 0..requests /\ pc' # "done"
    BY <1>0, <1>2, <2>3
  <2> QED
    BY <1>0, <1>1, <2>1, <2>2, <2>3, <2>4, <2>5, <2>6, <2>7, OneAnswer
<1>4. CASE /\ Hears("SERVICE_CONNECTION") /\ ServeConnectionService
           /\ Replies(IF authenticated THEN <<"SERVICE_ACCEPT">> ELSE <<>>)
  <2>1. c2s = <<P("SERVICE_CONNECTION")>> /\ Known /\ Head(c2s).t = "SERVICE_CONNECTION"
    BY <1>0, <1>1, <1>4, Heard DEF Hears
  <2>2. s2c' = Append(s2c, P("SERVICE_ACCEPT"))
    BY <1>0, <1>4, <2>1, RepliesAre DEF Types, Known
  <2>3. Known' /\ pc' = pc /\ delivered' = delivered /\ status_sent' = status_sent /\ chunk' = chunk
        /\ auth_attempts' = auth_attempts
    BY <1>4, <2>1 DEF ServeConnectionService, Known, Login
  <2>4. cpc # "done" => cpc = "svc_conn" /\ s2c = <<>>
    BY <1>0, <1>1, <2>1, Waiting
  <2>5. cpc # "done" /\ c2s' = <<>> /\ s2c' = <<P("SERVICE_ACCEPT")>> => Lockstep'
    BY <1>2, <2>3, <2>4 DEF Lockstep, Told
  <2>6. "SERVICE_ACCEPT" \in Types \ {"DATA", "STATUS"}
    BY DEF Types
  <2>7. auth_attempts' \in 0..requests /\ pc' # "done"
    BY <1>0, <1>2, <2>3
  <2> QED
    BY <1>0, <1>1, <2>1, <2>2, <2>3, <2>4, <2>5, <2>6, <2>7, OneAnswer
<1>5. CASE /\ Hears("USERAUTH_REQUEST")
           /\ \E ok \in IF cpc = "auth_key" THEN BOOLEAN ELSE {FALSE} :
                /\ ServeUserauth(ok)
                /\ Replies(IF auth_attempts' = auth_attempts THEN <<>>
                           ELSE IF ok THEN <<"USERAUTH_SUCCESS">>
                           ELSE <<"USERAUTH_FAILURE">>)
  <2>1. /\ c2s = <<P("USERAUTH_REQUEST")>> /\ Ready /\ Head(c2s).t = "USERAUTH_REQUEST"
        /\ auth_attempts < requests
    BY <1>0, <1>1, <1>5, Heard DEF Hears
  <2>2. PICK ok \in BOOLEAN :
          /\ ServeUserauth(ok)
          /\ Replies(IF auth_attempts' = auth_attempts THEN <<>>
                     ELSE IF ok THEN <<"USERAUTH_SUCCESS">> ELSE <<"USERAUTH_FAILURE">>)
    BY <1>5
  <2>3. ~(auth_attempts >= MaxAttempts) /\ auth_attempts \in Nat
    BY <1>2, <2>1
  <2>4. UserauthCounted(auth_attempts + 1, ok)
    BY <2>1, <2>2, <2>3 DEF ServeUserauth, Ready, Fresh
  <2>5. auth_attempts' = auth_attempts + 1 /\ auth_attempts' # auth_attempts
    BY <2>3, <2>4 DEF UserauthCounted
  <2> DEFINE t == IF ok THEN "USERAUTH_SUCCESS" ELSE "USERAUTH_FAILURE"
  <2>6. t \in Types \ {"DATA", "STATUS"} /\ t \in Types
    BY DEF Types
  <2>7. s2c' = Append(s2c, P(t))
    <3>1. Replies(<<t>>)
      BY <2>2, <2>5
    <3> HIDE DEF t
    <3> QED
      BY <1>0, <2>6, <3>1, RepliesAre
  <2>8. pc' = pc /\ delivered' = delivered /\ status_sent' = status_sent /\ chunk' = chunk
        /\ (IF ok THEN Known' ELSE Ready')
    BY <2>1, <2>4 DEF UserauthCounted, Ready, Fresh, Login, Known
  <2>9. cpc # "done" => cpc \in {"auth_key", "auth_password"} /\ s2c = <<>>
    BY <1>0, <1>1, <2>1, Waiting
  <2>10. cpc # "done" /\ c2s' = <<>> /\ s2c' = <<P(t)>> => Lockstep'
    BY <1>2, <2>8, <2>9 DEF Lockstep, Told
  <2>11. auth_attempts' \in 0..requests /\ pc' # "done"
    BY <1>0, <1>2, <2>1, <2>5, <2>8
  <2> HIDE DEF t
  <2> QED
    BY <1>0, <1>1, <2>1, <2>6, <2>7, <2>8, <2>9, <2>10, <2>11, OneAnswer
<1>6. CASE /\ Hears("OPEN") /\ ServeChannelOpen(Head(c2s).n)
           /\ Replies(IF opened' > opened THEN <<"OPEN_CONFIRMATION">> ELSE <<>>)
  <2>1. c2s = <<OPEN>> /\ Known /\ Head(c2s).t = "OPEN"
    BY <1>0, <1>1, <1>6, Heard DEF Hears
  <2>2. ~OpenRefused /\ opened = 0
    BY <2>1 DEF OpenRefused, Known, Login, ExecInv, IndInv, ChannelInv
  <2>3. opened' = 1 /\ opened' > opened
    BY <1>6, <2>2 DEF ServeChannelOpen
  <2>4. s2c' = Append(s2c, P("OPEN_CONFIRMATION"))
    BY <1>0, <1>6, <2>3, RepliesAre DEF Types
  <2>5. Opened' /\ pc' = pc /\ delivered' = delivered /\ status_sent' = status_sent
        /\ chunk' = chunk /\ auth_attempts' = auth_attempts
    BY <1>6, <2>1, <2>2 DEF ServeChannelOpen, Known, Login, Opened
  <2>6. cpc # "done" => cpc = "open" /\ s2c = <<>>
    BY <1>0, <1>1, <2>1, Waiting
  <2>7. cpc # "done" /\ c2s' = <<>> /\ s2c' = <<P("OPEN_CONFIRMATION")>> => Lockstep'
    BY <1>2, <2>5, <2>6 DEF Lockstep, Told
  <2>8. "OPEN_CONFIRMATION" \in Types \ {"DATA", "STATUS"}
    BY DEF Types
  <2>9. auth_attempts' \in 0..requests /\ pc' # "done"
    BY <1>0, <1>2, <2>5
  <2> QED
    BY <1>0, <1>1, <2>1, <2>4, <2>5, <2>6, <2>7, <2>8, <2>9, OneAnswer
<1>7. CASE Hears("START") /\ (ServeExec \/ ServeExecFails) /\ Replies(<<"CHANNEL_SUCCESS">>)
  <2>1. c2s = <<P("START")>> /\ Opened /\ Head(c2s).t = "START"
    BY <1>0, <1>1, <1>7, Heard DEF Hears
  <2>2. s2c' = Append(s2c, P("CHANNEL_SUCCESS"))
    BY <1>0, <1>7, RepliesAre DEF Types
  <2>3. delivered' = delivered /\ status_sent' = status_sent /\ chunk' = chunk
        /\ auth_attempts' = auth_attempts /\ session_started' = TRUE
    BY <1>7 DEF ServeExec, ServeExecFails, srv_run_session_unix
  <2>4. pc' = "done" \/ Running'
    BY <1>7 DEF ServeExec, ServeExecFails, srv_run_session_unix, Running
  <2>5. cpc # "done" => cpc = "request" /\ s2c = <<>>
    BY <1>0, <1>1, <2>1, Waiting
  <2>6. Begun(<<P("CHANNEL_SUCCESS")>>)
    BY Joined DEF Begun, Stream
  <2>7. cpc # "done" /\ c2s' = <<>> /\ s2c' = <<P("CHANNEL_SUCCESS")>>
          => IF pc' = "done" THEN Inbox' ELSE Lockstep'
    BY <1>2, <2>4, <2>5, <2>6 DEF Lockstep, Inbox
  <2>8. "CHANNEL_SUCCESS" \in Types \ {"DATA", "STATUS"}
    BY DEF Types
  <2>9. auth_attempts' \in 0..requests
    BY <1>2, <2>3
  <2> QED
    BY <1>0, <1>1, <2>1, <2>2, <2>3, <2>5, <2>7, <2>8, <2>9, OneAnswer
<1>8. CASE Hears("IGNORE") /\ Replies(<<>>) /\ UNCHANGED vars
  <2>1. Ignores(c2s) /\ Running
    BY <1>0, <1>1, <1>8, Heard DEF Hears
  <2>2. /\ s2c' = s2c /\ pc' = "serve" /\ Running' /\ delivered' = delivered
        /\ status_sent' = status_sent /\ chunk' = chunk /\ auth_attempts' = auth_attempts
    BY <1>0, <1>8, <2>1, RepliesAre DEF vars, Running
  <2>3. Ignores(Tail(c2s)) /\ Tail(c2s) \in Seq(Answers)
    <3>1. c2s \in Seq(Answers) /\ c2s # <<>>
      BY <1>0, <1>1 DEF QueuesTyped
    <3>2. \A k \in DOMAIN Tail(c2s) : k + 1 \in DOMAIN c2s /\ Tail(c2s)[k] = c2s[k + 1]
      BY <3>1
    <3> QED
      BY <2>1, <3>1, <3>2 DEF Ignores
  <2>4. cpc # "done" => cpc \in {"wait", "recv"} /\ Stream(s2c)
    BY <1>0, <1>1, <1>8, <2>1, Keepalives DEF Hears
  <2>5. cpc # "done" => Lockstep'
    BY <1>1, <1>2, <2>2, <2>3, <2>4 DEF Lockstep
  <2>6. Acceptable'
    BY <1>1, <2>2, <2>3 DEF Acceptable
  <2>7. Talk'
    BY <1>0, <2>2, <2>5, <2>6, ServerTalk
  <2>8. Counted' /\ StatusLast'
    BY <1>0, <2>2, QuietCounts DEF Counted
  <2> QED
    BY <1>0, <1>1, <1>2, <2>2, <2>3, <2>7, <2>8, Untouched DEF QueuesTyped
<1> QED
  BY <1>3, <1>4, <1>5, <1>6, <1>7, <1>8 DEF ServerServes
----------------------------------------------------------------------------
(* The session.                                                            *)

\* One packet of the session more.
LEMMA StreamMore ==
    ASSUME NEW q \in Seq(Answers), Stream(q), NEW m \in Answers,
           \/ m \in {P("EOF"), P("CLOSE"), [t |-> "STATUS", n |-> ExitCode]}
           \/ m.t = "DATA" /\ m.n \in 1..CHUNK
    PROVE  Stream(Append(q, m))
<1>1. \A k \in DOMAIN Append(q, m) :
        (k \in DOMAIN q /\ Append(q, m)[k] = q[k]) \/ Append(q, m)[k] = m
  OBVIOUS
<1> QED
  BY <1>1 DEF Stream

\* The same behind the answer to the START.
LEMMA BegunMore ==
    ASSUME NEW q \in Seq(Answers), Begun(q), NEW m \in Answers,
           \/ m \in {P("EOF"), P("CLOSE"), [t |-> "STATUS", n |-> ExitCode]}
           \/ m.t = "DATA" /\ m.n \in 1..CHUNK
    PROVE  Begun(Append(q, m))
<1>1. q # <<>> /\ Head(q) = P("CHANNEL_SUCCESS") /\ Stream(Tail(q)) /\ Tail(q) \in Seq(Answers)
  BY DEF Begun
<1>2. Append(q, m) # <<>> /\ Head(Append(q, m)) = Head(q) /\ Append(q, m) \in Seq(Answers)
  BY <1>1
<1>3. Tail(Append(q, m)) = Append(Tail(q), m)
  <2> DEFINE a == Tail(Append(q, m))
             b == Append(Tail(q), m)
  <2>1. a \in Seq(Answers) /\ b \in Seq(Answers) /\ Len(a) = Len(q) /\ Len(b) = Len(q)
    BY <1>1, <1>2
  <2>2. ASSUME NEW k \in 1..Len(q) PROVE a[k] = b[k]
    <3>1. a[k] = Append(q, m)[k + 1]
      BY <1>1, <1>2
    <3>2. CASE k = Len(q)
      BY <1>1, <3>1, <3>2
    <3>3. CASE k # Len(q)
      BY <1>1, <3>1, <3>3
    <3> QED
      BY <3>2, <3>3
  <2> HIDE DEF a, b
  <2>3. a = b
    BY <2>1, <2>2, SeqEqual
  <2> QED
    BY <2>3 DEF a, b
<1> QED
  BY <1>1, <1>2, <1>3, StreamMore DEF Begun

\* Behind the fork() the conversation goes on with a packet of the session more,
\* or a keepalive less.
LEMMA SessionTalk ==
    ASSUME QueuesTyped, Talk, UNCHANGED cliVars, pc # "done", pc \notin HandshakePCs,
           Running, Running',
           \/ c2s' = c2s
           \/ c2s # <<>> /\ c2s' = Tail(c2s),
           \/ s2c' = s2c
           \/ \E m \in Answers :
                /\ s2c' = Append(s2c, m)
                /\ \/ m \in {P("EOF"), P("CLOSE"), [t |-> "STATUS", n |-> ExitCode]}
                   \/ m.t = "DATA" /\ m.n \in 1..CHUNK
    PROVE  Talk'
<1>0. c2s \in Seq(Answers) /\ s2c \in Seq(Answers) /\ Acceptable /\ cpc' = cpc
  BY Untouched DEF QueuesTyped, Talk
<1>1. Ignores(c2s) => Ignores(c2s')
  <2>1. CASE c2s' = c2s
    BY <2>1
  <2>2. CASE c2s # <<>> /\ c2s' = Tail(c2s)
    <3>1. \A k \in DOMAIN Tail(c2s) : k + 1 \in DOMAIN c2s /\ Tail(c2s)[k] = c2s[k + 1]
      BY <1>0, <2>2
    <3> QED
      BY <2>2, <3>1 DEF Ignores
  <2> QED
    BY <2>1, <2>2
<1>2. Stream(s2c) => Stream(s2c')
  BY <1>0, StreamMore
<1>3. Begun(s2c) => Begun(s2c')
  BY <1>0, BegunMore
<1>4. cpc # "done" => /\ \/ cpc = "request" /\ c2s' = <<>> /\ Begun(s2c')
                         \/ cpc \in {"wait", "recv"} /\ Ignores(c2s') /\ Stream(s2c')
  BY <1>1, <1>2, <1>3, Keepalives DEF Talk
<1>5. cpc # "done" => Lockstep' /\ Inbox'
  BY <1>0, <1>4 DEF Lockstep, Inbox
<1>6. Ignores(c2s)
  <2>1. Ignores(<<>>)
    BY DEF Ignores
  <2> QED
    BY <1>0, <2>1 DEF Acceptable, Running, Fresh, Ready, Known, Opened, Login
<1>7. Acceptable'
  BY <1>1, <1>6 DEF Acceptable
<1> QED
  BY <1>5, <1>7, ServerTalk

\* The packets of a step of the session.
Silent == s2c' = s2c /\ delivered' = delivered /\ status_sent' = status_sent
SaysEnd == \E m \in {P("EOF"), P("CLOSE")} :
    s2c' = Append(s2c, m) /\ delivered' = delivered /\ status_sent' = status_sent
SaysStatus ==
    /\ s2c' = Append(s2c, [t |-> "STATUS", n |-> ExitCode])
    /\ delivered' = delivered /\ status_sent' = TRUE
SaysData ==
    /\ chunk \in 1..CHUNK /\ ~status_sent
    /\ s2c' = Append(s2c, [t |-> "DATA", n |-> chunk])
    /\ delivered' = delivered + chunk /\ status_sent' = status_sent

\* A step of the session sends at most one packet, data only before the status.
LEMMA Emits ==
    ASSUME ExecInv, Poll(TRUE) \/ SessionLocal, s2c' = s2c \o Emitted
    PROVE  /\ pc \in LoopPCs \cup TeardownPCs /\ child # "none" /\ child' # "none"
           /\ chunk' <= CHUNK
           /\ Silent \/ SaysEnd \/ SaysStatus \/ SaysData
<1>0. /\ s2c \in Seq(Answers) /\ delivered \in Nat /\ closes \in Nat /\ chunk \in Nat
      /\ chunk <= CHUNK /\ pipe \in Nat /\ remote_window_size \in Nat
      /\ status_sent \in BOOLEAN /\ eof_sent \in BOOLEAN
  BY DEF ExecInv, IndInv, TypeOK, FlagsOK, QueuesTyped, Counted
<1>c. pc \in LoopPCs \cup TeardownPCs => child # "none"
  BY DEF ExecInv, IndInv, ChildInv
<1>e. /\ P("EOF") \in Answers /\ P("CLOSE") \in Answers
      /\ [t |-> "STATUS", n |-> ExitCode] \in Answers
      /\ [t |-> "DATA", n |-> chunk] \in Answers
  <2>1. \A t \in Types, k \in Nat : [t |-> t, n |-> k] \in Answers
    BY DEF Answers
  <2> QED
    BY <1>0, <2>1, PacketFields DEF Types
<1>j. ASSUME NEW m \in Answers
      PROVE  /\ s2c \o (<<>> \o <<>> \o <<>> \o <<>>) = s2c
             /\ s2c \o (<<m>> \o <<>> \o <<>> \o <<>>) = Append(s2c, m)
             /\ s2c \o (<<>> \o <<m>> \o <<>> \o <<>>) = Append(s2c, m)
             /\ s2c \o (<<>> \o <<>> \o <<m>> \o <<>>) = Append(s2c, m)
             /\ s2c \o (<<>> \o <<>> \o <<>> \o <<m>>) = Append(s2c, m)
  <2>1. <<m>> \in Seq(Answers) /\ <<>> \in Seq(Answers)
    OBVIOUS
  <2>2. <<>> \o <<>> = <<>> /\ <<m>> \o <<>> = <<m>> /\ <<>> \o <<m>> = <<m>> /\ s2c \o <<>> = s2c
    BY <1>0, <2>1, Joined
  <2>3. s2c \o <<m>> = Append(s2c, m)
    BY <1>0, AppendIsConcat
  <2> QED
    BY <2>2, <2>3
<1>s. ASSUME delivered' = delivered, status_sent' = status_sent, eof_sent' = eof_sent,
             closes' = closes
      PROVE  Silent
  <2>1. Emitted = <<>> \o <<>> \o <<>> \o <<>>
    BY <1>0, <1>s DEF Emitted
  <2> QED
    BY <1>e, <1>j, <1>s, <2>1 DEF Silent
<1>1. CASE \/ Poll(TRUE) \/ PollOverLimit \/ Poll(FALSE) \/ PollTick \/ PollHangup
           \/ ReadEof \/ NoOutput \/ SendCompletionFails
  <2>1. /\ pc \in LoopPCs /\ child' = child /\ chunk' = chunk
        /\ delivered' = delivered /\ status_sent' = status_sent /\ eof_sent' = eof_sent
        /\ closes' = closes
    BY <1>1 DEF Poll, PollOverLimit, PollTick, PollHangup, ReadEof, NoOutput, SendCompletionFails
  <2> QED
    BY <1>0, <1>c, <1>s, <2>1
<1>2. CASE ReadOutput
  <2>1. /\ pc \in LoopPCs /\ child' = child /\ chunk' = Minimum(pipe, Cap)
        /\ delivered' = delivered /\ status_sent' = status_sent /\ eof_sent' = eof_sent
        /\ closes' = closes
    BY <1>2 DEF ReadOutput
  <2>2. chunk' <= CHUNK
    BY <1>0, <2>1 DEF Minimum, Cap
  <2> QED
    BY <1>c, <1>s, <2>1, <2>2
<1>3. CASE SendOutput
  <2>1. /\ pc = "sendout" /\ child' = child /\ chunk' = 0 /\ delivered' = delivered + chunk
        /\ status_sent' = status_sent /\ eof_sent' = eof_sent /\ closes' = closes
    BY <1>3 DEF SendOutput
  <2>2. ~status_sent /\ chunk' <= CHUNK
    BY <2>1 DEF ExecInv, IndInv, WireInv
  <2>3. CASE chunk = 0
    BY <1>0, <1>c, <1>s, <2>1, <2>2, <2>3
  <2>4. CASE chunk # 0
    <3>1. delivered' > delivered /\ delivered' - delivered = chunk /\ chunk \in 1..CHUNK
      BY <1>0, <2>1, <2>4
    <3>2. Emitted = <<[t |-> "DATA", n |-> chunk]>> \o <<>> \o <<>> \o <<>>
      <4>1. ~(closes' > closes)
        BY <1>0, <2>1
      <4> QED
        BY <2>1, <3>1, <4>1, Zenon DEF Emitted
    <3>3. s2c' = Append(s2c, [t |-> "DATA", n |-> chunk])
      BY <1>e, <1>j, <3>2
    <3> QED
      BY <1>c, <2>1, <2>2, <3>1, <3>3 DEF SaysData
  <2> QED
    BY <2>3, <2>4
<1>4. CASE SendOutputFails \/ Reap
  <2>1. /\ pc \in LoopPCs /\ (child' = child \/ child' = "reaped") /\ (chunk' = chunk \/ chunk' = 0)
        /\ delivered' = delivered /\ status_sent' = status_sent /\ eof_sent' = eof_sent
        /\ closes' = closes
    BY <1>4 DEF SendOutputFails, Reap
  <2> QED
    BY <1>0, <1>c, <1>s, <2>1
<1>5. CASE SendStatus
  <2>1. /\ pc = "status" /\ child' = child /\ chunk' = chunk /\ delivered' = delivered
        /\ status_sent' = TRUE /\ eof_sent' = eof_sent /\ closes' = closes
    BY <1>5 DEF SendStatus
  <2>2. ~status_sent
    BY <2>1 DEF ExecInv, IndInv, WireInv
  <2>3. Emitted = <<>> \o <<[t |-> "STATUS", n |-> ExitCode]>> \o <<>> \o <<>>
    <3>1. ~(closes' > closes) /\ ~(delivered' > delivered)
      BY <1>0, <2>1
    <3>2. status_sent' # status_sent
      BY <2>1, <2>2, Zenon
    <3> QED
      BY <2>1, <3>1, <3>2, Zenon DEF Emitted
  <2>4. SaysStatus
    BY <1>e, <1>j, <2>1, <2>3 DEF SaysStatus
  <2> QED
    BY <1>0, <1>c, <2>1, <2>4
<1>6. CASE SendEof
  <2>1. /\ pc = "eof" /\ child' = child /\ chunk' = chunk /\ delivered' = delivered
        /\ status_sent' = status_sent /\ eof_sent' = TRUE /\ closes' = closes
    BY <1>6 DEF SendEof
  <2>2. ~eof_sent
    BY <2>1 DEF ExecInv, IndInv, WireInv
  <2>3. Emitted = <<>> \o <<>> \o <<P("EOF")>> \o <<>>
    <3>1. ~(closes' > closes) /\ ~(delivered' > delivered)
      BY <1>0, <2>1
    <3>2. eof_sent' # eof_sent
      BY <2>1, <2>2, Zenon
    <3> QED
      BY <2>1, <3>1, <3>2, Zenon DEF Emitted, P
  <2>4. SaysEnd
    BY <1>e, <1>j, <2>1, <2>3 DEF SaysEnd
  <2> QED
    BY <1>0, <1>c, <2>1, <2>4
<1>7. CASE SendClose
  <2>1. /\ pc = "close" /\ child' = child /\ chunk' = 0 /\ delivered' = delivered
        /\ status_sent' = status_sent /\ eof_sent' = eof_sent /\ closes' = closes + 1
    BY <1>7 DEF SendClose, LocalsEnd
  <2>2. Emitted = <<>> \o <<>> \o <<>> \o <<P("CLOSE")>>
    <3>1. closes' > closes /\ ~(delivered' > delivered)
      BY <1>0, <2>1
    <3> QED
      BY <2>1, <3>1, Zenon DEF Emitted, P
  <2>3. SaysEnd
    BY <1>e, <1>j, <2>1, <2>2 DEF SaysEnd
  <2> QED
    BY <1>0, <1>c, <2>1, <2>3
<1>8. CASE TeardownReaped \/ TeardownKill \/ TeardownWaited
           \/ \E dies \in BOOLEAN : TeardownTerm(dies)
  <2>1. /\ pc \in TeardownPCs /\ (child' = child \/ child' \in {"zombie", "reaped"})
        /\ (chunk' = chunk \/ chunk' = 0)
        /\ delivered' = delivered /\ status_sent' = status_sent /\ eof_sent' = eof_sent
        /\ closes' = closes
    BY <1>8 DEF TeardownReaped, TeardownKill, TeardownWaited, TeardownTerm, Return, LocalsEnd
  <2> QED
    BY <1>0, <1>c, <1>s, <2>1
<1> QED
  BY <1>1, <1>2, <1>3, <1>4, <1>5, <1>6, <1>7, <1>8 DEF SessionLocal
\* The session reads its child's output and sends.
LEMMA RunsTalks ==
    ASSUME ExecInv, ServerRuns, UNCHANGED cliVars
    PROVE  QueuesTyped' /\ Talk' /\ Tries' /\ Counted' /\ StatusLast'
<1>0. /\ QueuesTyped /\ Talk /\ Tries /\ Counted /\ StatusLast /\ delivered \in Nat
      /\ status_sent \in BOOLEAN /\ c2s' = c2s /\ auth_attempts' = auth_attempts
  BY DEF ExecInv, IndInv, TypeOK, FlagsOK, ServerRuns
<1>1. /\ pc \in LoopPCs \cup TeardownPCs /\ Running /\ Running' /\ chunk' <= CHUNK
      /\ Silent \/ SaysEnd \/ SaysStatus \/ SaysData
  BY Emits DEF ServerRuns, Running
<1>2. Tries'
  BY <1>0, Untouched DEF Tries
<1>3. CASE Silent
  <2>1. Talk'
    BY <1>0, <1>1, <1>3, SessionTalk DEF Silent
  <2>2. Counted' /\ StatusLast'
    BY <1>0, <1>1, <1>3, QuietCounts DEF Silent
  <2> QED
    BY <1>0, <1>2, <1>3, <2>1, <2>2 DEF Silent, QueuesTyped
<1>4. CASE SaysEnd \/ SaysStatus \/ SaysData
  <2>0. \A t \in Types, k \in Nat : [t |-> t, n |-> k] \in Answers
    BY DEF Answers
  <2>1. PICK m \in Answers :
          /\ s2c' = Append(s2c, m) /\ delivered' = delivered + Bytes(m)
          /\ \/ m \in {P("EOF"), P("CLOSE"), [t |-> "STATUS", n |-> ExitCode]}
             \/ m.t = "DATA" /\ m.n \in 1..CHUNK
          /\ status_sent => status_sent' = TRUE /\ Bytes(m) = 0
          /\ m.t = "STATUS" => status_sent' = TRUE
    <3>1. CASE SaysEnd
      <4>1. PICK m \in {P("EOF"), P("CLOSE")} :
              s2c' = Append(s2c, m) /\ delivered' = delivered /\ status_sent' = status_sent
        BY <3>1 DEF SaysEnd
      <4>2. m \in Answers /\ Bytes(m) = 0 /\ m.t # "STATUS"
        BY PacketFields DEF Types, Bytes
      <4>3. delivered' = delivered + Bytes(m)
        BY <1>0, <4>1, <4>2
      <4> QED
        BY <1>0, <4>1, <4>2, <4>3
    <3>2. CASE SaysStatus
      <4> DEFINE m == [t |-> "STATUS", n |-> ExitCode]
      <4>1. m \in Answers /\ Bytes(m) = 0
        BY <2>0 DEF Types, Bytes
      <4>2. s2c' = Append(s2c, m) /\ delivered' = delivered + Bytes(m) /\ status_sent' = TRUE
        BY <1>0, <3>2, <4>1 DEF SaysStatus
      <4> QED
        BY <4>1, <4>2
    <3>3. CASE SaysData
      <4> DEFINE m == [t |-> "DATA", n |-> chunk]
      <4>1. m \in Answers /\ Bytes(m) = chunk /\ m.t = "DATA" /\ m.n \in 1..CHUNK
        BY <2>0, <3>3 DEF Types, Bytes, SaysData
      <4>2. s2c' = Append(s2c, m) /\ delivered' = delivered + Bytes(m) /\ ~status_sent
        BY <3>3, <4>1 DEF SaysData
      <4> QED
        BY <4>1, <4>2
    <3> QED
      BY <1>4, <3>1, <3>2, <3>3
  <2>2. Talk'
    BY <1>0, <1>1, <2>1, SessionTalk
  <2>3. Counted' /\ StatusLast'
    BY <1>0, <1>1, <2>1, SaidCounts
  <2>4. QueuesTyped'
    BY <1>0, <2>1 DEF QueuesTyped
  <2> QED
    BY <1>2, <2>2, <2>3, <2>4
<1> QED
  BY <1>1, <1>3, <1>4

\* A step that sends nothing.
LEMMA QuietTalks ==
    ASSUME ExecInv, UNCHANGED cliVars, s2c' = s2c, delivered' = delivered,
           status_sent' = status_sent, chunk' = chunk, auth_attempts' = auth_attempts,
           c2s' \in Seq(Answers), Talk'
    PROVE  QueuesTyped' /\ Talk' /\ Tries' /\ Counted' /\ StatusLast'
<1>1. QueuesTyped /\ Tries /\ Counted /\ StatusLast /\ chunk' <= CHUNK
  BY DEF ExecInv, Counted
<1>2. Counted' /\ StatusLast'
  BY <1>1, QuietCounts
<1>3. Tries'
  BY <1>1, Untouched DEF Tries
<1> QED
  BY <1>1, <1>2, <1>3 DEF QueuesTyped

\* The server gives up the connection.
LEMMA StopsTalks ==
    ASSUME ExecInv, ServerStops, UNCHANGED cliVars
    PROVE  QueuesTyped' /\ Talk' /\ Tries' /\ Counted' /\ StatusLast'
<1>1. /\ pc' = "done" /\ c2s' = c2s /\ s2c' = s2c /\ delivered' = delivered
      /\ status_sent' = status_sent /\ chunk' = chunk /\ auth_attempts' = auth_attempts
  BY DEF ServerStops, HandshakeFails, ReceiveFails, CloseWaitEnds, Finish
<1>2. Talk'
  BY <1>1 DEF ExecInv, Talk, Inbox, cliVars
<1> QED
  BY <1>1, <1>2, QuietTalks DEF ExecInv, QueuesTyped

\* A keepalive is read, recv() breaks, or the session idles out.
LEMMA SessionQuiet ==
    ASSUME ExecInv, ServerReceives \/ ServerIdles, UNCHANGED cliVars
    PROVE  /\ pc' # "done"
           /\ QueuesTyped' /\ Talk' /\ Tries' /\ Counted' /\ StatusLast'
<1>1. /\ pc \in {"recv", "poll"} /\ pc' \in {"output", "teardown"} /\ child' = child /\ s2c' = s2c
      /\ delivered' = delivered /\ status_sent' = status_sent /\ chunk' = chunk
      /\ auth_attempts' = auth_attempts
      /\ c2s' = c2s \/ (c2s # <<>> /\ c2s' = Tail(c2s))
  BY DEF ServerReceives, ServerIdles, Hears, RecvIgnored, Receiving, Dispatched, RecvBreaks,
       Break, PollIdle
<1>2. Running /\ Running'
  BY <1>1 DEF ExecInv, IndInv, ChildInv, Running
<1>3. Talk'
  BY <1>1, <1>2, SessionTalk DEF ExecInv
<1>4. c2s' \in Seq(Answers)
  BY <1>1 DEF ExecInv, QueuesTyped
<1> QED
  BY <1>1, <1>3, <1>4, QuietTalks

\* The command writes, closes its output or exits.
LEMMA CommandTalks ==
    ASSUME ExecInv, CommandRuns, UNCHANGED cliVars
    PROVE  QueuesTyped' /\ Talk' /\ Tries' /\ Counted' /\ StatusLast'
<1>1. /\ pc' = pc /\ c2s' = c2s /\ s2c' = s2c /\ delivered' = delivered
      /\ status_sent' = status_sent /\ chunk' = chunk /\ auth_attempts' = auth_attempts
      /\ (child \in {"starting", "running"} \/ out_open)
      /\ (child' = child \/ child' \in {"running", "zombie"})
  BY DEF CommandRuns, Child, ChildSetsid, ChildWrite, ChildCloseOutput, ChildExit
<1>2. Running /\ Running'
  BY <1>1 DEF ExecInv, IndInv, OutputInv, Running
<1>3. CASE pc = "done"
  <2>1. Talk'
    BY <1>1, <1>3 DEF ExecInv, Talk, Inbox, cliVars
  <2> QED
    BY <1>1, <2>1, QuietTalks DEF ExecInv, QueuesTyped
<1>4. CASE pc # "done"
  <2>1. pc \notin HandshakePCs
    BY <1>2 DEF ExecInv, IndInv, HandshakeInv, Running
  <2>2. Talk'
    BY <1>1, <1>2, <1>4, <2>1, SessionTalk DEF ExecInv
  <2> QED
    BY <1>1, <2>2, QuietTalks DEF ExecInv, QueuesTyped
<1> QED
  BY <1>3, <1>4

\* The close wait goes on.
LEMMA DrainsTalks ==
    ASSUME ExecInv, Drains
    PROVE  QueuesTyped' /\ Talk' /\ Tries' /\ Counted' /\ StatusLast'
<1>1. /\ pc' = pc /\ pc # "done" /\ c2s' = c2s /\ s2c' = s2c /\ delivered' = delivered
      /\ status_sent' = status_sent /\ chunk' = chunk /\ auth_attempts' = auth_attempts
      /\ child' = child /\ close_deadline \in 1..CLOSEWAIT /\ UNCHANGED cliVars
  BY DEF Drains, CloseWaitTick
<1>2. close_deadline # UNSET
  BY <1>1
<1>3. pc = "serve" /\ ~channel_open /\ ~Fresh /\ ~Ready /\ ~Known /\ ~Opened
  <2>1. pc = "serve" /\ ~channel_open
    BY <1>1, <1>2 DEF ExecInv, IndInv, ChannelInv
  <2> QED
    BY <1>2, <2>1 DEF Fresh, Ready, Known, Opened, Login
<1>4. CASE Running
  <2>1. Talk'
    BY <1>1, <1>3, <1>4, SessionTalk DEF ExecInv, Running
  <2> QED
    BY <1>1, <2>1, QuietTalks DEF ExecInv, QueuesTyped
<1>5. CASE ~Running
  <2>1. c2s = <<>>
    BY <1>1, <1>3, <1>5 DEF ExecInv, Talk, Acceptable
  <2>2. cpc = "done"
    BY <1>1, <1>3, <1>5 DEF ExecInv, Talk, Lockstep, KeysSent, Asked, Told
  <2>3. cpc' = "done" /\ Acceptable'
    BY <1>1, <2>1, <2>2, Untouched DEF Acceptable
  <2>4. Talk'
    BY <2>3 DEF Talk
  <2> QED
    BY <1>1, <2>4, QuietTalks DEF ExecInv, QueuesTyped
<1> QED
  BY <1>4, <1>5

----------------------------------------------------------------------------
(* The invariant, and the theorems.                                        *)

\* The invariant holds at the start,
LEMMA InitExecInv == SysInit => ExecInv
<1> SUFFICES ASSUME SysInit PROVE ExecInv
  OBVIOUS
<1>1. /\ Init /\ Cli!Init /\ c2s = <<>> /\ s2c = <<>>
      /\ opts = [batch |-> FALSE, command |-> TRUE, pty |-> FALSE, io_timeout |-> FALSE]
  BY DEF SysInit
<1>2. IndInv
  BY <1>1, InitInv
<1>3. QueuesTyped
  BY <1>1 DEF QueuesTyped
<1>4. cpc = "connect" /\ stack = <<>> /\ status = NOSTATUS /\ printed = 0 /\ requests = 0
      /\ c_userauth = FALSE /\ password \in {"unset", "empty", "given"}
  BY <1>1 DEF Cli!Init
<1>5. pc = "ident" /\ chunk = 0 /\ delivered = 0 /\ auth_attempts = 0
  BY <1>1 DEF Init
<1>6. Talk
  BY <1>1, <1>4, <1>5 DEF Talk, Lockstep, Inbox, Acceptable, Told
<1>7. ClientPlace
  BY <1>1, <1>4 DEF ClientPlace, Places
<1>8. Tries
  <2>1. requests \in 0..3 /\ auth_attempts \in 0..requests /\ ~c_userauth
    BY <1>4, <1>5
  <2> QED
    BY <1>4, <2>1, Zenon DEF Tries
<1>9. Account(<<>>, 0, 0)
  <2> DEFINE f == [k \in 0..0 |-> 0]
  <2>1. f \in [0..Len(<<>>) -> Nat] /\ f[0] = 0 /\ f[Len(<<>>)] = 0
    OBVIOUS
  <2>2. 1..Len(<<>>) = {}
    OBVIOUS
  <2> HIDE DEF f
  <2> QED
    BY <2>1, <2>2 DEF Account
<1>10. Counted
  BY <1>1, <1>4, <1>5, <1>9 DEF Counted
<1>11. StatusLast
  BY <1>4 DEF StatusLast
<1> QED
  BY <1>2, <1>3, <1>6, <1>7, <1>8, <1>10, <1>11 DEF ExecInv

\* and every step of the system keeps it.
LEMMA NextExecInv == ExecInv /\ [SysNext]_sysVars => ExecInv'
<1> SUFFICES ASSUME ExecInv, [SysNext]_sysVars PROVE ExecInv'
  OBVIOUS
<1>1. IndInv'
  BY ServerIsConnection, NextInv DEF ExecInv
<1>2. UNCHANGED cliVars => ClientPlace'
  BY Untouched DEF ExecInv
<1>3. CASE ClientStep \/ ClientUser \/ ClientSlice
  BY <1>1, <1>3, ClientStepInv DEF ExecInv
<1>4. CASE ServerStep
  BY <1>1, <1>2, <1>4, HandshakeTalks, ServesTalks, StopsTalks, SessionQuiet, RunsTalks
     DEF ExecInv, ServerStep
<1>5. CASE Drains
  BY <1>1, <1>2, <1>5, DrainsTalks DEF ExecInv, Drains
<1>6. CASE CommandRuns /\ UNCHANGED cliVars
  BY <1>1, <1>2, <1>6, CommandTalks DEF ExecInv
<1>7. CASE UNCHANGED sysVars
  <2>1. /\ UNCHANGED cliVars /\ c2s' = c2s /\ s2c' = s2c /\ UNCHANGED vars
    BY <1>7 DEF sysVars
  <2>2. QueuesTyped' /\ ClientPlace' /\ Tries'
    BY <1>2, <2>1, Untouched DEF ExecInv, QueuesTyped, Tries, vars
  <2>3. Counted' /\ StatusLast'
    BY <2>1, QuietCounts DEF ExecInv, Counted, vars
  <2>4. /\ pc' = pc /\ (Fresh' <=> Fresh) /\ (Ready' <=> Ready) /\ (Known' <=> Known)
        /\ (Opened' <=> Opened) /\ (Running' <=> Running) /\ auth_attempts' = auth_attempts
        /\ cpc' = cpc /\ requests' = requests /\ c_userauth' = c_userauth
    BY <2>1, Untouched DEF vars, Fresh, Ready, Known, Opened, Running, Login
  <2>5. (Inbox => Inbox') /\ (Acceptable => Acceptable')
    BY <2>1, <2>4 DEF Inbox, Acceptable
  <2>6. Lockstep => Lockstep'
    BY <2>1, <2>4 DEF Lockstep, Asked, Told, KeysSent
  <2>7. Talk'
    BY <2>4, <2>5, <2>6 DEF ExecInv, Talk
  <2> QED
    BY <1>1, <2>2, <2>3, <2>7 DEF ExecInv
<1> QED
  BY <1>3, <1>4, <1>5, <1>6, <1>7 DEF SysNext

----------------------------------------------------------------------------
(* The client of the composition is a Client.                              *)

\* What the client reads is a packet that module Client knows of.
LEMMA ReadsAnyPacket ==
    ASSUME QueuesTyped, Talk, cpc # "done", s2c # <<>>
    PROVE  Head(s2c) \in Cli!AnyPacket
<1> DEFINE Plain == {"IDENT", "KEXINIT", "ECDH_REPLY", "NEWKEYS", "SERVICE_ACCEPT",
                     "USERAUTH_SUCCESS", "USERAUTH_FAILURE", "OPEN_CONFIRMATION",
                     "CHANNEL_SUCCESS", "EOF", "CLOSE"}
<1>0. s2c \in Seq(Answers) /\ Inbox
  BY DEF QueuesTyped, Talk
<1>1. Head(s2c) = s2c[1] /\ 1 \in DOMAIN s2c /\ s2c[1] \in Answers
  BY <1>0
<1>2. \A t \in Plain : P(t) \in Cli!AnyPacket
  BY Zenon DEF P, Cli!AnyPacket
<1>3. CASE Stream(s2c)
  <2>1. CASE s2c[1] \in {P("EOF"), P("CLOSE")}
    BY <1>1, <1>2, <2>1
  <2>2. CASE s2c[1] = [t |-> "STATUS", n |-> ExitCode]
    <3>1. s2c[1] \in [t : {"STATUS"}, n : Statuses]
      BY <2>2, StreamAssumption
    <3> QED
      BY <1>1, <3>1, Zenon DEF Cli!AnyPacket
  <2>3. CASE s2c[1].t = "DATA" /\ s2c[1].n \in 1..CHUNK
    <3>1. s2c[1].n \in Lens
      BY <2>3, StreamAssumption
    <3>2. s2c[1] \in [t : {"DATA"}, n : Lens]
      BY <1>1, <2>3, <3>1 DEF Answers
    <3> QED
      BY <1>1, <3>2, Zenon DEF Cli!AnyPacket
  <2> QED
    BY <1>1, <1>3, <2>1, <2>2, <2>3 DEF Stream
<1>4. CASE Begun(s2c)
  BY <1>2, <1>4 DEF Begun
<1>5. CASE \/ \E t \in Plain : s2c = <<P(t)>>
           \/ s2c = <<P("ECDH_REPLY"), P("NEWKEYS")>>
  BY <1>2, <1>5, Joined
<1> QED
  BY <1>0, <1>3, <1>4, <1>5 DEF Inbox

\* Every step of the system is a step of the client, or none, for module Client.
LEMMA ClientIsClient ==
    ASSUME ExecInv, [SysNext]_sysVars
    PROVE  [Cli!Next]_(Cli!vars)
<1>1. CASE ClientReceives
  <2>1. Cli!Receive(Head(s2c)) /\ s2c # <<>>
    BY <1>1 DEF ClientReceives
  <2>2. cpc # "done"
    BY <2>1 DEF Cli!Receive, Cli!LongLine, Cli!BannerLine, Cli!IdentLine, Cli!Kexinit, Cli!ServerKexinit,
        Cli!EcdhReply, Cli!NewKeys, Cli!Discard, Cli!UserauthService, Cli!Accepted,
        Cli!Rejected, Cli!ConnectionService, Cli!OpenConfirmed, Cli!PtyGranted,
        Cli!Started, Cli!Refused, Cli!ReceiveData, Cli!ReceiveStatus, Cli!ReceiveEof,
        Cli!ReceiveClose, Cli!ReceiveOther, Cli!Waits, Cli!KexWaits, Cli!LoginWaits
  <2>3. Head(s2c) \in Cli!AnyPacket
    BY <2>1, <2>2, ReadsAnyPacket DEF ExecInv
  <2> QED
    BY <2>1, <2>3, Zenon DEF Cli!Next
<1>2. CASE ClientMoves \/ ClientUser \/ ClientSlice \/ ClientBroken
  BY <1>2, Zenon DEF ClientMoves, ClientUser, ClientSlice, ClientBroken, Cli!Next
<1>3. CASE UNCHANGED cliVars
  BY <1>3 DEF cliVars, Cli!vars, Cli!tcpVars, Cli!kexVars, Cli!loginVars,
              Cli!channelVars, Cli!aliveVars
<1> QED
  BY <1>1, <1>2, <1>3 DEF SysNext, ClientStep, ServerStep, Drains, sysVars

\* The inductive invariant of the two processes: the server's own, and that
\* every packet under way is one the other side expects where it is.
THEOREM ExecInvariant == SysSpec => []ExecInv
BY InitExecInv, NextExecInv, PTL DEF SysSpec

\* The server of the composition is a server of module Connection: what is
\* proved of serve_one() against any peer holds against this client.
THEOREM ExecIsConnection == SysSpec => Spec
<1>1. SysInit => Init
  BY DEF SysInit
<1>2. ExecInv /\ [SysNext]_sysVars => [Next]_vars
  BY ServerIsConnection
<1> QED
  BY <1>1, <1>2, ExecInvariant, PTL DEF Spec, SysSpec

\* The client of the composition is a client of module Client: what is proved of
\* main() against any server holds against this one.
THEOREM ExecIsClient == SysSpec => Cli!Spec
<1>1. SysInit => Cli!Init
  BY DEF SysInit
<1>2. ExecInv /\ [SysNext]_sysVars => [Cli!Next]_(Cli!vars)
  BY ClientIsClient
<1> QED
  BY <1>1, <1>2, ExecInvariant, PTL DEF Cli!Spec, SysSpec

\* A client that has the exit status has printed everything the command wrote,
\* and exits with the command's status unless a signal ended it: the exit-status
\* of srv_run_session_unix() is behind the last byte of the output.
THEOREM ExecOutputIntact == SysSpec => []OutputIntact
<1>1. ExecInv => OutputIntact
  <2> SUFFICES ASSUME ExecInv, status # NOSTATUS
               PROVE  /\ printed = produced
                      /\ cpc = "done" /\ exit_code \notin Cli!Signals
                           => exit_code = ExitCode % BYTE
    BY DEF OutputIntact
  <2>1. status_sent /\ printed = delivered
        /\ (cpc = "done" /\ exit_code \notin Cli!Signals => exit_code = ExitCode % BYTE)
    BY DEF ExecInv, StatusLast
  <2>2. delivered = produced
    BY <2>1 DEF ExecInv, IndInv, OutputInv
  <2> QED
    BY <2>1, <2>2
<1> QED
  BY <1>1, ExecInvariant, PTL

\* The dispatch of netnox_ssh_server_serve_one() and the handshake before it
\* refuse nothing that the client sends: reading a packet ends the connection
\* only where the fork() of the session fails.
THEOREM ExecClientAcceptable == SysSpec => ClientAcceptable
<1> DEFINE A == Len(c2s') < Len(c2s) /\ pc' = "done" => session_started'
<1>1. ExecInv /\ [SysNext]_sysVars => [A]_sysVars
  <2> SUFFICES ASSUME ExecInv, SysNext, Len(c2s') < Len(c2s), pc' = "done"
               PROVE  session_started'
    OBVIOUS
  <2>0. c2s \in Seq(Answers) /\ c2s' # c2s
    <3>1. c2s \in Seq(Answers)
      BY DEF ExecInv, QueuesTyped
    <3>2. Len(c2s) \in Nat
      BY <3>1
    <3> QED
      BY <3>1, <3>2
  <2>1. CASE ClientStep \/ ClientUser \/ ClientSlice
    <3>1. ClientSends /\ QueuesTyped'
      BY <2>1, ClientSteps, ClientStepInv
    <3>2. (Exits \/ Reads \/ Acts) /\ c2s' = c2s \o sent'
      BY <2>1, <3>1, ClientSteps DEF ClientSends
    <3>3. sent' \in Seq(Answers)
      BY <3>1, <3>2, SentTyped
    <3>4. Len(c2s') = Len(c2s) + Len(sent') /\ Len(sent') \in Nat /\ Len(c2s) \in Nat
      BY <2>0, <3>2, <3>3
    <3> QED
      BY <3>4
  <2>2. CASE ServerStep
    <3>1. CASE ServerHandshake
      BY <2>2, <3>1, HandshakeTalks DEF ServerStep
    <3>2. CASE ServerServes
      BY <2>2, <3>2, ServesTalks DEF ServerStep
    <3>3. CASE ServerReceives
      BY <2>2, <3>3, SessionQuiet DEF ServerStep
    <3>4. CASE ServerStops \/ ServerRuns \/ ServerIdles
      BY <2>0, <3>4 DEF ServerStops, ServerRuns, ServerIdles
    <3> QED
      BY <2>2, <3>1, <3>2, <3>3, <3>4 DEF ServerStep
  <2>3. CASE Drains \/ CommandRuns
    BY <2>0, <2>3 DEF Drains, CommandRuns
  <2> QED
    BY <2>1, <2>2, <2>3 DEF SysNext
<1> QED
  BY <1>1, ExecInvariant, PTL DEF ClientAcceptable, SysSpec
=============================================================================
