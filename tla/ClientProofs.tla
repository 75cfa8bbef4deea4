---------------------------- MODULE ClientProofs ----------------------------
(***************************************************************************)
(* The client against a server that may send anything, for every limit it  *)
(* is built or configured with: key exchanges nest properly, waits are     *)
(* bounded, and the exit code mirrors the remote status.                   *)
(***************************************************************************)
EXTENDS Client, SequenceTheorems, TLAPS

\* An exit status is known only while output is awaited or the client is done,
\* and no command ever has the user asked for input.
StatusInSession ==
    /\ status # NOSTATUS => Base \in {"wait", "recv", "input", "done"}
    /\ opts.command => pc # "input"

Frame == [at : PCs, seen : 0..(WAITMAX - 1)]
Wire == [t : SentTypes, n : Nat]

\* The parts of TypeOK: what is true or false, the places and the stack, the
\* numbers.
Flags ==
    /\ opts \in Options
    /\ has_key \in BOOLEAN /\ userauth_service_ready \in BOOLEAN
    /\ authenticated \in BOOLEAN /\ channel_open \in BOOLEAN

Places ==
    /\ pc \in PCs
    /\ stack \in Seq(Frame) /\ seen \in 0..(WAITMAX - 1)
    /\ KexNests

Numbers ==
    /\ attempt \in 0..RETRIES /\ lines \in 0..(BANNERMAX - 1)
    /\ password \in {"unset", "empty", "given"} /\ requests \in Nat
    /\ status \in Statuses \cup {NOSTATUS} /\ printed \in 0..MaxPrinted
    /\ quiet \in Nat /\ unanswered \in Nat /\ drain \in {1, 2}
    /\ exit_code \in Nat
    /\ sent \in Seq(Wire)

LEMMA TypeParts == Flags /\ Places /\ Numbers => TypeOK
BY DEF TypeOK, Flags, Places, Numbers, Frame, Wire

\* The inductive invariant.
ClientInv == Flags /\ Places /\ Numbers /\ ExitMirrorsStatus /\ StatusInSession

USE ClientAssumption

----------------------------------------------------------------------------
(* The stack of suspended calls.                                           *)

\* What is sent is packets.
LEMMA PacketTyped ==
    /\ \A t \in SentTypes : <<Packet(t)>> \in Seq(Wire)
    /\ \A t, u \in SentTypes : <<Packet(t), Packet(u)>> \in Seq(Wire)
    /\ \A t \in SentTypes, n \in Nat : <<[t |-> t, n |-> n]>> \in Seq(Wire)
    /\ <<>> \in Seq(Wire)
BY DEF Packet, Wire

\* A call that is interrupted goes in front of those that wait already.
LEMMA Push ==
    ASSUME NEW s \in Seq(Frame), NEW f \in Frame
    PROVE  /\ <<f>> \o s \in Seq(Frame)
           /\ Len(<<f>> \o s) = Len(s) + 1
           /\ (<<f>> \o s)[1] = f
           /\ \A k \in 2..(Len(s) + 1) : (<<f>> \o s)[k] = s[k - 1]
OBVIOUS

\* The call that returns is taken off.
LEMMA Pop ==
    ASSUME NEW s \in Seq(Frame), s # <<>>
    PROVE  /\ Tail(s) \in Seq(Frame)
           /\ Len(Tail(s)) = Len(s) - 1
           /\ \A k \in 1..(Len(s) - 1) : Tail(s)[k] = s[k + 1]
           /\ s[1] \in Frame
OBVIOUS

\* The only frame of a key exchange that main() started.
LEMMA One ==
    ASSUME NEW f \in Frame
    PROVE  /\ <<f>> \in Seq(Frame)
           /\ Len(<<f>>) = 1
           /\ <<f>>[1] = f
OBVIOUS

\* Only the low byte of a status is used.
LEMMA LowByte ==
    ASSUME NEW n \in Nat
    PROVE  n % BYTE \in 0..(BYTE - 1)
OBVIOUS

\* The packets of recv_data() are counted below WAITMAX.
LEMMA CountTyped ==
    ASSUME ClientInv, ReadsOn
    PROVE  seen' \in 0..(WAITMAX - 1)
BY DEF ClientInv, Places, ReadsOn

LEMMA InitClientInv == Init => ClientInv
<1> SUFFICES ASSUME Init PROVE ClientInv
  OBVIOUS
<1>1. Flags
  BY DEF Init, Flags
<1>2. Places
  BY DEF Init, Places, KexNests, PCs, Receiving, Waits, KexWaits
<1>3. Numbers
  BY DEF Init, Numbers
<1> QED
  BY <1>1, <1>2, <1>3 DEF Init, ClientInv, ExitMirrorsStatus, StatusInSession

----------------------------------------------------------------------------
(* Ending, and going on.                                                   *)

\* Where the running call of main() can be.
LEMMA BasePlace ==
    ASSUME ClientInv
    PROVE  /\ stack = <<>> => Base = pc
           /\ stack # <<>> => Base \in LoginWaits \cup {"verify", "wait", "recv"}
<1>1. stack # <<>> => Len(stack) \in 1..Len(stack)
  BY DEF ClientInv, Places
<1> QED
  BY <1>1 DEF ClientInv, Places, KexNests, Base

\* The exit status of command mode.
LEMMA StatusTyped ==
    ASSUME ClientInv
    PROVE  /\ ExitStatus \in Nat
           /\ status # NOSTATUS =>
                ExitStatus = status % BYTE /\ status % BYTE \in 0..(BYTE - 1)
<1>1. status # NOSTATUS => status \in Nat
  BY DEF ClientInv, Numbers
<1>2. status # NOSTATUS => status % BYTE \in 0..(BYTE - 1)
  BY <1>1, LowByte
<1>3. \A n \in 0..(BYTE - 1) : n \in Nat
  OBVIOUS
<1> QED
  BY <1>2, <1>3 DEF ExitStatus

LEMMA ExitStep ==
    ASSUME ClientInv, NEW code \in Nat, Exit(code),
           opts.command /\ status # NOSTATUS => code \in Signals \cup {ExitStatus}
    PROVE  ClientInv'
<1> USE DEF Exit, ClientInv, tcpVars, loginVars, channelVars, aliveVars
<1>1. Flags'
  BY DEF Flags
<1>2. Places'
  BY DEF Places, KexNests, PCs, KexWaits
<1>3. Numbers'
  BY PacketTyped DEF Numbers
<1>4. ExitMirrorsStatus'
  BY StatusTyped DEF ExitMirrorsStatus
<1>5. StatusInSession'
  BY DEF StatusInSession, Base
<1> QED
  BY <1>1, <1>2, <1>3, <1>4, <1>5

LEMMA DrainedStep ==
    ASSUME ClientInv, Drained, ~opts.command
    PROVE  ClientInv'
<1> USE DEF Drained, ClientInv, tcpVars, loginVars, channelVars
<1>1. Flags'
  BY DEF Flags
<1>2. Places'
  BY DEF Places, KexNests, PCs, KexWaits
<1>3. Numbers'
  BY PacketTyped DEF Numbers
<1>4. ExitMirrorsStatus' /\ StatusInSession'
  BY DEF ExitMirrorsStatus, StatusInSession, Base
<1> QED
  BY <1>1, <1>2, <1>3, <1>4

\* A failure with a status at hand is a failure of the output, not of the login.
LEMMA FailStep ==
    ASSUME ClientInv, pc \in Receiving \cup {"ident", "discard", "wait"}, Fail
    PROVE  ClientInv'
<1>1. status # NOSTATUS => Base \in {"wait", "recv"}
  BY BasePlace DEF ClientInv, StatusInSession, Receiving, Waits, KexWaits, LoginWaits
<1>2. CASE Base \notin {"wait", "recv"} /\ Exit(1)
  BY <1>1, <1>2, ExitStep
<1>3. CASE opts.command /\ Exit(ExitStatus)
  BY <1>3, ExitStep, StatusTyped
<1>4. CASE ~opts.command /\ Exit(0)
  BY <1>4, ExitStep
<1>5. CASE ~opts.command /\ Drained
  BY <1>5, DrainedStep
<1> QED
  BY <1>2, <1>3, <1>4, <1>5 DEF Fail

\* A step that goes on without an exit.
LEMMA GoOn ==
    ASSUME Flags', Places', Numbers', pc' \notin {"done", "input"},
           status' # NOSTATUS => Base' \in {"wait", "recv"}
    PROVE  ClientInv'
BY DEF ClientInv, ExitMirrorsStatus, StatusInSession

\* A step of main() itself, outside every key exchange.
Outside == PCs \ (KexWaits \cup {"kexinit"})

LEMMA MoveStep ==
    ASSUME ClientInv, pc \in Outside, UNCHANGED stack, pc' \in Outside,
           seen' \in 0..(WAITMAX - 1)
    PROVE  /\ Places'
           /\ Base = pc /\ Base' = pc'
<1>1. stack = <<>>
  BY DEF ClientInv, Places, KexNests, Outside
<1> QED
  BY <1>1 DEF ClientInv, Places, KexNests, Outside, Base

----------------------------------------------------------------------------
(* One lemma per group of actions.                                         *)

LEMMA ConnectInv ==
    ASSUME ClientInv,
           Connect \/ ConnectFails \/ \E m \in AnyPacket : LongLine(m) \/ BannerLine(m)
    PROVE  ClientInv'
<1> USE DEF tcpVars, kexVars, loginVars, channelVars, aliveVars
<1>0. pc \in Outside /\ pc \in {"connect", "ident", "discard"}
  BY DEF Connect, ConnectFails, LongLine, BannerLine, Outside, PCs, KexWaits
<1>1. status = NOSTATUS
  BY <1>0, MoveStep, BasePlace DEF ClientInv, Places, KexNests, StatusInSession, Outside
<1>2. CASE Exit(1)
  BY <1>1, <1>2, ExitStep
<1>3. CASE ~Exit(1)
  <2>1. Flags'
    BY <1>3 DEF Connect, ConnectFails, LongLine, BannerLine, Proceed, ClientInv, Flags
  <2>2. Numbers'
    <3>1. CASE Connect
      BY <3>1, PacketTyped DEF SentTypes, Connect, Proceed, ClientInv, Numbers
    <3>2. CASE ConnectFails
      <4>1. /\ attempt < RETRIES /\ attempt' = attempt + 1 /\ sent' = <<>>
            /\ UNCHANGED <<lines, loginVars, channelVars, aliveVars, exit_code>>
        BY <1>3, <3>2 DEF ConnectFails
      <4> QED
        BY <4>1, PacketTyped DEF ClientInv, Numbers
    <3>3. CASE \E m \in AnyPacket : BannerLine(m)
      <4>1. /\ lines + 1 < BANNERMAX /\ lines' = lines + 1 /\ sent' = <<>>
            /\ UNCHANGED <<attempt, loginVars, channelVars, aliveVars, exit_code>>
        BY <1>3, <3>3 DEF BannerLine
      <4> QED
        BY <4>1, PacketTyped DEF ClientInv, Numbers
    <3>4. CASE \E m \in AnyPacket : LongLine(m)
      BY <3>4, PacketTyped DEF LongLine, ClientInv, Numbers
    <3> QED
      BY <3>1, <3>2, <3>3, <3>4
  <2>3. /\ UNCHANGED <<stack, status>>
        /\ pc' \in {"connect", "ident", "discard"}
        /\ seen' \in 0..(WAITMAX - 1)
    BY <1>0, <1>3 DEF Connect, ConnectFails, LongLine, BannerLine, Proceed, ClientInv, Places
  <2>4. pc' \in Outside
    BY <2>3 DEF Outside, PCs, KexWaits
  <2>5. Places'
    BY <1>0, <2>3, <2>4, MoveStep
  <2> QED
    BY <1>1, <2>1, <2>2, <2>3, <2>5, GoOn
<1> QED
  BY <1>2, <1>3

\* A key exchange of main(): the first, or a periodic one.
LEMMA StartKexInv ==
    ASSUME ClientInv, Rekey \/ \E m \in AnyPacket : IdentLine(m)
    PROVE  ClientInv'
<1> USE DEF Rekey, IdentLine, Proceed, tcpVars, loginVars, channelVars, aliveVars
<1>1. PICK f \in Frame : /\ stack' = <<f>> /\ f.at \in {"verify", "wait"}
                         /\ f.at = "verify" => pc = "ident"
  <2>1. \A at \in {"verify", "wait"} : [at |-> at, seen |-> 0] \in Frame
    BY DEF Frame, PCs
  <2> QED
    BY <2>1
<1>2. Flags'
  BY DEF ClientInv, Flags
<1>3. Numbers'
  <2>1. /\ lines' \in {0, lines} /\ sent' = <<Packet("KEXINIT")>> /\ seen' = 0
        /\ UNCHANGED <<attempt, requests, printed, quiet, unanswered, drain, exit_code, status>>
    OBVIOUS
  <2>2. sent' \in Seq(Wire)
    BY <2>1, PacketTyped DEF SentTypes
  <2> QED
    BY <2>1, <2>2 DEF ClientInv, Numbers
<1>4. Places'
  BY <1>1, One DEF Places, KexNests, PCs, Receiving
<1>5. status' # NOSTATUS => Base' \in {"wait", "recv"}
  <2>1. Base' = f.at
    BY <1>1, One DEF Base
  <2>2. pc = "ident" => status = NOSTATUS
    BY BasePlace DEF ClientInv, Places, KexNests, KexWaits, StatusInSession
  <2> QED
    BY <1>1, <2>1, <2>2
<1> QED
  BY <1>2, <1>3, <1>4, <1>5, GoOn

LEMMA KexMoveInv ==
    ASSUME ClientInv, NEW m, Kexinit(m) \/ EcdhReply(m) \/ Discard(m)
    PROVE  ClientInv'
<1> USE DEF Kexinit, EcdhReply, Discard, Proceed, tcpVars, loginVars, channelVars, aliveVars
<1>0. pc \in Waits \cup {"kexinit"}
  BY DEF Waits, KexWaits
<1>1. CASE Fail
  BY <1>0, <1>1, FailStep DEF Receiving
<1>2. CASE ~Fail
  <2>1. Flags'
    BY <1>2 DEF ClientInv, Flags
  <2>2. Numbers'
    BY <1>2, PacketTyped DEF SentTypes, ClientInv, Numbers
  <2>3. Places' /\ pc' \notin {"done", "input"}
    BY <1>2 DEF ClientInv, Places, KexNests, PCs, Receiving, Waits, KexWaits, LoginWaits
  <2>4. status' # NOSTATUS => Base' \in {"wait", "recv"}
    <3>1. status' = status /\ (stack = <<>> => pc' = pc) /\ stack' = stack
      BY <1>2 DEF ClientInv, Places, KexNests, Waits, KexWaits
    <3>2. Base' = Base
      BY <3>1 DEF Base
    <3>3. status # NOSTATUS => Base \in {"wait", "recv"}
      BY <1>0, BasePlace DEF ClientInv, StatusInSession, Waits, KexWaits, LoginWaits
    <3> QED
      BY <3>1, <3>2, <3>3
  <2> QED
    BY <2>1, <2>2, <2>3, <2>4, GoOn
<1> QED
  BY <1>1, <1>2

\* A key exchange inside a wait or a receive.
LEMMA ServerKexinitInv ==
    ASSUME ClientInv, NEW m, ServerKexinit(m)
    PROVE  ClientInv'
<1>1. CASE Exit(SIGSEGV)
  BY <1>1, ExitStep DEF SIGSEGV, Signals
<1>2. CASE ~Exit(SIGSEGV)
  <2> USE <1>2 DEF ServerKexinit, Proceed, tcpVars, loginVars, channelVars, aliveVars
  <2> DEFINE f == [at |-> pc, seen |-> seen]
  <2>1. f \in Frame /\ stack \in Seq(Frame) /\ f.at = pc
    BY DEF ClientInv, Places, Frame
  <2>2. stack' = <<f>> \o stack /\ pc' = "ecdh" /\ pc \in Waits \cup {"recv"}
    OBVIOUS
  <2> HIDE DEF f
  <2>3. /\ stack' \in Seq(Frame) /\ Len(stack') = Len(stack) + 1 /\ stack'[1] = f
        /\ \A k \in 2..(Len(stack) + 1) : stack'[k] = stack[k - 1]
        /\ Len(stack) \in Nat
    BY <2>1, <2>2, Push
  <2>4. Flags'
    BY DEF ClientInv, Flags
  <2>5. Numbers'
    BY PacketTyped DEF SentTypes, ClientInv, Numbers
  <2>6. stack' # <<>> /\ seen' = 0
    BY <2>3
  <2>7. ASSUME NEW k \in 1..Len(stack')
        PROVE  stack'[k].at \in (IF k < Len(stack') THEN KexWaits
                                ELSE LoginWaits \cup {"verify", "wait", "recv"})
    <3>1. CASE k = 1
      <4>1. stack'[k].at = pc
        BY <2>1, <2>3, <3>1
      <4>2. k < Len(stack') <=> stack # <<>>
        BY <2>1, <2>3, <3>1
      <4> QED
        BY <2>2, <4>1, <4>2 DEF ClientInv, Places, KexNests, Waits, KexWaits, LoginWaits
    <3>2. CASE k > 1
      <4>1. k - 1 \in 1..Len(stack) /\ stack'[k] = stack[k - 1]
        BY <2>3, <2>7, <3>2
      <4>2. k < Len(stack') <=> k - 1 < Len(stack)
        BY <2>3, <2>7
      <4> QED
        BY <4>1, <4>2 DEF ClientInv, Places, KexNests
    <3> QED
      BY <2>7, <3>1, <3>2
  <2>8. Places'
    BY <2>2, <2>3, <2>6, <2>7 DEF Places, KexNests, PCs, Receiving, Waits, KexWaits
  <2>9. status' # NOSTATUS => Base' \in {"wait", "recv"}
    <3>1. Base' = Base
      <4>1. CASE stack = <<>>
        BY <2>1, <2>3, <2>6, <4>1 DEF Base
      <4>2. CASE stack # <<>>
        BY <2>1, <2>3, <2>6, <4>2 DEF Base
      <4> QED
        BY <4>1, <4>2
    <3>2. status # NOSTATUS => Base \in {"wait", "recv"}
      BY <2>2, BasePlace DEF ClientInv, StatusInSession, Waits, KexWaits, LoginWaits
    <3> QED
      BY <3>1, <3>2 DEF channelVars
  <2> QED
    BY <2>2, <2>4, <2>5, <2>8, <2>9, GoOn
<1> QED
  BY <1>1, <1>2

\* The end of a key exchange.
LEMMA NewKeysInv ==
    ASSUME ClientInv, NEW m, NewKeys(m)
    PROVE  ClientInv'
<1>1. CASE Fail
  BY <1>1, FailStep DEF NewKeys, Receiving, Waits, KexWaits
<1>2. CASE ~Fail
  <2> USE <1>2 DEF NewKeys, ReturnFromKex, tcpVars, loginVars, channelVars, aliveVars
  <2>1. stack \in Seq(Frame) /\ stack # <<>>
    BY DEF ClientInv, Places, KexNests, KexWaits
  <2>2. /\ stack' \in Seq(Frame) /\ Len(stack') = Len(stack) - 1
        /\ \A k \in 1..(Len(stack) - 1) : stack'[k] = stack[k + 1]
        /\ stack[1] \in Frame /\ Len(stack) \in Nat \ {0}
    <3>1. stack' = Tail(stack)
      OBVIOUS
    <3> QED
      BY <2>1, <3>1, Pop
  <2>3. pc' = stack[1].at /\ status' = status
    OBVIOUS
  <2>4. pc' \in PCs /\ seen' \in 0..(WAITMAX - 1)
    BY <2>2 DEF Frame
  <2>5. Flags'
    BY DEF ClientInv, Flags
  <2>6. Numbers'
    BY PacketTyped DEF ClientInv, Numbers
  <2>7. pc' \in (IF Len(stack) > 1 THEN KexWaits
                 ELSE LoginWaits \cup {"verify", "wait", "recv"})
    BY <2>2, <2>3 DEF ClientInv, Places, KexNests
  <2>8. ASSUME NEW k \in 1..Len(stack')
        PROVE  stack'[k].at \in (IF k < Len(stack') THEN KexWaits
                                ELSE LoginWaits \cup {"verify", "wait", "recv"})
    BY <2>2 DEF ClientInv, Places, KexNests
  <2>9. stack' = <<>> <=> Len(stack) = 1
    BY <2>2
  <2>10. Places'
    BY <2>2, <2>4, <2>7, <2>8, <2>9 DEF Places, KexNests, KexWaits, LoginWaits
  <2>11. Base' = Base
    <3>1. CASE Len(stack) = 1
      BY <2>1, <2>3, <2>9, <3>1 DEF Base
    <3>2. CASE Len(stack) > 1
      BY <2>1, <2>2, <2>9, <3>2 DEF Base
    <3> QED
      BY <2>2, <3>1, <3>2
  <2>12. status # NOSTATUS => Base \in {"wait", "recv"}
    BY <2>1, BasePlace DEF ClientInv, StatusInSession, LoginWaits
  <2>13. pc' \notin {"done", "input"}
    BY <2>7 DEF KexWaits, LoginWaits
  <2> QED
    BY <2>3, <2>5, <2>6, <2>10, <2>11, <2>12, <2>13, GoOn
<1> QED
  BY <1>1, <1>2

\* The login has no status, so that it may end or go on as it likes.
LoginPlaces == LoginWaits \cup {"verify", "creds", "prompt"}

LEMMA LoginStep ==
    ASSUME ClientInv, pc \in LoginPlaces,
           \/ Exit(0) \/ Exit(1)
           \/ /\ Flags' /\ Numbers'
              /\ UNCHANGED <<stack, status>>
              /\ seen' = 0 /\ pc' \in LoginPlaces \cup {"wait"}
    PROVE  ClientInv'
<1>1. pc \in Outside
  BY DEF LoginPlaces, LoginWaits, Outside, PCs, Receiving, Waits, KexWaits
<1>2. status = NOSTATUS
  <2>1. Base = pc
    BY <1>1, BasePlace DEF Outside, ClientInv, Places, KexNests
  <2> QED
    BY <2>1 DEF ClientInv, StatusInSession, LoginPlaces, LoginWaits
<1>3. CASE Exit(0) \/ Exit(1)
  BY <1>2, <1>3, ExitStep
<1>4. CASE /\ Flags' /\ Numbers' /\ UNCHANGED <<stack, status>>
           /\ seen' = 0 /\ pc' \in LoginPlaces \cup {"wait"}
  <2>1. pc' \in Outside /\ pc' \notin {"done", "input"} /\ seen' \in 0..(WAITMAX - 1)
    BY <1>4 DEF LoginPlaces, LoginWaits, Outside, PCs, Receiving, Waits, KexWaits
  <2>2. Places'
    BY <1>1, <1>4, <2>1, MoveStep
  <2> QED
    BY <1>2, <1>4, <2>1, <2>2, GoOn
<1> QED
  BY <1>3, <1>4

LEMMA AuthenticateInv ==
    ASSUME ClientInv, pc \in LoginPlaces, NEW pw \in {"unset", "empty", "given"},
           FirstMethod(pw) \/ Authenticate(pw)
    PROVE  ClientInv'
<1> USE DEF FirstMethod, Authenticate, Proceed, tcpVars, channelVars, aliveVars
<1>1. CASE Exit(1)
  BY <1>1, LoginStep
<1>2. CASE ~Exit(1)
  <2>1. Flags'
    BY <1>2 DEF ClientInv, Flags
  <2>2. Numbers'
    <3>1. sent' \in Seq(Wire)
      BY <1>2, PacketTyped DEF SentTypes
    <3>2. /\ requests' \in {requests, requests + 1} /\ password' = pw
          /\ UNCHANGED <<tcpVars, channelVars, aliveVars, exit_code>>
      BY <1>2
    <3> QED
      BY <3>1, <3>2 DEF ClientInv, Numbers
  <2>3. UNCHANGED <<stack, status>> /\ seen' = 0 /\ pc' \in LoginPlaces
    BY <1>2 DEF LoginPlaces, LoginWaits
  <2> QED
    BY <2>1, <2>2, <2>3, LoginStep
<1> QED
  BY <1>1, <1>2

LEMMA AskInv ==
    ASSUME ClientInv, pc \in LoginPlaces, AskPassword
    PROVE  ClientInv'
<1> USE DEF AskPassword, Proceed, tcpVars, loginVars, channelVars, aliveVars
<1>1. Flags'
  BY DEF ClientInv, Flags
<1>2. Numbers'
  BY PacketTyped DEF ClientInv, Numbers
<1> QED
  BY <1>1, <1>2, LoginStep DEF LoginPlaces

LEMMA LoginInv ==
    ASSUME ClientInv, NEW m,
           \/ \E trusted \in BOOLEAN : VerifyHostKey(trusted)
           \/ Credentials \/ Prompt
           \/ UserauthService(m) \/ Accepted(m) \/ Rejected(m)
    PROVE  ClientInv'
<1> USE DEF Proceed, tcpVars, loginVars, channelVars, aliveVars
<1>0. pc \in LoginPlaces /\ password \in {"unset", "empty", "given"}
  BY DEF VerifyHostKey, Credentials, Prompt, UserauthService, Accepted, Rejected,
         LoginPlaces, LoginWaits, ClientInv, Numbers
<1>1. CASE Exit(0) \/ Exit(1)
  BY <1>0, <1>1, LoginStep
<1>2. CASE \E trusted \in BOOLEAN : VerifyHostKey(trusted) /\ ~Exit(1)
  <2>1. Flags'
    BY <1>2 DEF VerifyHostKey, ClientInv, Flags
  <2>2. Numbers'
    BY <1>2, PacketTyped DEF VerifyHostKey, ClientInv, Numbers
  <2> QED
    BY <1>0, <1>2, <2>1, <2>2, LoginStep DEF VerifyHostKey, LoginPlaces
<1>3. CASE Credentials \/ Prompt \/ UserauthService(m)
  BY <1>0, <1>1, <1>3, AuthenticateInv, AskInv DEF Credentials, Prompt, UserauthService
<1>4. CASE Accepted(m)
  <2>1. Flags'
    BY <1>4 DEF Accepted, ClientInv, Flags
  <2>2. Numbers'
    BY <1>4, PacketTyped DEF Accepted, SentTypes, ClientInv, Numbers
  <2> QED
    BY <1>0, <1>4, <2>1, <2>2, LoginStep DEF Accepted, LoginPlaces, LoginWaits
<1>5. CASE Rejected(m) /\ ~Exit(1) /\ ~AskPassword
  <2>1. Flags'
    BY <1>5 DEF Rejected, ClientInv, Flags
  <2>2. Numbers'
    <3>1. sent' \in Seq(Wire)
      BY <1>5, PacketTyped DEF Rejected, SentTypes
    <3> QED
      BY <1>5, <3>1, SMTT(30) DEF Rejected, ClientInv, Numbers
  <2> QED
    BY <1>0, <1>5, <2>1, <2>2, LoginStep DEF Rejected, LoginPlaces, LoginWaits
<1> QED
  BY <1>0, <1>1, <1>2, <1>3, <1>4, <1>5, AskInv

LEMMA SessionInv ==
    ASSUME ClientInv, NEW m,
           \/ ConnectionService(m) \/ OpenConfirmed(m) \/ PtyGranted(m)
           \/ Started(m) \/ Refused(m)
    PROVE  ClientInv'
<1> USE DEF ConnectionService, OpenConfirmed, PtyGranted, Started, Refused, Proceed,
            tcpVars, loginVars, channelVars, aliveVars
<1>0. pc \in LoginPlaces
  BY DEF LoginPlaces, LoginWaits
<1>1. CASE Exit(1)
  BY <1>0, <1>1, LoginStep
<1>2. CASE ~Exit(1)
  <2>1. Flags'
    BY <1>2 DEF ClientInv, Flags
  <2>2. Numbers'
    <3>1. sent' \in Seq(Wire)
      BY <1>2, PacketTyped DEF SentTypes
    <3> QED
      BY <1>2, <3>1 DEF ClientInv, Numbers
  <2>3. UNCHANGED <<stack, status>> /\ seen' = 0 /\ pc' \in LoginPlaces \cup {"wait"}
    BY <1>2 DEF LoginPlaces, LoginWaits
  <2> QED
    BY <1>0, <2>1, <2>2, <2>3, LoginStep
<1> QED
  BY <1>1, <1>2

\* Waiting for output and reading it: main() is outside every key exchange.
LEMMA OutputStep ==
    ASSUME ClientInv, pc \in {"wait", "recv", "input"}, Flags', Numbers',
           UNCHANGED stack, seen' \in 0..(WAITMAX - 1), pc' \in {"wait", "recv"}
    PROVE  ClientInv'
<1>1. pc \in Outside /\ pc' \in Outside
  BY DEF Outside, PCs, Receiving, Waits, KexWaits, LoginWaits
<1>2. Places' /\ Base' = pc'
  BY <1>1, MoveStep
<1> QED
  BY <1>2, GoOn

LEMMA OutputInv ==
    ASSUME ClientInv, NEW m \in AnyPacket,
           \/ Readable \/ ReceiveData(m) \/ ReceiveStatus(m) \/ ReceiveEof(m)
           \/ ReceiveOther(m) \/ InputLine \/ InputEnds
    PROVE  ClientInv'
<1> USE DEF Proceed, tcpVars, kexVars, loginVars, channelVars, aliveVars
<1>1. CASE Readable
  <2>1. Flags'
    BY <1>1 DEF Readable, ClientInv, Flags
  <2>2. Numbers'
    BY <1>1, PacketTyped DEF Readable, ClientInv, Numbers
  <2> QED
    BY <1>1, <2>1, <2>2, OutputStep DEF Readable
<1>2. CASE ReceiveData(m)
  <2>1. CASE ChannelEnds
    BY <2>1, ExitStep, StatusTyped DEF ChannelEnds
  <2>2. CASE ~ChannelEnds
    <3>0. m.t = "DATA" => m.n \in Lens
      BY DEF AnyPacket, Packet
    <3>1. m.t = "DATA" => m.n \in Nat
      BY <3>0
    <3> DEFINE copied == IF m.n < BUFLEN THEN m.n ELSE BUFLEN
    <3>2. /\ printed + copied <= MaxPrinted /\ printed' = printed + copied
          /\ quiet' = 0 /\ unanswered' = 0 /\ sent' = <<>> /\ seen' = 0
          /\ pc = "recv" /\ pc' = "wait" /\ m.t = "DATA"
          /\ UNCHANGED <<opts, tcpVars, stack, loginVars, channel_open, status, drain,
                         exit_code>>
      BY <1>2, <2>2 DEF ReceiveData
    <3>3. printed' \in 0..MaxPrinted
      BY <3>1, <3>2 DEF ClientInv, Numbers
    <3> HIDE DEF copied
    <3>4. Flags'
      BY <3>2 DEF ClientInv, Flags
    <3>5. Numbers'
      BY <3>2, <3>3, PacketTyped DEF ClientInv, Numbers
    <3> QED
      BY <3>2, <3>4, <3>5, OutputStep
  <2> QED
    BY <2>1, <2>2
<1>3. CASE ReceiveStatus(m)
  <2>1. m.t = "STATUS" => m.n \in Statuses
    BY DEF AnyPacket, Packet
  <2>2. Flags'
    BY <1>3 DEF ReceiveStatus, ReadsOn, ClientInv, Flags
  <2>3. Numbers'
    BY <1>3, <2>1, PacketTyped DEF ReceiveStatus, ReadsOn, ClientInv, Numbers
  <2> QED
    BY <1>3, <2>2, <2>3, CountTyped, OutputStep DEF ReceiveStatus, ReadsOn
<1>4. CASE ReceiveEof(m)
  BY <1>4, ExitStep, StatusTyped DEF ReceiveEof, ChannelEnds
<1>5. CASE ReceiveOther(m)
  <2>1. Flags'
    BY <1>5 DEF ReceiveOther, ReadsOn, ClientInv, Flags
  <2>2. Numbers'
    BY <1>5, PacketTyped DEF ReceiveOther, ReadsOn, ClientInv, Numbers
  <2> QED
    BY <1>5, <2>1, <2>2, CountTyped, OutputStep DEF ReceiveOther, ReadsOn
<1>6. CASE InputLine
  <2>1. Flags'
    BY <1>6 DEF InputLine, ClientInv, Flags
  <2>2. Numbers'
    BY <1>6, PacketTyped DEF InputLine, SentTypes, ClientInv, Numbers
  <2> QED
    BY <1>6, <2>1, <2>2, OutputStep DEF InputLine
<1>7. CASE InputEnds
  BY <1>7, ExitStep DEF InputEnds, ClientInv, StatusInSession, SIGPIPE, Signals
<1> QED
  BY <1>1, <1>2, <1>3, <1>4, <1>5, <1>6, <1>7

\* The two ends that do not go through Exit: CLOSE, which also closes the
\* channel, and the last unanswered keepalive.
LEMMA CloseInv ==
    ASSUME ClientInv, NEW m, ReceiveClose(m)
    PROVE  ClientInv'
<1> USE DEF ReceiveClose, ClientInv, tcpVars, kexVars, loginVars, aliveVars
<1>1. Flags'
  BY DEF Flags
<1>2. Numbers'
  BY StatusTyped, PacketTyped DEF Numbers
<1>3. stack = <<>>
  BY DEF Places, KexNests, KexWaits
<1>4. Places'
  BY <1>3 DEF Places, KexNests, PCs, KexWaits
<1>5. ExitMirrorsStatus'
  BY StatusTyped DEF ExitMirrorsStatus
<1>6. StatusInSession'
  BY <1>3 DEF StatusInSession, Base
<1> QED
  BY <1>1, <1>2, <1>4, <1>5, <1>6

LEMMA SliceInv ==
    ASSUME ClientInv, Slice
    PROVE  ClientInv'
<1> USE DEF Slice, ClientInv, tcpVars, kexVars, loginVars, channelVars
<1>1. Flags'
  BY DEF Flags
<1>2. quiet' \in Nat /\ unanswered' \in Nat
  BY DEF CountAlive, Numbers
<1>3. exit_code' \in Nat /\ sent' \in Seq(Wire)
  BY StatusTyped, PacketTyped DEF Numbers, SentTypes
<1>4. Numbers'
  BY <1>2, <1>3 DEF Numbers
<1>5. stack = <<>>
  BY DEF Places, KexNests, KexWaits
<1>6. Places'
  BY <1>5 DEF Places, KexNests, PCs, KexWaits
<1>7. ExitMirrorsStatus'
  BY StatusTyped DEF ExitMirrorsStatus
<1>8. StatusInSession'
  BY <1>5 DEF StatusInSession, Base
<1> QED
  BY <1>1, <1>4, <1>6, <1>7, <1>8

\* What fails.
LEMMA BreakInv ==
    ASSUME ClientInv, Broken \/ WaitBreaks \/ WaitEnds
    PROVE  ClientInv'
BY FailStep, ExitStep, DrainedStep
   DEF Broken, WaitBreaks, WaitEnds, SIGPIPE, Signals

----------------------------------------------------------------------------
LEMMA NextClientInv ==
    ASSUME ClientInv, [Next]_vars
    PROVE  ClientInv'
<1>1. ASSUME NEW m \in AnyPacket, Receive(m)
      PROVE  ClientInv'
  <2>1. CASE LongLine(m) \/ BannerLine(m) \/ IdentLine(m)
    BY <2>1, ConnectInv, StartKexInv
  <2>2. CASE Kexinit(m) \/ ServerKexinit(m) \/ EcdhReply(m) \/ NewKeys(m) \/ Discard(m)
    BY <2>2, KexMoveInv, ServerKexinitInv, NewKeysInv
  <2>3. CASE UserauthService(m) \/ Accepted(m) \/ Rejected(m)
    BY <2>3, LoginInv
  <2>4. CASE ConnectionService(m) \/ OpenConfirmed(m) \/ PtyGranted(m) \/ Started(m)
             \/ Refused(m)
    BY <2>4, SessionInv
  <2>5. CASE ReceiveData(m) \/ ReceiveStatus(m) \/ ReceiveEof(m) \/ ReceiveOther(m)
    BY <2>5, OutputInv
  <2>6. CASE ReceiveClose(m)
    BY <2>6, CloseInv
  <2> QED
    BY <1>1, <2>1, <2>2, <2>3, <2>4, <2>5, <2>6 DEF Receive
<1>2. CASE Broken \/ WaitBreaks \/ WaitEnds
  BY <1>2, BreakInv
<1>3. CASE Readable \/ InputLine \/ InputEnds
  <2>1. Packet("OTHER") \in AnyPacket
    BY DEF AnyPacket
  <2> QED
    BY <1>3, <2>1, OutputInv
<1>4. CASE Slice
  BY <1>4, SliceInv
<1>5. CASE Connect \/ ConnectFails
  BY <1>5, ConnectInv
<1>6. CASE Credentials \/ Prompt \/ \E trusted \in BOOLEAN : VerifyHostKey(trusted)
  BY <1>6, LoginInv
<1>7. CASE Rekey
  BY <1>7, StartKexInv
<1>8. CASE UNCHANGED vars
  BY <1>8 DEF vars, tcpVars, kexVars, loginVars, channelVars, aliveVars, ClientInv, Flags,
       Places, KexNests, Numbers, ExitMirrorsStatus, StatusInSession, Base
<1> QED
  BY <1>1, <1>2, <1>3, <1>4, <1>5, <1>6, <1>7, <1>8 DEF Next, User, Local

\* The inductive invariant holds whatever the server sends and wherever main()
\* of the client is.
THEOREM ClientInvariant == Spec => []ClientInv
BY InitClientInv, NextClientInv, PTL DEF Spec

\* Key exchanges return to the call they interrupted, however deep, a wait reads
\* at most WAITMAX packets, and every variable keeps its type, whatever the
\* server sends.
THEOREM ClientTypeCorrect == Spec => []TypeOK
<1>1. ClientInv => TypeOK
  BY TypeParts DEF ClientInv
<1> QED
  BY <1>1, ClientInvariant, PTL

\* A command's exit code is the low byte of the remote status once one has
\* come, whatever ended the output behind it, unless a signal kills the client.
THEOREM StatusMirrored == Spec => []ExitMirrorsStatus
<1>1. ClientInv => ExitMirrorsStatus
  BY DEF ClientInv
<1> QED
  BY <1>1, ClientInvariant, PTL
=============================================================================
