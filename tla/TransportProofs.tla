-------------------------- MODULE TransportProofs ---------------------------
(***************************************************************************)
(* The packet layer for packets of every length, any number of data        *)
(* packets, re-exchanges and failures, and any modulus of the sequence     *)
(* numbers.                                                                *)
(***************************************************************************)
EXTENDS Transport, SequenceTheorems, TLAPS

KeySet == Nat \X Nat \X Nat
Types == {"KEXINIT", "ECDH_INIT", "ECDH_REPLY", "NEWKEYS", "DATA"}
Messages == [type : Types, len : Nat, x : Nat]
Packets == [type : Types, x : Nat, packet_len : Nat, padding_len : Nat, key : KeySet,
            ctr : Nat, seq : Nat, whole : BOOLEAN]
Payloads == [type : Types \cup {"GARBAGE"}, len : Int, x : Nat]

ClientPCs == {"kexinit", "kexwait", "ecdh", "replywait", "newkeys", "nkwait", "data",
              "kexanswer", "failed", "closed"}
ServerPCs == {"kexinit", "kexreply", "ecdh", "reply", "newkeys", "nkwait", "data",
              "rekeyed", "x_kexreply", "x_ecdh", "x_reply", "x_newkeys", "x_switch",
              "x_nkwait", "failed", "closed"}

TypeOK ==
    /\ foreign \in BOOLEAN
    /\ pc \in [Ends -> ClientPCs \cup ServerPCs]
    /\ pc["client"] \in ClientPCs /\ pc["server"] \in ServerPCs
    /\ rekeying \in BOOLEAN
    /\ shared \in [Ends -> Nat] /\ session_id \in [Ends -> Nat]
    /\ out_key \in [Ends -> KeySet] /\ in_key \in [Ends -> KeySet]
    /\ out_ctr \in [Ends -> Nat] /\ in_ctr \in [Ends -> Nat]
    /\ send_seq \in [Ends -> Nat] /\ recv_seq \in [Ends -> Nat]
    /\ wire \in [Ends -> Seq(Packets)] /\ tried \in [Ends -> Seq(Packets)]
    /\ got \in [Ends -> Seq(Payloads)]
    /\ rekeys \in Nat /\ faults \in Nat

USE TransportAssumption

----------------------------------------------------------------------------
(* Packets.                                                                *)

\* Padding to a full block always exists, 4 bytes at least.
LEMMA PaddingExists ==
    ASSUME NEW len \in Nat, NEW key
    PROVE  LET padding == PaddingLen(len, BlockSize(key))
           IN  /\ padding \in Nat
               /\ padding \in MINPAD..(MINPAD + BlockSize(key) - 1)
               /\ (1 + len + padding + 4) % BlockSize(key) = 0
<1>1. \E p \in 4..19 : (1 + len + p + 4) % 16 = 0
  OBVIOUS
<1>2. \E p \in 4..11 : (1 + len + p + 4) % 8 = 0
  OBVIOUS
<1>3. PaddingLen(len, 16) \in 4..19 /\ (1 + len + PaddingLen(len, 16) + 4) % 16 = 0
  <2>1. MINPAD..(MINPAD + 16 - 1) = 4..19
    BY DEF MINPAD
  <2> QED
    BY <1>1, <2>1, Zenon DEF PaddingLen
<1>4. PaddingLen(len, 8) \in 4..11 /\ (1 + len + PaddingLen(len, 8) + 4) % 8 = 0
  <2>1. MINPAD..(MINPAD + 8 - 1) = 4..11
    BY DEF MINPAD
  <2> QED
    BY <1>2, <2>1, Zenon DEF PaddingLen
<1>5. BlockSize(key) \in {8, 16}
  BY DEF BlockSize, PLAINBLOCK, AESBLOCK
<1> QED
  BY <1>3, <1>4, <1>5 DEF MINPAD

LEMMA PacketTyped ==
    ASSUME TypeOK, NEW e \in Ends, NEW m \in Messages
    PROVE  /\ Packet(e, m) \in Packets
           /\ Packet(e, m).type = m.type /\ Packet(e, m).x = m.x
           /\ Packet(e, m).key = out_key[e] /\ Packet(e, m).ctr = out_ctr[e]
           /\ Packet(e, m).seq = send_seq[e] /\ Packet(e, m).whole = TRUE
           /\ Packet(e, m).packet_len = 1 + m.len + Packet(e, m).padding_len
<1> DEFINE padding == PaddingLen(m.len, BlockSize(out_key[e]))
<1>1. padding \in Nat
  BY PaddingExists DEF Messages
<1> HIDE DEF padding
<1>2. Packet(e, m) = [type |-> m.type, x |-> m.x, packet_len |-> 1 + m.len + padding,
         padding_len |-> padding, key |-> out_key[e], ctr |-> out_ctr[e],
         seq |-> send_seq[e], whole |-> TRUE]
  BY DEF Packet, padding
<1>3. 1 + m.len + padding \in Nat
  BY <1>1 DEF Messages
<1> QED
  BY <1>1, <1>2, <1>3 DEF Packets, TypeOK, Messages

\* A packet takes at least one block.
LEMMA BlocksPositive ==
    ASSUME NEW p \in Packets
    PROVE  Blocks(p) \in Nat \ {0}
<1>1. p.packet_len \in Nat
  BY DEF Packets
<1> QED
  BY <1>1 DEF Blocks, AESBLOCK

LEMMA PayloadTyped ==
    ASSUME NEW p \in Packets
    PROVE  Payload(p) \in Payloads /\ Payload(p).type = p.type /\ Payload(p).x = p.x
<1>1. p.packet_len - 1 - p.padding_len \in Int
  BY DEF Packets
<1> QED
  BY <1>1 DEF Payload, Payloads, Packets

LEMMA MessageTyped ==
    /\ \A type \in Types \ {"DATA"} : \A x \in Nat :
         Message(type, x) \in Messages /\ Message(type, x).type = type /\ Message(type, x).x = x
    /\ \A len \in DataLens :
         Data(len) \in Messages /\ Data(len).type = "DATA" /\ Data(len).x = 0
BY DEF Message, Data, Messages, Types, PayloadLen

----------------------------------------------------------------------------
(* Types.                                                                  *)

\* A packet goes to send(), with either outcome.
Put(e, p) == (Sent(e, p) /\ UNCHANGED faults) \/ Unsent(e, p)

LEMMA SeqModulo == \A n \in Nat : (n + 1) % SEQ \in Nat
OBVIOUS

LEMMA PutTyped ==
    ASSUME TypeOK, NEW e \in Ends, NEW p \in Packets, Put(e, p)
    PROVE  /\ out_ctr' \in [Ends -> Nat] /\ send_seq' \in [Ends -> Nat]
           /\ wire' \in [Ends -> Seq(Packets)] /\ tried' \in [Ends -> Seq(Packets)]
           /\ faults' \in Nat
<1>1. out_ctr' \in [Ends -> Nat]
  <2> HIDE TransportAssumption
  <2>0. out_ctr[e] \in Nat /\ Blocks(p) \in Nat
    BY BlocksPositive DEF TypeOK
  <2>1. out_ctr[e] + Blocks(p) \in Nat
    BY <2>0
  <2>2. out_ctr' \in {out_ctr, [out_ctr EXCEPT ![e] = @ + Blocks(p)]}
    BY Zenon DEF Put, Sent, Unsent, Advance
  <2> QED
    BY <2>1, <2>2 DEF TypeOK
<1>2. send_seq' \in [Ends -> Nat]
  <2>1. (send_seq[e] + 1) % SEQ \in Nat
    BY SeqModulo DEF TypeOK
  <2>2. send_seq' \in {send_seq, [send_seq EXCEPT ![e] = (@ + 1) % SEQ]}
    BY Zenon DEF Put, Sent, Unsent
  <2> QED
    BY <2>1, <2>2 DEF TypeOK
<1>3. [p EXCEPT !.whole = FALSE] \in Packets
  BY DEF Packets
<1>4. wire' \in [Ends -> Seq(Packets)]
  <2>1. wire' \in {wire, [wire EXCEPT ![e] = Append(@, p)],
                   [wire EXCEPT ![e] = Append(@, [p EXCEPT !.whole = FALSE])]}
    BY Zenon DEF Put, Sent, Unsent
  <2>2. Append(wire[e], p) \in Seq(Packets)
        /\ Append(wire[e], [p EXCEPT !.whole = FALSE]) \in Seq(Packets)
    BY <1>3 DEF TypeOK
  <2> QED
    BY <2>1, <2>2 DEF TypeOK
<1>5. tried' \in [Ends -> Seq(Packets)]
  <2>1. tried' = [tried EXCEPT ![e] = Append(@, p)]
    BY Zenon DEF Put, Sent, Unsent
  <2>2. Append(tried[e], p) \in Seq(Packets)
    BY DEF TypeOK
  <2> QED
    BY <2>1, <2>2 DEF TypeOK
<1>6. faults' \in Nat
  <2>1. faults' \in {faults, faults + 1}
    BY Zenon DEF Put, Sent, Unsent
  <2> QED
    BY <2>1 DEF TypeOK
<1> QED
  BY <1>1, <1>2, <1>4, <1>5, <1>6

LEMMA TakeTyped ==
    ASSUME TypeOK, NEW e \in Ends, Incoming(e)
    PROVE  /\ Peer(e) \in Ends /\ First(e) \in Packets /\ First(e) = wire[Peer(e)][1]
           /\ Take(e) => /\ wire' \in [Ends -> Seq(Packets)] /\ recv_seq' \in [Ends -> Nat]
                         /\ got' \in [Ends -> Seq(Payloads)]
<1>1. Peer(e) \in Ends
  BY DEF Peer, Ends
<1>2. wire[Peer(e)] \in Seq(Packets) /\ wire[Peer(e)] # <<>>
  BY <1>1 DEF TypeOK, Incoming
<1>3. First(e) \in Packets /\ First(e) = wire[Peer(e)][1]
  BY <1>2 DEF First
<1>4. ASSUME Take(e)
      PROVE  /\ wire' \in [Ends -> Seq(Packets)] /\ recv_seq' \in [Ends -> Nat]
             /\ got' \in [Ends -> Seq(Payloads)]
  <2>1. wire' \in [Ends -> Seq(Packets)]
    BY <1>1, <1>2, <1>4 DEF Take, TypeOK
  <2>2. recv_seq' \in [Ends -> Nat]
    <3>1. (recv_seq[e] + 1) % SEQ \in Nat
      BY SeqModulo DEF TypeOK
    <3> QED
      BY <3>1, <1>4 DEF Take, TypeOK
  <2>3. got' \in [Ends -> Seq(Payloads)]
    <3>0. Payload(First(e)) \in Payloads
      BY <1>3, PayloadTyped
    <3>2. got[e] \in Seq(Payloads)
      BY DEF TypeOK
    <3>1. Append(got[e], Payload(First(e))) \in Seq(Payloads)
      BY <3>0, <3>2
    <3> QED
      BY <3>1, <1>4 DEF Take, TypeOK
  <2> QED
    BY <2>1, <2>2, <2>3
<1> QED
  BY <1>1, <1>3, <1>4

LEMMA ConsumeTyped ==
    ASSUME TypeOK, NEW e \in Ends, NEW p \in Packets, Consume(e, p)
    PROVE  /\ in_ctr' \in [Ends -> Nat]
           /\ in_ctr' = IF in_key[e] = NOKEY THEN in_ctr
                        ELSE [in_ctr EXCEPT ![e] = @ + Blocks(p)]
<1>0. in_ctr[e] \in Nat /\ Blocks(p) \in Nat
  BY BlocksPositive DEF TypeOK
<1>1. /\ in_ctr[e] + 1 + (Blocks(p) - 1) = in_ctr[e] + Blocks(p)
      /\ in_ctr[e] + Blocks(p) \in Nat
  BY <1>0
<1>2. in_ctr' = IF in_key[e] = NOKEY THEN in_ctr
                ELSE [in_ctr EXCEPT ![e] = @ + Blocks(p)]
  BY <1>1 DEF Consume
<1> QED
  BY <1>1, <1>2 DEF TypeOK

LEMMA InitTyped == Init => TypeOK
<1> SUFFICES ASSUME Init PROVE TypeOK
  OBVIOUS
<1> USE DEF Init
<1>1. pc["client"] \in ClientPCs /\ pc["server"] \in ServerPCs
      /\ pc \in [Ends -> ClientPCs \cup ServerPCs] /\ rekeying \in BOOLEAN
  BY DEF Ends, ClientPCs, ServerPCs
<1>2. out_key \in [Ends -> KeySet] /\ in_key \in [Ends -> KeySet]
  BY DEF NOKEY, KeySet
<1>3. wire \in [Ends -> Seq(Packets)] /\ tried \in [Ends -> Seq(Packets)]
      /\ got \in [Ends -> Seq(Payloads)]
  OBVIOUS
<1> QED
  BY <1>1, <1>2, <1>3 DEF TypeOK

\* A message that an end sends, and where it goes from there.
SendKinds ==
    {<<"client", "kexinit", "KEXINIT", "kexwait">>, <<"client", "ecdh", "ECDH_INIT", "replywait">>,
     <<"client", "newkeys", "NEWKEYS", "nkwait">>, <<"client", "kexanswer", "KEXINIT", "ecdh">>,
     <<"server", "kexreply", "KEXINIT", "ecdh">>, <<"server", "reply", "ECDH_REPLY", "newkeys">>,
     <<"server", "newkeys", "NEWKEYS", "nkwait">>, <<"server", "data", "KEXINIT", "rekeyed">>,
     <<"server", "x_kexreply", "KEXINIT", "x_ecdh">>,
     <<"server", "x_reply", "ECDH_REPLY", "x_newkeys">>,
     <<"server", "x_newkeys", "NEWKEYS", "x_switch">>}

SendX(e, type) ==
    IF type = "ECDH_INIT" THEN shared[e] + 1 ELSE IF type = "ECDH_REPLY" THEN shared[e] ELSE 0

\* Every step that sends in a key exchange has this form.
KexSend(k) ==
    /\ pc[k[1]] = k[2]
    /\ Send(k[1], Message(k[3], SendX(k[1], k[3])), k[4])
    /\ UNCHANGED crypto
    /\ rekeys' \in {rekeys, rekeys + 1}
    /\ k[2] = "data" => rekeys' = rekeys + 1

KexSends ==
    \/ ClientSendsKexinit \/ ClientSendsEcdh \/ ClientSendsNewkeys \/ ClientAnswers
    \/ ServerSendsKexinit \/ ServerSendsReply \/ ServerSendsNewkeys
    \/ ForeignBegins \/ ForeignAnswers \/ ForeignSendsReply \/ ForeignSendsNewkeys

LEMMA KexSendForm ==
    ASSUME TypeOK, KexSends
    PROVE  \E k \in SendKinds : KexSend(k)
BY Zenon DEF TypeOK, KexSends, KexSend, SendKinds, SendX, Established, ClientSendsKexinit,
       ClientSendsEcdh, ClientSendsNewkeys, ClientAnswers, ServerSendsKexinit,
       ServerSendsReply, ServerSendsNewkeys, ForeignBegins, ForeignAnswers,
       ForeignSendsReply, ForeignSendsNewkeys

LEMMA GotoTyped ==
    ASSUME TypeOK, NEW e \in Ends, NEW where, Goto(e, where),
           where \in IF e = "client" THEN ClientPCs ELSE ServerPCs
    PROVE  /\ pc' \in [Ends -> ClientPCs \cup ServerPCs]
           /\ pc'["client"] \in ClientPCs /\ pc'["server"] \in ServerPCs
           /\ pc'[e] = where /\ pc'[Peer(e)] = pc[Peer(e)]
           /\ rekeying' \in BOOLEAN
<1>1. rekeying' \in BOOLEAN
  BY Zenon DEF TypeOK, Goto
<1> QED
  BY <1>1 DEF TypeOK, Goto, Ends, Peer

\* Where an end is when its exchange has failed.
LEMMA GivesUpForm ==
    ASSUME TypeOK, NEW e \in Ends, NEW where \in {"failed", "closed"}, GivesUp(e, where)
    PROVE  /\ pc' \in [Ends -> ClientPCs \cup ServerPCs]
           /\ pc'["client"] \in ClientPCs /\ pc'["server"] \in ServerPCs
           /\ rekeying' \in BOOLEAN /\ pc'[Peer(e)] = pc[Peer(e)]
           /\ \/ Goto(e, where) /\ pc'[e] = where
              \/ e = "client" /\ rekeying /\ Goto(e, "data") /\ pc'[e] = "data"
<1>1. {where, "data"} \subseteq ClientPCs /\ {where, "data"} \subseteq ServerPCs
  BY DEF ClientPCs, ServerPCs
<1>2. CASE Goto(e, where)
  BY <1>1, <1>2, GotoTyped
<1>3. CASE e = "client" /\ rekeying /\ Goto(e, "data")
  BY <1>1, <1>3, GotoTyped
<1> QED
  BY <1>2, <1>3, Zenon DEF GivesUp, GoesOn

LEMMA KexSendTyped ==
    ASSUME TypeOK, NEW k \in SendKinds, KexSend(k)
    PROVE  LET m == Message(k[3], SendX(k[1], k[3]))
           IN  /\ k[1] \in Ends /\ m \in Messages /\ m.type = k[3]
               /\ m.x = SendX(k[1], k[3]) /\ m.x \in Nat
               /\ Packet(k[1], m) \in Packets /\ Put(k[1], Packet(k[1], m))
               /\ Goto(k[1], k[4]) \/ (GivesUp(k[1], "failed") /\ faults' = faults + 1)
               /\ k[4] \in (IF k[1] = "client" THEN ClientPCs ELSE ServerPCs)
               /\ UNCHANGED <<foreign, crypto, in_ctr, recv_seq, got>>
<1> DEFINE m == Message(k[3], SendX(k[1], k[3]))
<1>1. k[1] \in Ends /\ k[3] \in Types \ {"DATA"}
      /\ k[4] \in (IF k[1] = "client" THEN ClientPCs ELSE ServerPCs)
  BY DEF SendKinds, Ends, Types, ClientPCs, ServerPCs
<1>2. SendX(k[1], k[3]) \in Nat
  <2>0. shared[k[1]] \in Nat
    BY <1>1 DEF TypeOK
  <2>1. shared[k[1]] \in Nat /\ shared[k[1]] + 1 \in Nat
    BY <2>0
  <2> QED
    BY <2>1, Zenon DEF SendX
<1>3. m \in Messages /\ m.type = k[3] /\ m.x = SendX(k[1], k[3])
  BY <1>1, <1>2, MessageTyped
<1> HIDE DEF m
<1>4. Packet(k[1], m) \in Packets
  BY <1>1, <1>3, PacketTyped
<1>5. Send(k[1], m, k[4])
  BY DEF KexSend, m
<1>6. Put(k[1], Packet(k[1], m))
      /\ (Goto(k[1], k[4]) \/ (GivesUp(k[1], "failed") /\ faults' = faults + 1))
      /\ UNCHANGED <<foreign, in_ctr, recv_seq, got>>
  BY <1>5, Zenon DEF Send, Put, Unsent
<1> QED
  BY <1>1, <1>2, <1>3, <1>4, <1>6, Zenon DEF m, KexSend, crypto

\* The steps that take a packet off the wire and leave the keys.
Accepts(e) ==
    IF e = "client"
    THEN ClientKexinit \/ ClientReply \/ ClientData \/ (ClientNewkeys /\ ~(First(e).type = "NEWKEYS"))
    ELSE \/ ServerKexinit \/ ServerEcdh \/ ServerData \/ ForeignKexinit \/ ForeignEcdh
         \/ ForeignOther
         \/ (ServerNewkeys /\ ~(First(e).type = "NEWKEYS"))

\* The steps that take a NEWKEYS and new keys for receiving.
Switches(e) ==
    IF e = "client" THEN ClientNewkeys /\ First(e).type = "NEWKEYS"
    ELSE ForeignNewkeys \/ (ServerNewkeys /\ First(e).type = "NEWKEYS")

\* The steps that only move an end.
Moves(e) ==
    Close(e) \/ RecvFails(e) \/ Hangup(e) \/ (e = "client" /\ ClientRekey)

LEMMA StepForms ==
    ASSUME Next
    PROVE  \/ KexSends \/ ForeignSwitchesOut
           \/ \E e \in Ends : \/ SendData(e) \/ Accepts(e) \/ Switches(e) \/ Moves(e)
                              \/ Reject(e)
<1>1. "client" \in Ends /\ "server" \in Ends /\ "server" # "client"
  BY DEF Ends
<1> QED
  BY <1>1, Zenon DEF Next, ClientExchange, ServerExchange, Foreign, KexSends, Accepts, Switches,
     Moves

LEMMA SendDataTyped ==
    ASSUME TypeOK, NEW e \in Ends, SendData(e)
    PROVE  \E m \in Messages :
              /\ m.type = "DATA" /\ pc[e] = "data"
              /\ Packet(e, m) \in Packets /\ Put(e, Packet(e, m))
              /\ UNCHANGED control \/ (Goto(e, "failed") /\ faults' = faults + 1)
              /\ UNCHANGED <<foreign, crypto, in_ctr, recv_seq, got, rekeys>>
<1>1. PICK len \in DataLens :
             LET p == Packet(e, Data(len))
             IN  \/ Sent(e, p) /\ UNCHANGED <<control, faults>>
                 \/ Unsent(e, p) /\ (Goto(e, "failed") \/ UNCHANGED control)
  BY Zenon DEF SendData
<1>2. Data(len) \in Messages /\ Data(len).type = "DATA"
  BY MessageTyped
<1>3. Packet(e, Data(len)) \in Packets
  BY <1>2, PacketTyped
<1>4. Put(e, Packet(e, Data(len)))
      /\ (UNCHANGED control \/ (Goto(e, "failed") /\ faults' = faults + 1))
  BY <1>1, Zenon DEF Put, Unsent
<1>5. UNCHANGED <<foreign, crypto, in_ctr, recv_seq, got, rekeys>> /\ pc[e] = "data"
  BY Zenon DEF SendData, Established
<1> QED
  BY <1>2, <1>3, <1>4, <1>5

\* What the steps that take a packet do to the variables.
LEMMA AcceptsForm ==
    ASSUME TypeOK, NEW e \in Ends, Accepts(e)
    PROVE  /\ Receiving(e) /\ Incoming(e) /\ Authentic(e, First(e)) /\ Take(e)
           /\ Consume(e, First(e))
           /\ UNCHANGED <<foreign, out_ctr, out_key, in_key, send_seq, tried, faults, rekeys>>
<1>1. e = "client" \/ e = "server"
  BY DEF Ends
<1>2. Receiving(e)
  BY <1>1 DEF Accepts, Receiving, ClientKexinit, ClientReply, ClientData, ClientNewkeys,
     ServerKexinit, ServerEcdh, ServerData, ForeignKexinit, ForeignEcdh, ForeignOther, ServerNewkeys,
     Established
<1>3. Take(e) /\ Consume(e, First(e)) /\ UNCHANGED <<out_ctr, out_key, in_key, rekeys>>
  BY <1>1, Zenon DEF Accepts, Accept, ClientKexinit, ClientReply, ClientData, ClientNewkeys,
     ServerKexinit, ServerEcdh, ServerData, ForeignKexinit, ForeignEcdh, ForeignOther, ServerNewkeys
<1> QED
  BY <1>2, <1>3, Zenon DEF Take

\* ... and where they go.
LEMMA AcceptsGoto ==
    ASSUME TypeOK, NEW e \in Ends, Accepts(e)
    PROVE  /\ pc' \in [Ends -> ClientPCs \cup ServerPCs]
           /\ pc'["client"] \in ClientPCs /\ pc'["server"] \in ServerPCs
           /\ pc'[Peer(e)] = pc[Peer(e)] /\ rekeying' \in BOOLEAN
           /\ shared' \in [Ends -> Nat] /\ session_id' \in [Ends -> Nat]
<1>1. e = "client" \/ e = "server"
  BY DEF Ends
<1>2. \/ UNCHANGED control
      \/ \E where : /\ where \in IF e = "client" THEN ClientPCs ELSE ServerPCs
                    /\ Goto(e, where)
  <2>1. CASE e = "client"
    <3>1. "data" \in ClientPCs /\ "ecdh" \in ClientPCs /\ "failed" \in ClientPCs
          /\ "newkeys" \in ClientPCs /\ "kexanswer" \in ClientPCs
      BY DEF ClientPCs
    <3> QED
      BY <2>1, <3>1, Zenon DEF Accepts, ClientKexinit, ClientReply, ClientData, ClientNewkeys,
         GivesUp, GoesOn
  <2>2. CASE e = "server"
    <3>1. /\ "data" \in ServerPCs /\ "failed" \in ServerPCs /\ "kexreply" \in ServerPCs
          /\ "reply" \in ServerPCs /\ "x_kexreply" \in ServerPCs /\ "x_ecdh" \in ServerPCs
          /\ "rekeyed" \in ServerPCs /\ "x_reply" \in ServerPCs /\ "server" # "client"
      BY DEF ServerPCs
    <3> QED
      BY <2>2, <3>1, Zenon DEF Accepts, ServerKexinit, ServerEcdh, ServerData, ForeignKexinit,
         ForeignEcdh, ForeignOther, ServerNewkeys
  <2> QED
    BY <1>1, <2>1, <2>2
<1>3. First(e).x \in Nat
  BY AcceptsForm, TakeTyped DEF Packets
<1>4. /\ shared' \in {shared, [shared EXCEPT ![e] = First(e).x]}
      /\ session_id' \in {session_id, [session_id EXCEPT ![e] = First(e).x]}
  BY <1>1, Zenon DEF Accepts, ClientKexinit, ClientReply, ClientData, ClientNewkeys,
     ServerKexinit, ServerEcdh, ServerData, ForeignKexinit, ForeignEcdh, ForeignOther, ServerNewkeys, Agree
<1>5. shared' \in [Ends -> Nat] /\ session_id' \in [Ends -> Nat]
  BY <1>3, <1>4 DEF TypeOK
<1>6. CASE UNCHANGED control
  BY <1>5, <1>6 DEF TypeOK, control
<1>7. CASE \E where : /\ where \in IF e = "client" THEN ClientPCs ELSE ServerPCs
                      /\ Goto(e, where)
  BY <1>5, <1>7, GotoTyped
<1> QED
  BY <1>2, <1>6, <1>7, Zenon

LEMMA SwitchesForm ==
    ASSUME TypeOK, NEW e \in Ends, Switches(e)
    PROVE  /\ Receiving(e) /\ Incoming(e) /\ Authentic(e, First(e)) /\ Take(e)
           /\ First(e).type = "NEWKEYS" /\ Goto(e, "data") /\ pc[e] \in {"nkwait", "x_nkwait"}
           /\ in_key' = [in_key EXCEPT ![e] = in_key'[e]]
           /\ in_key'[e] \in {KeyBlock(e), <<shared[e], shared[e], session_id[e]>>}
           /\ in_ctr' = [in_ctr EXCEPT ![e] = 0]
           /\ \/ /\ pc[e] = "nkwait" /\ out_key' = [out_key EXCEPT ![e] = KeyBlock(e)]
                 /\ in_key'[e] = KeyBlock(e) /\ out_ctr' = [out_ctr EXCEPT ![e] = 0]
              \/ pc[e] = "x_nkwait" /\ UNCHANGED <<out_key, out_ctr>>
           /\ UNCHANGED <<foreign, shared, session_id, send_seq, tried, faults, rekeys>>
<1>1. e = "client" \/ e = "server"
  BY DEF Ends
<1>2. /\ Take(e) /\ First(e).type = "NEWKEYS" /\ Goto(e, "data")
      /\ UNCHANGED <<shared, session_id, rekeys>>
      /\ \/ pc[e] = "nkwait" /\ DeriveTransportKeys(e)
         \/ /\ e = "server" /\ pc[e] = "x_nkwait"
            /\ in_key' = [in_key EXCEPT ![e] = <<shared[e], shared[e], session_id[e]>>]
            /\ in_ctr' = [in_ctr EXCEPT ![e] = 0]
            /\ UNCHANGED <<out_key, out_ctr>>
  BY <1>1, Zenon DEF Switches, ClientNewkeys, ServerNewkeys, ForeignNewkeys, ForeignKey
<1>3. Receiving(e)
  BY <1>1, <1>2 DEF Receiving
<1>4. /\ in_key' = [in_key EXCEPT ![e] = in_key'[e]]
      /\ in_key'[e] \in {KeyBlock(e), <<shared[e], shared[e], session_id[e]>>}
      /\ in_ctr' = [in_ctr EXCEPT ![e] = 0]
      /\ \/ /\ pc[e] = "nkwait" /\ out_key' = [out_key EXCEPT ![e] = KeyBlock(e)]
            /\ in_key'[e] = KeyBlock(e) /\ out_ctr' = [out_ctr EXCEPT ![e] = 0]
         \/ pc[e] = "x_nkwait" /\ UNCHANGED <<out_key, out_ctr>>
  <2>1. in_key \in [Ends -> KeySet]
    BY DEF TypeOK
  <2> QED
    BY <1>2, <2>1 DEF DeriveTransportKeys
<1> QED
  BY <1>2, <1>3, <1>4 DEF Take

\* A packet whose first bytes are gone.
Damaged(e) == Incoming(e) /\ wire' = [wire EXCEPT ![Peer(e)][1].whole = FALSE]

LEMMA DamagedForm ==
    ASSUME TypeOK, NEW e \in Ends, Damaged(e)
    PROVE  LET V == wire'[Peer(e)]
               W == wire[Peer(e)]
           IN  /\ wire' \in [Ends -> Seq(Packets)] /\ wire'[e] = wire[e]
               /\ W \in Seq(Packets) /\ V \in Seq(Packets)
               /\ Len(V) = Len(W) /\ DOMAIN V = DOMAIN W /\ 1 \in DOMAIN W
               /\ V[1] = [W[1] EXCEPT !.whole = FALSE]
               /\ \A i \in DOMAIN W :
                    /\ V[i].type = W[i].type /\ V[i].x = W[i].x /\ V[i].key = W[i].key
                    /\ i # 1 => V[i] = W[i]
<1> DEFINE b == Peer(e)
           W == wire[b]
           p == [W[1] EXCEPT !.whole = FALSE]
           V == [W EXCEPT ![1] = p]
<1>1. b \in Ends /\ b # e
  BY DEF Peer, Ends
<1>2. W \in Seq(Packets) /\ W # <<>> /\ wire \in [Ends -> Seq(Packets)]
      /\ wire' = [wire EXCEPT ![b] = V]
  BY <1>1 DEF TypeOK, Damaged, Incoming
<1>3. 1 \in DOMAIN W /\ W[1] \in Packets
  BY <1>2
<1>4. p \in Packets /\ p.type = W[1].type /\ p.x = W[1].x /\ p.key = W[1].key
  BY <1>3 DEF Packets
<1> HIDE DEF p
<1>5. V \in Seq(Packets) /\ Len(V) = Len(W) /\ DOMAIN V = DOMAIN W /\ V[1] = p
      /\ \A i \in DOMAIN W : i # 1 => V[i] = W[i]
  BY <1>2, <1>3, <1>4
<1> HIDE DEF V, W
<1>6. wire' \in [Ends -> Seq(Packets)] /\ wire'[e] = wire[e] /\ wire'[b] = V
  BY <1>1, <1>2, <1>5
<1> QED
  BY <1>2, <1>3, <1>4, <1>5, <1>6, Zenon DEF W, p, b

LEMMA MovesForm ==
    ASSUME TypeOK, NEW e \in Ends, Moves(e)
    PROVE  /\ \E where \in {"closed", "failed"}
                        \cup (IF e = "client" THEN {"kexinit", "data"} ELSE {}) :
                /\ Goto(e, where)
                /\ where = "failed" => faults' = faults + 1
                /\ where = "kexinit" => rekeys' = rekeys + 1 /\ pc[e] = "data"
                /\ where = "data" => rekeying
                /\ where = "data" \/ UNCHANGED wire
           /\ UNCHANGED wire \/ (e = "client" /\ rekeying /\ Damaged(e))
           /\ faults' \in {faults, faults + 1} /\ rekeys' \in {rekeys, rekeys + 1}
           /\ Receiving(e)
           /\ UNCHANGED <<foreign, crypto, counters, tried, got>>
<1>1. e = "client" \/ e = "server"
  BY DEF Ends
<1>2. Receiving(e)
  BY <1>1 DEF Moves, Close, RecvFails, Hangup, ClientRekey, Receiving, Established
<1>3. CASE Close(e)
  BY <1>2, <1>3 DEF Close
<1>4. CASE RecvFails(e)
  <2>1. /\ faults' = faults + 1 /\ UNCHANGED <<foreign, crypto, counters, tried, got, rekeys>>
        /\ \/ UNCHANGED wire /\ Goto(e, "failed")
           \/ /\ e = "client" /\ rekeying /\ Goto(e, "data")
              /\ UNCHANGED wire \/ Damaged(e)
    BY <1>4, Zenon DEF RecvFails, GivesUp, GoesOn, Damaged
  <2> QED
    BY <1>2, <2>1, Zenon
<1>5. CASE Hangup(e)
  <2>1. /\ UNCHANGED <<foreign, crypto, counters, wire, tried, got, rekeys, faults>>
        /\ Goto(e, "closed") \/ (e = "client" /\ rekeying /\ Goto(e, "data"))
    BY <1>5, Zenon DEF Hangup, GivesUp, GoesOn
  <2> QED
    BY <1>2, <2>1, Zenon
<1>6. CASE e = "client" /\ ClientRekey
  BY <1>2, <1>6 DEF ClientRekey, Established
<1> QED
  BY <1>3, <1>4, <1>5, <1>6 DEF Moves

LEMMA PutStepTyped ==
    ASSUME TypeOK, NEW e \in Ends, NEW p \in Packets, Put(e, p),
           pc' \in [Ends -> ClientPCs \cup ServerPCs],
           pc'["client"] \in ClientPCs, pc'["server"] \in ServerPCs,
           rekeying' \in BOOLEAN, rekeys' \in Nat,
           UNCHANGED <<foreign, crypto, in_ctr, recv_seq, got>>
    PROVE  TypeOK'
<1>1. /\ out_ctr' \in [Ends -> Nat] /\ send_seq' \in [Ends -> Nat]
      /\ wire' \in [Ends -> Seq(Packets)] /\ tried' \in [Ends -> Seq(Packets)]
      /\ faults' \in Nat
  BY PutTyped
<1> QED
  BY <1>1, Zenon DEF TypeOK, crypto

LEMMA TypeStep == TypeOK /\ [Next]_vars => TypeOK'
<1> SUFFICES ASSUME TypeOK, Next PROVE TypeOK'
  BY Zenon DEF TypeOK, vars, control, crypto, counters
<1>1. ASSUME NEW k \in SendKinds, KexSend(k) PROVE TypeOK'
  <2>1. /\ pc' \in [Ends -> ClientPCs \cup ServerPCs]
        /\ pc'["client"] \in ClientPCs /\ pc'["server"] \in ServerPCs
        /\ rekeying' \in BOOLEAN
    BY <1>1, KexSendTyped, GotoTyped, GivesUpForm
  <2>2. rekeys' \in Nat
    <3>1. rekeys' \in {rekeys, rekeys + 1} /\ rekeys \in Nat
      BY <1>1 DEF KexSend, TypeOK
    <3> QED
      BY <3>1
  <2> QED
    BY <1>1, <2>1, <2>2, KexSendTyped, PutStepTyped
<1>2. ASSUME NEW e \in Ends, SendData(e) PROVE TypeOK'
  <2>1. PICK m \in Messages :
              /\ Packet(e, m) \in Packets /\ Put(e, Packet(e, m))
              /\ UNCHANGED control \/ Goto(e, "failed")
              /\ UNCHANGED <<foreign, crypto, in_ctr, recv_seq, got, rekeys>>
    BY <1>2, SendDataTyped, Zenon
  <2>2. /\ pc' \in [Ends -> ClientPCs \cup ServerPCs]
        /\ pc'["client"] \in ClientPCs /\ pc'["server"] \in ServerPCs
        /\ rekeying' \in BOOLEAN
    <3>1. "failed" \in ClientPCs /\ "failed" \in ServerPCs
      BY DEF ClientPCs, ServerPCs
    <3>2. CASE UNCHANGED control
      BY <3>2 DEF TypeOK, control
    <3>3. CASE Goto(e, "failed")
      BY <3>1, <3>3, GotoTyped
    <3> QED
      BY <2>1, <3>2, <3>3
  <2>3. rekeys' \in Nat
    BY <2>1 DEF TypeOK
  <2> QED
    BY <2>1, <2>2, <2>3, PutStepTyped
<1>3. ASSUME NEW e \in Ends, Accepts(e) PROVE TypeOK'
  <2>1. in_ctr' \in [Ends -> Nat]
    BY <1>3, AcceptsForm, TakeTyped, ConsumeTyped
  <2>2. wire' \in [Ends -> Seq(Packets)] /\ recv_seq' \in [Ends -> Nat]
        /\ got' \in [Ends -> Seq(Payloads)]
    BY <1>3, AcceptsForm, TakeTyped
  <2>3. UNCHANGED <<foreign, out_ctr, out_key, in_key, send_seq, tried, faults, rekeys>>
    BY <1>3, AcceptsForm
  <2> QED
    BY <1>3, <2>1, <2>2, <2>3, AcceptsGoto, Zenon DEF TypeOK
<1>4. ASSUME NEW e \in Ends, Switches(e) PROVE TypeOK'
  <2>1. "data" \in ClientPCs /\ "data" \in ServerPCs
    BY DEF ClientPCs, ServerPCs
  <2>2. /\ pc' \in [Ends -> ClientPCs \cup ServerPCs]
        /\ pc'["client"] \in ClientPCs /\ pc'["server"] \in ServerPCs
        /\ rekeying' \in BOOLEAN
    BY <1>4, <2>1, SwitchesForm, GotoTyped
  <2>3. wire' \in [Ends -> Seq(Packets)] /\ recv_seq' \in [Ends -> Nat]
        /\ got' \in [Ends -> Seq(Payloads)]
    BY <1>4, SwitchesForm, TakeTyped
  <2>4. in_ctr' \in [Ends -> Nat] /\ out_ctr' \in [Ends -> Nat]
    <3>1. in_ctr' = [in_ctr EXCEPT ![e] = 0]
          /\ out_ctr' \in {out_ctr, [out_ctr EXCEPT ![e] = 0]}
      BY <1>4, SwitchesForm, Zenon
    <3>2. in_ctr \in [Ends -> Nat] /\ out_ctr \in [Ends -> Nat]
      BY DEF TypeOK
    <3> QED
      BY <3>1, <3>2
  <2>5. KeyBlock(e) \in KeySet /\ <<shared[e], shared[e], session_id[e]>> \in KeySet
    BY DEF KeyBlock, KeySet, TypeOK
  <2>6. in_key' \in [Ends -> KeySet] /\ out_key' \in [Ends -> KeySet]
    <3>1. /\ in_key' = [in_key EXCEPT ![e] = in_key'[e]]
          /\ in_key'[e] \in {KeyBlock(e), <<shared[e], shared[e], session_id[e]>>}
          /\ out_key' \in {out_key, [out_key EXCEPT ![e] = KeyBlock(e)]}
      BY <1>4, SwitchesForm, Zenon
    <3> QED
      BY <2>5, <3>1, ZenonT(30) DEF TypeOK
  <2>7. UNCHANGED <<foreign, shared, session_id, send_seq, tried, faults, rekeys>>
    BY <1>4, SwitchesForm
  <2> QED
    BY <2>2, <2>3, <2>4, <2>6, <2>7, Zenon DEF TypeOK
<1>5. ASSUME NEW e \in Ends, Moves(e) PROVE TypeOK'
  <2>1. /\ pc' \in [Ends -> ClientPCs \cup ServerPCs]
        /\ pc'["client"] \in ClientPCs /\ pc'["server"] \in ServerPCs
        /\ rekeying' \in BOOLEAN
    <3>1. PICK where \in {"closed", "failed"}
                          \cup (IF e = "client" THEN {"kexinit", "data"} ELSE {}) :
                Goto(e, where)
      BY <1>5, MovesForm
    <3>2. where \in IF e = "client" THEN ClientPCs ELSE ServerPCs
      BY <3>1 DEF ClientPCs, ServerPCs
    <3> QED
      BY <3>1, <3>2, GotoTyped
  <2>2. rekeys' \in Nat /\ faults' \in Nat
    <3>1. /\ rekeys' \in {rekeys, rekeys + 1} /\ rekeys \in Nat
          /\ faults' \in {faults, faults + 1} /\ faults \in Nat
      BY <1>5, MovesForm DEF TypeOK
    <3> QED
      BY <3>1
  <2>3. UNCHANGED <<foreign, crypto, counters, tried, got>>
    BY <1>5, MovesForm
  <2>4. wire' \in [Ends -> Seq(Packets)]
    BY <1>5, MovesForm, DamagedForm DEF TypeOK
  <2> QED
    BY <2>1, <2>2, <2>3, <2>4, Zenon DEF TypeOK, crypto, counters
<1>6. ASSUME NEW e \in Ends, Reject(e) PROVE TypeOK'
  <2>1. /\ pc' \in [Ends -> ClientPCs \cup ServerPCs]
        /\ pc'["client"] \in ClientPCs /\ pc'["server"] \in ServerPCs
        /\ rekeying' \in BOOLEAN
    BY <1>6, GivesUpForm DEF Reject
  <2>2. got' \in [Ends -> Seq(Payloads)]
    <3>1. GARBAGE \in Payloads
      BY DEF GARBAGE, Payloads
    <3>2. Append(got[e], GARBAGE) \in Seq(Payloads)
      BY <3>1 DEF TypeOK
    <3>3. got' \in {got, [got EXCEPT ![e] = Append(@, GARBAGE)]}
      BY <1>6, Zenon DEF Reject
    <3> QED
      BY <3>2, <3>3 DEF TypeOK
  <2> QED
    BY <1>6, <2>1, <2>2, Zenon DEF TypeOK, crypto, counters, Reject
<1>7. ASSUME ForeignSwitchesOut PROVE TypeOK'
  <2>1. "server" \in Ends /\ "x_nkwait" \in ServerPCs /\ "server" # "client"
    BY DEF Ends, ServerPCs
  <2>2. /\ pc' \in [Ends -> ClientPCs \cup ServerPCs]
        /\ pc'["client"] \in ClientPCs /\ pc'["server"] \in ServerPCs
        /\ rekeying' \in BOOLEAN
    BY <1>7, <2>1, GotoTyped DEF ForeignSwitchesOut
  <2>3. ForeignKey \in KeySet
    BY <2>1 DEF ForeignKey, KeySet, TypeOK
  <2>4. out_key' \in [Ends -> KeySet] /\ out_ctr' \in [Ends -> Nat]
    BY <1>7, <2>1, <2>3 DEF ForeignSwitchesOut, TypeOK
  <2> QED
    BY <1>7, <2>2, <2>4, Zenon DEF TypeOK, ForeignSwitchesOut
<1> QED
  BY <1>1, <1>2, <1>3, <1>4, <1>5, <1>6, <1>7, StepForms, KexSendForm

\* Every variable keeps its type: keys, counters and sequence numbers stay
\* numbers, and each end stays at a place of its own code.
THEOREM TransportTypeCorrect == Spec => []TypeOK
BY InitTyped, TypeStep, PTL DEF Spec

----------------------------------------------------------------------------
(* No cipher block is used twice.                                          *)

\* Whose turn it is in the exchange.  The server has it until it sends its
\* KEXINIT; it goes back and forth with the messages that follow, and the
\* client's NEWKEYS returns it.
Holds(e) ==
    pc[e] \in IF e = "client" THEN {"kexanswer", "ecdh", "newkeys"}
              ELSE {"kexinit", "kexreply", "data", "x_kexreply", "reply", "x_reply"}

Turns(e) == IF e = "client" THEN {"ECDH_INIT", "NEWKEYS"} ELSE {"KEXINIT", "ECDH_REPLY"}

InFlight(e, types) == {i \in DOMAIN wire[e] : wire[e][i].type \in types}
Passed(e) == InFlight(e, Turns(e))

\* The turn is at one place, or lost: with a packet, or with a client that has
\* left its rekey.
OneTurn ==
    /\ \A e \in Ends : \A i, j \in Passed(e) : i = j
    /\ \A i \in Passed("client") : \A j \in Passed("server") : FALSE
    /\ \A e \in Ends : Holds(e) => ~Holds(Peer(e)) /\ \A d \in Ends : \A i \in Passed(d) : FALSE

\* The server has the client's half and owes it the reply.
Owing == pc["server"] \in {"reply", "x_reply"}

Even == shared["server"] = shared["client"]
Odd == shared["server"] = shared["client"] + 1

\* Between the client's half and the reply the server is one exchange ahead;
\* what is under way carries the exchange after the one its receiver has.
SecretsAgree ==
    /\ Even \/ Odd
    /\ Holds("client") \/ pc["client"] = "nkwait" => Even
    /\ Holds("server") => IF Owing THEN Odd ELSE Even
    /\ \A i \in Passed("server") :
         IF wire["server"][i].type = "KEXINIT" THEN Even
         ELSE Odd /\ wire["server"][i].x = shared["server"]
    /\ \A i \in Passed("client") :
         /\ Even
         /\ wire["client"][i].type = "ECDH_INIT" =>
              wire["client"][i].x = shared["client"] + 1 /\ pc["client"] # "nkwait"

OneExchange == OneTurn /\ SecretsAgree

\* Between taking a new secret and using it.
Ahead == {"newkeys", "nkwait", "reply", "x_reply", "x_newkeys", "x_switch"}

\* The keys of an end grow with the exchanges: it has never used a key of the
\* exchange that it is about to take into use.
KeysGrow ==
    \A e \in Ends :
        /\ out_key[e][1] <= shared[e]
        /\ pc[e] \in Ahead => out_key[e][1] < shared[e]
        /\ \A i \in DOMAIN tried[e] :
             /\ tried[e][i].key[1] <= out_key[e][1]
             /\ tried[e][i].key[1] = out_key[e][1] => tried[e][i].key = out_key[e]

\* The counter is past every block that was used of the present key.
CounterPast ==
    \A e \in Ends : \A i \in DOMAIN tried[e] :
        tried[e][i].key = out_key[e] /\ out_key[e] # NOKEY
          => tried[e][i].ctr + Blocks(tried[e][i]) <= out_ctr[e]

StreamInv == TypeOK /\ OneExchange /\ KeysGrow /\ CounterPast /\ KeystreamFresh

\* What is told apart of a packet in the exchange.
Alike(p, q) == p.type = q.type /\ p.x = q.x /\ p.key = q.key

\* The packets of some types on a wire after a step, in terms of those before
\* it: the same ones, moved up by at most one place.
Kept(e, types) ==
    \E s \in {0, 1} : \A i \in InFlight(e, types)' :
        i \in Nat /\ i + s \in InFlight(e, types) /\ Alike(wire'[e][i], wire[e][i + s])

LEMMA TailOf ==
    ASSUME NEW S, NEW s \in Seq(S), s # <<>>
    PROVE  /\ Len(s) \in Nat \ {0} /\ Len(Tail(s)) = Len(s) - 1 /\ 1 \in DOMAIN s /\ Head(s) = s[1]
           /\ DOMAIN Tail(s) = 1..(Len(s) - 1) /\ DOMAIN s = 1..Len(s)
           /\ \A i \in DOMAIN Tail(s) :
                i \in Nat \ {0} /\ i + 1 \in DOMAIN s /\ Tail(s)[i] = s[i + 1]
OBVIOUS

LEMMA AppendOf ==
    ASSUME NEW S, NEW s \in Seq(S), NEW r \in S
    PROVE  /\ Len(s) \in Nat /\ Len(Append(s, r)) = Len(s) + 1
           /\ DOMAIN Append(s, r) = 1..(Len(s) + 1) /\ DOMAIN s = 1..Len(s)
           /\ Append(s, r)[Len(s) + 1] = r
           /\ \A i \in DOMAIN s : i \in Nat /\ i \in DOMAIN Append(s, r) /\ Append(s, r)[i] = s[i]
           /\ \A i \in DOMAIN Append(s, r) :
                \/ i \in Nat /\ i \in DOMAIN s /\ Append(s, r)[i] = s[i]
                \/ i = Len(s) + 1 /\ Append(s, r)[i] = r
OBVIOUS

LEMMA TakeKept ==
    ASSUME TypeOK, NEW e \in Ends, Take(e), NEW d \in Ends, NEW types
    PROVE  /\ Kept(d, types)
           /\ 1 \in DOMAIN wire[Peer(e)] /\ First(e) = wire[Peer(e)][1]
           /\ \A i \in InFlight(Peer(e), types)' :
                 /\ i \in Nat \ {0} /\ i + 1 \in InFlight(Peer(e), types)
                 /\ Alike(wire'[Peer(e)][i], wire[Peer(e)][i + 1])
           /\ wire'[e] = wire[e]
<1> DEFINE b == Peer(e)
<1>1. b \in Ends /\ b # e
  BY DEF Peer, Ends
<1>2. wire[b] \in Seq(Packets) /\ wire[b] # <<>> /\ wire \in [Ends -> Seq(Packets)]
      /\ wire' = [wire EXCEPT ![b] = Tail(@)] /\ First(e) = Head(wire[b])
  BY <1>1, Zenon DEF TypeOK, Take, Incoming, First
<1>3. wire'[b] = Tail(wire[b]) /\ \A f \in Ends : f # b => wire'[f] = wire[f]
  BY <1>1, <1>2
<1> HIDE DEF b
<1>4. \A i \in InFlight(b, types)' :
         /\ i \in Nat \ {0} /\ i + 1 \in InFlight(b, types)
         /\ Alike(wire'[b][i], wire[b][i + 1])
  <2>1. \A i \in DOMAIN wire'[b] :
           i \in Nat \ {0} /\ i + 1 \in DOMAIN wire[b] /\ wire'[b][i] = wire[b][i + 1]
    <3>1. \A i \in DOMAIN Tail(wire[b]) :
             i \in Nat \ {0} /\ i + 1 \in DOMAIN wire[b] /\ Tail(wire[b])[i] = wire[b][i + 1]
      BY <1>2, TailOf
    <3> QED
      BY <3>1, <1>3, Zenon
  <2> QED
    BY <2>1 DEF InFlight, Alike
<1>5. d # b => \A i \in InFlight(d, types)' : i \in Nat /\ i \in InFlight(d, types)
                 /\ Alike(wire'[d][i], wire[d][i]) /\ i + 0 = i
  <2>1. d # b => wire'[d] = wire[d] /\ wire[d] \in Seq(Packets)
    BY <1>2, <1>3
  <2> QED
    BY <2>1 DEF InFlight, Alike
<1>6. Kept(d, types)
  BY <1>4, <1>5 DEF Kept
<1>7. 1 \in DOMAIN wire[b] /\ First(e) = wire[b][1]
  BY <1>2, TailOf
<1>8. wire'[e] = wire[e]
  BY <1>1, <1>3
<1> QED
  BY <1>4, <1>6, <1>7, <1>8 DEF b

LEMMA PutKept ==
    ASSUME TypeOK, NEW e \in Ends, NEW p \in Packets, Put(e, p), NEW d \in Ends, NEW types
    PROVE  /\ d # e \/ p.type \notin types => Kept(d, types)
           /\ \A i \in InFlight(e, types)' :
                 \/ i \in InFlight(e, types) /\ Alike(wire'[e][i], wire[e][i])
                 \/ i = Len(wire[e]) + 1 /\ p.type \in types /\ Alike(wire'[e][i], p)
           /\ wire'[Peer(e)] = wire[Peer(e)]
<1> DEFINE q == [p EXCEPT !.whole = FALSE]
<1>1. q \in Packets /\ Alike(q, p)
  BY DEF Packets, Alike
<1> HIDE DEF q
<1>2. PICK r \in {p, q} : wire' \in {wire, [wire EXCEPT ![e] = Append(@, r)]}
  BY Zenon DEF Put, Sent, Unsent, q
<1>3. r \in Packets /\ Alike(r, p)
  BY <1>1 DEF Alike
<1>4. wire \in [Ends -> Seq(Packets)]
  BY DEF TypeOK
<1>5. /\ wire'[e] \in {wire[e], Append(wire[e], r)}
      /\ \A f \in Ends : f # e => wire'[f] = wire[f]
  BY <1>2, <1>4
<1>6. \A i \in InFlight(e, types)' :
         \/ i \in Nat /\ i \in InFlight(e, types) /\ Alike(wire'[e][i], wire[e][i])
         \/ i = Len(wire[e]) + 1 /\ p.type \in types /\ Alike(wire'[e][i], p)
  <2>0. wire[e] \in Seq(Packets)
    BY <1>4
  <2>1. CASE wire'[e] = wire[e]
    BY <2>0, <2>1 DEF InFlight, Alike
  <2>2. CASE wire'[e] = Append(wire[e], r)
    <3>1. \A i \in DOMAIN wire'[e] :
             \/ i \in Nat /\ i \in DOMAIN wire[e] /\ wire'[e][i] = wire[e][i]
             \/ i = Len(wire[e]) + 1 /\ wire'[e][i] = r
      BY <1>3, <2>0, <2>2, AppendOf
    <3> QED
      BY <3>1, <1>3 DEF InFlight, Alike
  <2> QED
    BY <1>5, <2>1, <2>2
<1>7. d # e => \A i \in InFlight(d, types)' : i \in Nat /\ i \in InFlight(d, types)
                 /\ Alike(wire'[d][i], wire[d][i])
  <2>1. d # e => wire'[d] = wire[d] /\ wire[d] \in Seq(Packets)
    BY <1>4, <1>5
  <2> QED
    BY <2>1 DEF InFlight, Alike
<1>8. d # e \/ p.type \notin types => Kept(d, types)
  <2>1. \A i \in Nat : i + 0 = i
    OBVIOUS
  <2> QED
    BY <1>6, <1>7, <2>1 DEF Kept
<1>9. Peer(e) \in Ends /\ Peer(e) # e
  BY DEF Peer, Ends
<1> QED
  BY <1>5, <1>6, <1>8, <1>9

\* A wire that only may have lost the beginning of its first packet.
LEMMA StillKept ==
    ASSUME TypeOK, NEW e \in Ends, UNCHANGED wire \/ Damaged(e), NEW d \in Ends, NEW types
    PROVE  /\ Kept(d, types)
           /\ \A i \in InFlight(d, types)' :
                i \in InFlight(d, types) /\ Alike(wire'[d][i], wire[d][i])
           /\ InFlight(d, types)' = InFlight(d, types)
<1>1. wire[d] \in Seq(Packets) /\ (d = e \/ d = Peer(e))
  BY DEF TypeOK, Ends, Peer
<1>2. DOMAIN wire'[d] = DOMAIN wire[d]
      /\ \A i \in DOMAIN wire[d] : Alike(wire'[d][i], wire[d][i])
  <2>1. CASE wire'[d] = wire[d]
    BY <2>1 DEF Alike
  <2>2. CASE Damaged(e) /\ d = Peer(e)
    BY <2>2, DamagedForm DEF Alike
  <2>3. CASE Damaged(e) /\ d = e
    BY <2>1, <2>3, DamagedForm
  <2> QED
    BY <1>1, <2>1, <2>2, <2>3
<1>3. \A i \in InFlight(d, types)' :
         i \in Nat /\ i + 0 = i /\ i \in InFlight(d, types) /\ Alike(wire'[d][i], wire[d][i])
  BY <1>1, <1>2 DEF InFlight, Alike
<1>4. InFlight(d, types)' = InFlight(d, types)
  BY <1>2 DEF InFlight, Alike
<1> QED
  BY <1>3, <1>4 DEF Kept

\* The turn stays where it is, or is lost.
LEMMA QuietExchange ==
    ASSUME TypeOK, OneExchange, UNCHANGED shared,
           \A e \in Ends : Holds(e)' => Holds(e),
           Holds("server")' => (Owing' <=> Owing),
           pc'["client"] = "nkwait" => pc["client"] = "nkwait",
           \A e \in Ends : Kept(e, Turns(e))
    PROVE  OneExchange'
<1>0. "client" \in Ends /\ "server" \in Ends
  BY DEF Ends
<1>1. \A e \in Ends : \E s \in {0, 1} : \A i \in Passed(e)' :
            i \in Nat /\ i + s \in Passed(e) /\ Alike(wire'[e][i], wire[e][i + s])
  BY Zenon DEF Kept, Passed, Turns
<1>2. OneTurn'
  <2>1. \A e \in Ends : \A i, j \in Passed(e)' : i = j
    <3> SUFFICES ASSUME NEW e \in Ends, NEW i \in Passed(e)', NEW j \in Passed(e)' PROVE i = j
      OBVIOUS
    <3>1. PICK s \in {0, 1} : \A k \in Passed(e)' : k \in Nat /\ k + s \in Passed(e)
      BY <1>1
    <3>2. i + s = j + s /\ i \in Nat /\ j \in Nat
      BY <3>1 DEF OneExchange, OneTurn
    <3> QED
      BY <3>2
  <2>2. \A e \in Ends : Passed(e)' # {} => Passed(e) # {}
    BY <1>1
  <2>3. \A e \in Ends : Holds(e)' => ~Holds(Peer(e)) /\ \A d \in Ends : \A i \in Passed(d) : FALSE
    BY Zenon DEF OneExchange, OneTurn
  <2>4. \A e \in Ends : Holds(e)' => ~Holds(Peer(e))' /\ \A d \in Ends : \A i \in Passed(d)' : FALSE
    <3>1. \A e \in Ends : Peer(e) \in Ends
      BY DEF Peer, Ends
    <3> QED
      BY <2>2, <2>3, <3>1, Zenon
  <2>5. \A i \in Passed("client")' : \A j \in Passed("server")' : FALSE
    BY <1>0, <2>2, Zenon DEF OneExchange, OneTurn
  <2> QED
    BY <2>1, <2>4, <2>5, Zenon DEF OneTurn, Peer
<1>3. SecretsAgree'
  <2>1. Even' = Even /\ Odd' = Odd
    BY DEF Even, Odd
  <2>2. \A i \in Passed("server")' :
         IF wire'["server"][i].type = "KEXINIT" THEN Even
         ELSE Odd /\ wire'["server"][i].x = shared["server"]
    BY <1>0, <1>1 DEF OneExchange, SecretsAgree, Alike
  <2>3. \A i \in Passed("client")' :
         /\ Even
         /\ wire'["client"][i].type = "ECDH_INIT" =>
              wire'["client"][i].x = shared["client"] + 1 /\ pc'["client"] # "nkwait"
    BY <1>0, <1>1 DEF OneExchange, SecretsAgree, Alike
  <2>4. /\ Even \/ Odd
        /\ Holds("client")' \/ pc'["client"] = "nkwait" => Even
        /\ Holds("server")' => IF Owing' THEN Odd ELSE Even
    BY <1>0, Zenon DEF OneExchange, SecretsAgree
  <2> QED
    BY <2>1, <2>2, <2>3, <2>4, Zenon DEF SecretsAgree
<1> QED
  BY <1>2, <1>3 DEF OneExchange

\* The end whose turn it is sends the message that passes it on.
LEMMA TurnPassed ==
    ASSUME TypeOK, OneExchange, NEW e \in Ends, Holds(e), ~Holds(e)', pc'[Peer(e)] = pc[Peer(e)],
           NEW p \in Packets, Put(e, p)
    PROVE  /\ OneTurn' /\ ~Holds("client")' /\ ~Holds("server")'
           /\ \A i \in Passed(e)' : Alike(wire'[e][i], p)
           /\ \A i \in Passed(Peer(e))' : FALSE
<1>1. Peer(e) \in Ends /\ Peer(e) # e /\ Peer(Peer(e)) = e /\ Ends = {e, Peer(e)}
  BY DEF Peer, Ends
<1>2. ~Holds(Peer(e)) /\ \A d \in Ends : \A i \in Passed(d) : FALSE
  BY DEF OneExchange, OneTurn
<1>3. ~Holds(Peer(e))'
  BY <1>2 DEF Holds, Peer
<1>4. \A i \in Passed(e)' : i = Len(wire[e]) + 1 /\ Alike(wire'[e][i], p)
  BY <1>2, PutKept DEF Passed
<1>5. \A i \in Passed(Peer(e))' : FALSE
  BY <1>1, <1>2, PutKept DEF Passed, InFlight
<1>6. \A d \in Ends : ~Holds(d)'
  BY <1>1, <1>3
<1>7. "client" \in Ends /\ "server" \in Ends
  BY DEF Ends
<1>8. \A d \in Ends : \A i, j \in Passed(d)' : i = j
  BY <1>1, <1>4, <1>5
<1>9. \A i \in Passed("client")' : \A j \in Passed("server")' : FALSE
  BY <1>1, <1>5, <1>7
<1>10. OneTurn'
  BY <1>6, <1>8, <1>9, Zenon DEF OneTurn
<1> QED
  BY <1>4, <1>5, <1>6, <1>7, <1>10

\* An end takes the message that gives it the turn.
LEMMA TurnTaken ==
    ASSUME TypeOK, OneExchange, NEW e \in Ends, Take(e), First(e).type \in Turns(Peer(e)),
           pc'[Peer(e)] = pc[Peer(e)]
    PROVE  /\ OneTurn' /\ ~Holds(Peer(e))' /\ \A d \in Ends : \A i \in Passed(d)' : FALSE
           /\ 1 \in Passed(Peer(e)) /\ First(e) = wire[Peer(e)][1]
<1>1. Peer(e) \in Ends /\ Peer(e) # e /\ Peer(Peer(e)) = e /\ Ends = {e, Peer(e)}
  BY DEF Peer, Ends
<1>2. /\ 1 \in Passed(Peer(e)) /\ First(e) = wire[Peer(e)][1]
      /\ \A i \in Passed(Peer(e))' : i \in Nat \ {0} /\ i + 1 \in Passed(Peer(e))
      /\ wire'[e] = wire[e]
  BY <1>1, TakeKept DEF Passed, InFlight
<1>3. ~Holds(e) /\ ~Holds(Peer(e)) /\ \A i \in Passed(e) : FALSE
  BY <1>1, <1>2 DEF OneExchange, OneTurn, Ends, Peer
<1>4. ~Holds(Peer(e))'
  BY <1>3 DEF Holds, Peer
<1>5. \A i \in Passed(e)' : FALSE
  BY <1>2, <1>3 DEF Passed, InFlight
<1>6. \A i \in Passed(Peer(e))' : FALSE
  BY <1>1, <1>2 DEF OneExchange, OneTurn
<1>7. \A d \in Ends : \A i \in Passed(d)' : FALSE
  BY <1>1, <1>5, <1>6
<1>8. \A d \in Ends : Holds(d)' => ~Holds(Peer(d))'
  BY <1>1, <1>4
<1>9. "client" \in Ends
  BY DEF Ends
<1>10. OneTurn'
  BY <1>7, <1>8, <1>9, Zenon DEF OneTurn, Peer
<1> QED
  BY <1>2, <1>4, <1>7, <1>10

LEMMA ExchangeSends ==
    ASSUME TypeOK, OneExchange, NEW k \in SendKinds, KexSend(k)
    PROVE  OneExchange'
<1> DEFINE e == k[1]
           m == Message(k[3], SendX(k[1], k[3]))
           p == Packet(e, m)
<1>1. /\ e \in Ends /\ m \in Messages /\ m.type = k[3] /\ m.x = SendX(k[1], k[3]) /\ m.x \in Nat
      /\ p \in Packets /\ Put(e, p)
      /\ Goto(e, k[4]) \/ GivesUp(e, "failed")
      /\ pc[e] = k[2] /\ shared' = shared
  BY KexSendTyped, Zenon DEF KexSend, crypto
<1>2. p.type = k[3] /\ p.x = SendX(k[1], k[3])
  BY <1>1, PacketTyped, ZenonT(30)
<1> HIDE DEF m, p
<1>3. "client" \in Ends /\ "server" \in Ends /\ pc \in [Ends -> ClientPCs \cup ServerPCs]
      /\ shared["client"] \in Nat /\ shared["server"] \in Nat
  BY DEF Ends, TypeOK
<1>4. /\ pc'[e] \in {k[4], "failed"} \/ (e = "client" /\ pc'[e] = "data")
      /\ \A f \in Ends : f # e => pc'[f] = pc[f]
  <2>1. Goto(e, k[4]) \/ Goto(e, "failed") \/ (e = "client" /\ Goto(e, "data"))
    BY <1>1, Zenon DEF GivesUp, GoesOn
  <2> QED
    BY <1>1, <1>3, <2>1 DEF Goto
<1>5. Even' = Even /\ Odd' = Odd
  BY <1>1 DEF Even, Odd
<1>6. CASE k[3] \notin Turns(e)
  <2>1. k \in {<<"client", "kexinit", "KEXINIT", "kexwait">>,
               <<"client", "kexanswer", "KEXINIT", "ecdh">>,
               <<"server", "newkeys", "NEWKEYS", "nkwait">>,
               <<"server", "x_newkeys", "NEWKEYS", "x_switch">>}
    BY <1>6 DEF SendKinds, Turns
  <2>2. /\ \A f \in Ends : Holds(f)' => Holds(f)
        /\ Holds("server")' => (Owing' <=> Owing)
        /\ pc'["client"] = "nkwait" => pc["client"] = "nkwait"
    BY <1>1, <1>3, <1>4, <2>1 DEF Holds, Owing, Ends
  <2>3. \A f \in Ends : Kept(f, Turns(f))
    BY <1>1, <1>2, <1>6, PutKept
  <2> QED
    BY <1>1, <2>2, <2>3, QuietExchange
<1>7. CASE k[3] \in Turns(e)
  <2>1. k \in {<<"client", "ecdh", "ECDH_INIT", "replywait">>,
               <<"client", "newkeys", "NEWKEYS", "nkwait">>,
               <<"server", "kexreply", "KEXINIT", "ecdh">>, <<"server", "reply", "ECDH_REPLY", "newkeys">>,
               <<"server", "data", "KEXINIT", "rekeyed">>,
               <<"server", "x_kexreply", "KEXINIT", "x_ecdh">>,
               <<"server", "x_reply", "ECDH_REPLY", "x_newkeys">>}
    BY <1>7 DEF SendKinds, Turns
  <2>2. Holds(e) /\ ~Holds(e)' /\ pc'[Peer(e)] = pc[Peer(e)]
    BY <1>1, <1>3, <1>4, <2>1 DEF Holds, Peer
  <2>3. /\ OneTurn' /\ ~Holds("client")' /\ ~Holds("server")'
        /\ \A i \in Passed(e)' : Alike(wire'[e][i], p)
        /\ \A i \in Passed(Peer(e))' : FALSE
    BY <1>1, <2>2, TurnPassed
  <2>4. CASE e = "client"
    <3>1. Even /\ \A i \in Passed("server")' : FALSE
      BY <2>2, <2>3, <2>4 DEF OneExchange, SecretsAgree, Peer
    <3>2. k[3] = "ECDH_INIT" => p.x = shared["client"] + 1 /\ pc'["client"] # "nkwait"
      BY <1>2, <1>4, <2>1, <2>4 DEF SendX
    <3>3. \A i \in Passed("client")' :
             wire'["client"][i].type = "ECDH_INIT" =>
               wire'["client"][i].x = shared'["client"] + 1 /\ pc'["client"] # "nkwait"
      BY <1>1, <1>2, <2>3, <2>4, <3>2 DEF Alike
    <3> QED
      BY <1>5, <2>3, <3>1, <3>3, Zenon DEF OneExchange, SecretsAgree
  <2>5. CASE e = "server"
    <3>1. \A i \in Passed("client")' : FALSE
      BY <2>3, <2>5 DEF Peer
    <3>2. (Even \/ Odd) /\ (pc'["client"] = "nkwait" => Even)
      BY <1>3, <1>4, <2>5 DEF OneExchange, SecretsAgree
    <3>3. IF Owing THEN Odd ELSE Even
      BY <2>2, <2>5 DEF OneExchange, SecretsAgree
    <3>4. IF k[3] = "KEXINIT" THEN Even ELSE Odd /\ p.x = shared["server"]
      BY <1>1, <1>2, <2>1, <2>5, <3>3 DEF Owing, SendX
    <3>5. \A i \in Passed("server")' :
             IF wire'["server"][i].type = "KEXINIT" THEN Even
             ELSE Odd /\ wire'["server"][i].x = shared'["server"]
      BY <1>1, <1>2, <2>3, <2>5, <3>4 DEF Alike
    <3> QED
      BY <1>5, <2>3, <3>1, <3>2, <3>5, Zenon DEF OneExchange, SecretsAgree
  <2> QED
    BY <1>1, <2>4, <2>5 DEF Ends
<1> QED
  BY <1>6, <1>7

\* Where the steps that take a packet give the turn to an end.
LEMMA AcceptTurns ==
    ASSUME TypeOK, NEW e \in Ends, Accepts(e)
    PROVE  \/ /\ e = "client" /\ First(e).type = "ECDH_REPLY"
              /\ shared' = [shared EXCEPT ![e] = First(e).x]
              /\ pc[e] = "replywait" /\ pc' = [pc EXCEPT ![e] = "newkeys"]
           \/ /\ e = "client" /\ First(e).type = "KEXINIT" /\ UNCHANGED shared
              /\ \/ pc[e] = "kexwait" /\ pc' = [pc EXCEPT ![e] = "ecdh"]
                 \/ pc[e] = "data" /\ pc' = [pc EXCEPT ![e] = "kexanswer"]
           \/ /\ e = "server" /\ First(e).type = "ECDH_INIT"
              /\ shared' = [shared EXCEPT ![e] = First(e).x]
              /\ \/ pc[e] = "ecdh" /\ pc' = [pc EXCEPT ![e] = "reply"]
                 \/ pc[e] = "x_ecdh" /\ pc' = [pc EXCEPT ![e] = "x_reply"]
           \/ /\ UNCHANGED shared
              /\ \/ UNCHANGED pc
                 \/ /\ e = "client" /\ pc[e] \in {"kexwait", "data"}
                    /\ \E where \in {"data", "failed"} : pc' = [pc EXCEPT ![e] = where]
                 \/ /\ e = "server"
                    /\ \E where \in {"failed", "kexreply", "data", "x_kexreply", "x_ecdh", "rekeyed"} :
                         /\ pc' = [pc EXCEPT ![e] = where]
                         /\ where = "kexreply" => pc[e] = "kexinit"
                         /\ where \in {"data", "x_kexreply"} => pc[e] = "data"
                         /\ where \in {"x_ecdh", "rekeyed"} => pc[e] = "rekeyed"
<1>1. CASE e = "client"
  BY <1>1 DEF Accepts, ClientKexinit, ClientReply, ClientData, ClientNewkeys, Goto, GivesUp,
     GoesOn, Agree, Established, control
<1>2. CASE e = "server"
  BY <1>2 DEF Accepts, ServerKexinit, ServerEcdh, ServerData, ForeignKexinit, ForeignEcdh,
     ForeignOther, ServerNewkeys, Goto, Agree, Established, control
<1> QED
  BY <1>1, <1>2 DEF Ends

LEMMA ExchangeAccepts ==
    ASSUME TypeOK, OneExchange, NEW e \in Ends, Accepts(e)
    PROVE  OneExchange'
<1>1. Take(e) /\ First(e) \in Packets
  BY AcceptsForm, TakeTyped
<1>2. /\ "client" \in Ends /\ "server" \in Ends /\ "client" # "server"
      /\ pc \in [Ends -> ClientPCs \cup ServerPCs]
      /\ shared \in [Ends -> Nat] /\ shared["client"] \in Nat /\ shared["server"] \in Nat
      /\ Peer("client") = "server" /\ Peer("server") = "client"
  BY DEF Ends, TypeOK, Peer
<1>3. \A f \in Ends : Kept(f, Turns(f))
  BY <1>1, TakeKept
<1>4. CASE /\ e = "client" /\ First(e).type \in {"ECDH_REPLY", "KEXINIT"}
           /\ \/ /\ shared' = [shared EXCEPT ![e] = First(e).x] /\ First(e).type = "ECDH_REPLY"
                 /\ pc' = [pc EXCEPT ![e] = "newkeys"]
              \/ /\ UNCHANGED shared /\ First(e).type = "KEXINIT"
                 /\ \E where \in {"ecdh", "kexanswer"} : pc' = [pc EXCEPT ![e] = where]
  <2>1. pc'["server"] = pc["server"] /\ First(e).type \in Turns("server")
    BY <1>2, <1>4 DEF Turns
  <2>2. /\ OneTurn' /\ ~Holds("server")' /\ \A d \in Ends : \A i \in Passed(d)' : FALSE
        /\ 1 \in Passed("server") /\ First(e) = wire["server"][1]
    BY <1>1, <1>2, <1>4, <2>1, TurnTaken
  <2>3. IF First(e).type = "KEXINIT" THEN Even ELSE Odd /\ First(e).x = shared["server"]
    BY <2>2 DEF OneExchange, SecretsAgree
  <2>4. Even'
    BY <1>2, <1>4, <2>3 DEF Even
  <2> QED
    BY <1>2, <2>2, <2>4, Zenon DEF OneExchange, SecretsAgree
<1>5. CASE /\ e = "server" /\ First(e).type = "ECDH_INIT"
           /\ shared' = [shared EXCEPT ![e] = First(e).x]
           /\ \E where \in {"reply", "x_reply"} : pc' = [pc EXCEPT ![e] = where]
  <2>1. pc'["client"] = pc["client"] /\ First(e).type \in Turns("client") /\ Owing'
    BY <1>2, <1>5 DEF Turns, Owing
  <2>2. /\ OneTurn' /\ ~Holds("client")' /\ \A d \in Ends : \A i \in Passed(d)' : FALSE
        /\ 1 \in Passed("client") /\ First(e) = wire["client"][1]
    BY <1>1, <1>2, <1>5, <2>1, TurnTaken
  <2>3. First(e).x = shared["client"] + 1 /\ pc["client"] # "nkwait"
    BY <1>5, <2>2 DEF OneExchange, SecretsAgree
  <2>4. Odd'
    BY <1>2, <1>5, <2>3 DEF Odd
  <2> QED
    BY <1>2, <2>1, <2>2, <2>3, <2>4, Zenon DEF OneExchange, SecretsAgree
<1>6. CASE /\ UNCHANGED shared
           /\ \/ UNCHANGED pc
              \/ /\ e = "client" /\ pc[e] \in {"kexwait", "data"}
                 /\ \E where \in {"data", "failed"} : pc' = [pc EXCEPT ![e] = where]
              \/ /\ e = "server"
                 /\ \E where \in {"failed", "kexreply", "data", "x_kexreply", "x_ecdh", "rekeyed"} :
                      /\ pc' = [pc EXCEPT ![e] = where]
                      /\ where = "kexreply" => pc[e] = "kexinit"
                      /\ where \in {"data", "x_kexreply"} => pc[e] = "data"
  <2>1. /\ \A f \in Ends : Holds(f)' => Holds(f)
        /\ Holds("server")' => (Owing' <=> Owing)
        /\ pc'["client"] = "nkwait" => pc["client"] = "nkwait"
    BY <1>2, <1>6 DEF Holds, Owing, Ends
  <2> QED
    BY <1>3, <1>6, <2>1, QuietExchange
<1> QED
  BY <1>4, <1>5, <1>6, AcceptTurns

LEMMA ExchangeStep == TypeOK /\ OneExchange /\ [Next]_vars => OneExchange'
<1> SUFFICES ASSUME TypeOK, OneExchange, [Next]_vars PROVE OneExchange'
  OBVIOUS
<1>0. /\ "client" \in Ends /\ "server" \in Ends /\ "client" # "server"
      /\ pc \in [Ends -> ClientPCs \cup ServerPCs]
  BY DEF Ends, TypeOK
<1>1. ASSUME NEW e \in Ends, UNCHANGED wire \/ Damaged(e), UNCHANGED shared,
             UNCHANGED pc \/ \E where \in {"closed", "failed", "x_nkwait"} \cup
                                 (IF e = "client" THEN {"kexinit", "data"} ELSE {}) : Goto(e, where)
      PROVE  OneExchange'
  <2>1. /\ \A f \in Ends : Holds(f)' => Holds(f)
        /\ Holds("server")' => (Owing' <=> Owing)
        /\ pc'["client"] = "nkwait" => pc["client"] = "nkwait"
    BY <1>0, <1>1 DEF Holds, Owing, Ends, Goto
  <2>2. \A f \in Ends : Kept(f, Turns(f))
    BY <1>1, StillKept
  <2> QED
    BY <1>1, <2>1, <2>2, QuietExchange
<1>2. CASE UNCHANGED vars
  <2>1. UNCHANGED wire /\ UNCHANGED shared /\ UNCHANGED pc
    BY <1>2 DEF vars, crypto, control
  <2> QED
    BY <1>0, <1>1, <2>1
<1>3. ASSUME NEW e \in Ends, SendData(e) PROVE OneExchange'
  <2>1. PICK m \in Messages :
              /\ m.type = "DATA" /\ pc[e] = "data"
              /\ Packet(e, m) \in Packets /\ Put(e, Packet(e, m))
              /\ UNCHANGED control \/ Goto(e, "failed")
              /\ UNCHANGED <<foreign, crypto, in_ctr, recv_seq, got, rekeys>>
    BY <1>3, SendDataTyped, Zenon
  <2>2. Packet(e, m).type = "DATA"
    BY <2>1, PacketTyped
  <2>3. \A f \in Ends : Kept(f, Turns(f))
    BY <2>1, <2>2, PutKept DEF Turns
  <2>4. UNCHANGED shared
    BY <2>1 DEF crypto
  <2>5. /\ \A f \in Ends : Holds(f)' => Holds(f)
        /\ Holds("server")' => (Owing' <=> Owing)
        /\ pc'["client"] = "nkwait" => pc["client"] = "nkwait"
    BY <1>0, <2>1 DEF Holds, Owing, Ends, Goto, control
  <2> QED
    BY <2>3, <2>4, <2>5, QuietExchange
<1>4. ASSUME NEW e \in Ends, Switches(e) PROVE OneExchange'
  <2>1. /\ Take(e) /\ Goto(e, "data") /\ pc[e] \in {"nkwait", "x_nkwait"} /\ UNCHANGED shared
        /\ First(e).type = "NEWKEYS"
    BY <1>4, SwitchesForm
  <2>2. CASE e = "client"
    <3>1. \A f \in Ends : Kept(f, Turns(f))
      BY <2>1, TakeKept
    <3>2. /\ \A f \in Ends : Holds(f)' => Holds(f)
          /\ Holds("server")' => (Owing' <=> Owing)
          /\ pc'["client"] = "nkwait" => pc["client"] = "nkwait"
      BY <1>0, <2>1, <2>2 DEF Holds, Owing, Ends, Goto
    <3> QED
      BY <2>1, <3>1, <3>2, QuietExchange
  <2>3. CASE e = "server"
    <3>1. /\ Peer(e) = "client" /\ pc'["client"] = pc["client"] /\ First(e).type \in Turns("client")
          /\ pc'["server"] = "data"
      BY <1>0, <2>1, <2>3 DEF Peer, Goto, Turns
    <3>2. /\ OneTurn' /\ ~Holds("client")' /\ \A d \in Ends : \A i \in Passed(d)' : FALSE
          /\ 1 \in Passed("client")
      BY <1>0, <2>1, <2>3, <3>1, TurnTaken
    <3>3. Even /\ Even' /\ ~Owing'
      BY <2>1, <3>1, <3>2 DEF OneExchange, SecretsAgree, Even, Owing
    <3> QED
      BY <1>0, <3>2, <3>3, Zenon DEF OneExchange, SecretsAgree
  <2> QED
    BY <2>2, <2>3 DEF Ends
<1>5. ASSUME NEW e \in Ends, Moves(e) PROVE OneExchange'
  <2>1. PICK where \in {"closed", "failed"} \cup (IF e = "client" THEN {"kexinit", "data"} ELSE {}) :
                Goto(e, where)
    BY <1>5, MovesForm
  <2>2. UNCHANGED shared /\ (UNCHANGED wire \/ Damaged(e))
    BY <1>5, MovesForm DEF crypto
  <2> QED
    BY <1>1, <2>1, <2>2
<1>6. ASSUME NEW e \in Ends, Reject(e) PROVE OneExchange'
  <2>1. GivesUp(e, "failed") /\ UNCHANGED wire /\ UNCHANGED shared
    BY <1>6 DEF Reject, crypto
  <2>2. Goto(e, "failed") \/ (e = "client" /\ Goto(e, "data"))
    BY <2>1, Zenon DEF GivesUp, GoesOn
  <2> QED
    BY <1>1, <2>1, <2>2
<1>7. ASSUME ForeignSwitchesOut PROVE OneExchange'
  <2>1. Goto("server", "x_nkwait") /\ UNCHANGED wire /\ UNCHANGED shared
    BY <1>7 DEF ForeignSwitchesOut
  <2> QED
    BY <1>0, <1>1, <2>1
<1> QED
  BY <1>2, <1>3, <1>4, <1>5, <1>6, <1>7, StepForms, KexSendForm, ExchangeSends, ExchangeAccepts

LEMMA PutTried ==
    ASSUME TypeOK, NEW e \in Ends, NEW p \in Packets, Put(e, p)
    PROVE  /\ \A d \in Ends : d # e => tried'[d] = tried[d] /\ out_ctr'[d] = out_ctr[d]
           /\ tried'[e] = Append(tried[e], p)
           /\ out_ctr'[e] = IF p.key = NOKEY THEN out_ctr[e] ELSE out_ctr[e] + Blocks(p)
<1>1. tried \in [Ends -> Seq(Packets)] /\ out_ctr \in [Ends -> Nat]
  BY DEF TypeOK
<1>2. /\ tried' = [tried EXCEPT ![e] = Append(@, p)]
      /\ out_ctr' = IF p.key = NOKEY THEN out_ctr ELSE [out_ctr EXCEPT ![e] = @ + Blocks(p)]
  BY Zenon DEF Put, Sent, Unsent, Advance
<1> QED
  BY <1>1, <1>2

\* The three statements about used keys and blocks, over a packet.
LEMMA StreamPut ==
    ASSUME TypeOK, KeysGrow, CounterPast, KeystreamFresh, NEW e \in Ends, NEW p \in Packets,
           Put(e, p), p.key = out_key[e], p.ctr = out_ctr[e],
           UNCHANGED <<out_key, shared>>,
           \A d \in Ends : pc'[d] \in Ahead => pc[d] \in Ahead
    PROVE  KeysGrow' /\ CounterPast' /\ KeystreamFresh'
<1> SUFFICES ASSUME NEW d \in Ends
             PROVE  /\ out_key'[d][1] <= shared'[d]
                    /\ pc'[d] \in Ahead => out_key'[d][1] < shared'[d]
                    /\ \A i \in DOMAIN tried'[d] :
                         /\ tried'[d][i].key[1] <= out_key'[d][1]
                         /\ tried'[d][i].key[1] = out_key'[d][1] => tried'[d][i].key = out_key'[d]
                         /\ tried'[d][i].key = out_key'[d] /\ out_key'[d] # NOKEY
                              => tried'[d][i].ctr + Blocks(tried'[d][i]) <= out_ctr'[d]
                    /\ \A i, j \in DOMAIN tried'[d] :
                         i < j /\ tried'[d][i].key = tried'[d][j].key /\ tried'[d][i].key # NOKEY
                           => tried'[d][i].ctr + Blocks(tried'[d][i]) <= tried'[d][j].ctr
  BY Zenon DEF KeysGrow, CounterPast, KeystreamFresh, Blocks
<1>1. CASE d # e
  <2>1. tried'[d] = tried[d] /\ out_ctr'[d] = out_ctr[d]
    BY <1>1, PutTried
  <2> QED
    BY <2>1 DEF KeysGrow, CounterPast, KeystreamFresh
<1>2. CASE d = e
  <2>1. tried'[e] = Append(tried[e], p) /\ tried[e] \in Seq(Packets)
    BY PutTried DEF TypeOK
  <2>2. /\ \A i \in DOMAIN tried'[e] : \/ i \in Nat /\ i \in DOMAIN tried[e] /\ tried'[e][i] = tried[e][i]
                                       \/ i = Len(tried[e]) + 1 /\ tried'[e][i] = p
        /\ \A i \in DOMAIN tried[e] : i \in 1..Len(tried[e])
        /\ Len(tried[e]) \in Nat
    BY <2>1, AppendOf
  <2>3. /\ out_key[e][1] \in Nat /\ shared[e] \in Nat /\ out_ctr[e] \in Nat
        /\ \A i \in DOMAIN tried[e] : tried[e][i] \in Packets
    <3>1. /\ out_key[e] \in KeySet /\ shared[e] \in Nat /\ out_ctr[e] \in Nat
          /\ tried[e] \in Seq(Packets)
      BY DEF TypeOK
    <3> QED
      BY <3>1 DEF KeySet
  <2>4. \A i \in DOMAIN tried[e] :
           tried[e][i].ctr \in Nat /\ Blocks(tried[e][i]) \in Nat
    BY <2>3, BlocksPositive DEF Packets
  <2>5. Blocks(p) \in Nat
    BY BlocksPositive
  <2>6. out_ctr'[e] = IF p.key = NOKEY THEN out_ctr[e] ELSE out_ctr[e] + Blocks(p)
    BY PutTried
  <2>7. /\ out_key'[e][1] <= shared'[e]
        /\ pc'[e] \in Ahead => out_key'[e][1] < shared'[e]
    BY DEF KeysGrow
  <2>8. \A i \in DOMAIN tried'[e] :
           /\ tried'[e][i].key[1] <= out_key'[e][1]
           /\ tried'[e][i].key[1] = out_key'[e][1] => tried'[e][i].key = out_key'[e]
    BY <2>2, <2>3 DEF KeysGrow
  <2>9. \A i \in DOMAIN tried'[e] :
           tried'[e][i].key = out_key'[e] /\ out_key'[e] # NOKEY
             => tried'[e][i].ctr + Blocks(tried'[e][i]) <= out_ctr'[e]
    <3> SUFFICES ASSUME NEW i \in DOMAIN tried'[e], tried'[e][i].key = out_key[e], out_key[e] # NOKEY
                 PROVE  tried'[e][i].ctr + Blocks(tried'[e][i]) <= out_ctr[e] + Blocks(p)
      BY <2>6
    <3>1. CASE i \in DOMAIN tried[e] /\ tried'[e][i] = tried[e][i]
      <4>1. tried[e][i].ctr + Blocks(tried[e][i]) <= out_ctr[e]
        BY <3>1 DEF CounterPast
      <4>2. out_ctr[e] <= out_ctr[e] + Blocks(p)
        BY <2>3, <2>5
      <4> QED
        BY <2>3, <2>4, <2>5, <3>1, <4>1, <4>2
    <3>2. CASE tried'[e][i] = p
      BY <2>3, <2>5, <3>2
    <3> QED
      BY <2>2, <3>1, <3>2
  <2>10. \A i, j \in DOMAIN tried'[e] :
           i < j /\ tried'[e][i].key = tried'[e][j].key /\ tried'[e][i].key # NOKEY
             => tried'[e][i].ctr + Blocks(tried'[e][i]) <= tried'[e][j].ctr
    <3> SUFFICES ASSUME NEW i \in DOMAIN tried'[e], NEW j \in DOMAIN tried'[e], i < j,
                        tried'[e][i].key = tried'[e][j].key, tried'[e][i].key # NOKEY
                 PROVE  tried'[e][i].ctr + Blocks(tried'[e][i]) <= tried'[e][j].ctr
      OBVIOUS
    <3>1. i \in DOMAIN tried[e] /\ tried'[e][i] = tried[e][i]
      BY <2>2
    <3>2. CASE j \in DOMAIN tried[e] /\ tried'[e][j] = tried[e][j]
      BY <3>1, <3>2 DEF KeystreamFresh
    <3>3. CASE tried'[e][j] = p
      BY <3>1, <3>3 DEF CounterPast
    <3> QED
      BY <2>2, <3>2, <3>3
  <2> QED
    BY <1>2, <2>7, <2>8, <2>9, <2>10
<1> QED
  BY <1>1, <1>2

LEMMA StreamKeep ==
    ASSUME KeysGrow, CounterPast, KeystreamFresh, UNCHANGED <<out_key, out_ctr, tried, shared>>,
           \A d \in Ends : pc'[d] \in Ahead => pc[d] \in Ahead
    PROVE  KeysGrow' /\ CounterPast' /\ KeystreamFresh'
BY Zenon DEF KeysGrow, CounterPast, KeystreamFresh, Blocks

\* An end takes the secret of a newer exchange.
LEMMA StreamAgree ==
    ASSUME TypeOK, KeysGrow, CounterPast, KeystreamFresh, UNCHANGED <<out_key, out_ctr, tried>>,
           NEW e \in Ends, NEW x \in Nat, x > shared[e], shared' = [shared EXCEPT ![e] = x],
           \A d \in Ends : d # e => pc'[d] = pc[d]
    PROVE  KeysGrow' /\ CounterPast' /\ KeystreamFresh'
<1>1. CounterPast' /\ KeystreamFresh'
  BY Zenon DEF CounterPast, KeystreamFresh, Blocks
<1>2. /\ shared \in [Ends -> Nat] /\ \A d \in Ends : out_key[d][1] \in Nat
  BY DEF TypeOK, KeySet
<1>3. \A d \in Ends : /\ out_key'[d][1] <= shared'[d]
                      /\ pc'[d] \in Ahead => out_key'[d][1] < shared'[d]
  BY <1>2 DEF KeysGrow
<1>4. KeysGrow'
  BY <1>3 DEF KeysGrow
<1> QED
  BY <1>1, <1>4

\* An end takes the keys of that exchange into use for sending.
LEMMA StreamSwitch ==
    ASSUME TypeOK, KeysGrow, CounterPast, KeystreamFresh, UNCHANGED <<tried, shared>>,
           NEW e \in Ends, NEW key \in KeySet, key[1] = shared[e],
           out_key' = [out_key EXCEPT ![e] = key], out_ctr' = [out_ctr EXCEPT ![e] = 0],
           pc[e] \in Ahead, pc'[e] \notin Ahead, \A d \in Ends : d # e => pc'[d] = pc[d]
    PROVE  KeysGrow' /\ CounterPast' /\ KeystreamFresh'
<1>1. KeystreamFresh'
  BY Zenon DEF KeystreamFresh, Blocks
<1>2. /\ out_key \in [Ends -> KeySet] /\ out_ctr \in [Ends -> Nat]
      /\ \A d \in Ends : shared[d] \in Nat
      /\ tried \in [Ends -> Seq(Packets)]
  BY DEF TypeOK
<1>3. /\ \A d \in Ends : out_key[d][1] \in Nat
      /\ \A d \in Ends : \A i \in DOMAIN tried[d] : tried[d][i].key[1] \in Nat
  <2>1. \A d \in Ends : tried[d] \in Seq(Packets) /\ out_key[d] \in KeySet
    BY <1>2
  <2>2. \A d \in Ends : \A i \in DOMAIN tried[d] : tried[d][i] \in Packets
    BY <2>1
  <2> QED
    BY <2>1, <2>2 DEF Packets, KeySet
<1>4. /\ out_key'[e] = key /\ out_ctr'[e] = 0
      /\ \A d \in Ends : d # e => out_key'[d] = out_key[d] /\ out_ctr'[d] = out_ctr[d]
  BY <1>2
<1>5. \A i \in DOMAIN tried[e] : tried[e][i].key[1] < key[1]
  <2>1. out_key[e][1] < key[1] /\ \A i \in DOMAIN tried[e] : tried[e][i].key[1] <= out_key[e][1]
    BY DEF KeysGrow
  <2>2. key[1] \in Nat
    BY DEF KeySet
  <2> QED
    BY <1>3, <2>1, <2>2
<1>6. KeysGrow'
  <2> SUFFICES ASSUME NEW d \in Ends
               PROVE  /\ out_key'[d][1] <= shared[d]
                      /\ pc'[d] \in Ahead => out_key'[d][1] < shared[d]
                      /\ \A i \in DOMAIN tried[d] :
                           /\ tried[d][i].key[1] <= out_key'[d][1]
                           /\ tried[d][i].key[1] = out_key'[d][1] => tried[d][i].key = out_key'[d]
    BY Zenon DEF KeysGrow
  <2>1. CASE d = e
    BY <2>1, <1>2, <1>3, <1>4, <1>5
  <2>2. CASE d # e
    BY <2>2, <1>4 DEF KeysGrow
  <2> QED
    BY <2>1, <2>2
<1>7. CounterPast'
  <2> SUFFICES ASSUME NEW d \in Ends, NEW i \in DOMAIN tried[d],
                      tried[d][i].key = out_key'[d], out_key'[d] # NOKEY
               PROVE  tried[d][i].ctr + Blocks(tried[d][i]) <= out_ctr'[d]
    BY Zenon DEF CounterPast, Blocks
  <2>1. d # e
    <3>1. key[1] \in Nat
      BY DEF KeySet
    <3> QED
      BY <1>3, <1>4, <1>5, <3>1
  <2> QED
    BY <2>1, <1>4 DEF CounterPast
<1> QED
  BY <1>1, <1>6, <1>7

LEMMA StreamStep == StreamInv /\ [Next]_vars => StreamInv'
<1> SUFFICES ASSUME StreamInv, [Next]_vars
             PROVE  KeysGrow' /\ CounterPast' /\ KeystreamFresh'
  BY TypeStep, ExchangeStep DEF StreamInv
<1>0. /\ TypeOK /\ OneExchange /\ KeysGrow /\ CounterPast /\ KeystreamFresh
      /\ "client" \in Ends /\ "server" \in Ends /\ "client" # "server"
      /\ pc \in [Ends -> ClientPCs \cup ServerPCs]
      /\ \A e \in Ends : shared[e] \in Nat /\ session_id[e] \in Nat
  BY DEF StreamInv, Ends, TypeOK
<1>1. CASE UNCHANGED vars
  <2>1. UNCHANGED <<out_key, out_ctr, tried, shared, pc>>
    BY <1>1 DEF vars, control, crypto, counters
  <2> QED
    BY <1>0, <2>1, StreamKeep
<1>2. ASSUME NEW k \in SendKinds, KexSend(k)
      PROVE  KeysGrow' /\ CounterPast' /\ KeystreamFresh'
  <2> DEFINE e == k[1]
             m == Message(k[3], SendX(k[1], k[3]))
             p == Packet(e, m)
  <2>1. /\ e \in Ends /\ m \in Messages /\ p \in Packets /\ Put(e, p)
        /\ Goto(e, k[4]) \/ Goto(e, "failed") \/ Goto(e, "data")
        /\ pc[e] = k[2] /\ UNCHANGED <<shared, out_key>>
    BY <1>0, <1>2, KexSendTyped, Zenon DEF KexSend, crypto, GivesUp, GoesOn
  <2>2. p.key = out_key[e] /\ p.ctr = out_ctr[e]
    BY <1>0, <2>1, PacketTyped
  <2> HIDE DEF m, p
  <2>3. \A d \in Ends : pc'[d] \in Ahead => pc[d] \in Ahead
    BY <1>0, <2>1 DEF Goto, Ahead, SendKinds
  <2> QED
    BY <1>0, <2>1, <2>2, <2>3, StreamPut
<1>3. ASSUME NEW e \in Ends, SendData(e)
      PROVE  KeysGrow' /\ CounterPast' /\ KeystreamFresh'
  <2>1. PICK m \in Messages :
              /\ Packet(e, m) \in Packets /\ Put(e, Packet(e, m))
              /\ UNCHANGED control \/ Goto(e, "failed")
              /\ UNCHANGED <<foreign, crypto, in_ctr, recv_seq, got, rekeys>>
    BY <1>0, <1>3, SendDataTyped, Zenon
  <2>2. Packet(e, m).key = out_key[e] /\ Packet(e, m).ctr = out_ctr[e]
    BY <1>0, <2>1, PacketTyped
  <2>3. UNCHANGED <<out_key, shared>>
    BY <2>1 DEF crypto
  <2>4. \A d \in Ends : pc'[d] \in Ahead => pc[d] \in Ahead
    BY <1>0, <2>1 DEF Goto, Ahead, control
  <2> QED
    BY <1>0, <2>1, <2>2, <2>3, <2>4, StreamPut
<1>4. ASSUME NEW e \in Ends, Accepts(e)
      PROVE  KeysGrow' /\ CounterPast' /\ KeystreamFresh'
  <2>1. Take(e) /\ UNCHANGED <<out_key, out_ctr, tried>>
    BY <1>0, <1>4, AcceptsForm
  <2>2. /\ 1 \in DOMAIN wire[Peer(e)] /\ First(e) = wire[Peer(e)][1]
        /\ First(e) \in Packets
    BY <1>0, <2>1, TakeKept, TakeTyped DEF Take
  <2>3. \/ /\ shared' = [shared EXCEPT ![e] = First(e).x]
           /\ First(e).type = (IF e = "client" THEN "ECDH_REPLY" ELSE "ECDH_INIT")
           /\ \A d \in Ends : d # e => pc'[d] = pc[d]
        \/ UNCHANGED shared /\ \A d \in Ends : pc'[d] \in Ahead => pc[d] \in Ahead
    BY <1>0, <1>4, AcceptTurns DEF Ahead
  <2>4. CASE /\ shared' = [shared EXCEPT ![e] = First(e).x]
             /\ First(e).type = (IF e = "client" THEN "ECDH_REPLY" ELSE "ECDH_INIT")
             /\ \A d \in Ends : d # e => pc'[d] = pc[d]
    <3>1. First(e).x > shared[e]
      <4>1. 1 \in Passed(Peer(e)) /\ First(e) = wire[Peer(e)][1]
        BY <2>2, <2>4 DEF Passed, InFlight, Turns, Peer, Ends
      <4>2. CASE e = "client"
        <5>1. Odd /\ First(e).x = shared["server"]
          BY <1>0, <2>4, <4>1, <4>2 DEF OneExchange, SecretsAgree, Peer
        <5> QED
          BY <1>0, <4>2, <5>1 DEF Odd
      <4>3. CASE e = "server"
        <5>1. Even /\ First(e).x = shared["client"] + 1
          BY <1>0, <2>4, <4>1, <4>3 DEF OneExchange, SecretsAgree, Peer
        <5> QED
          BY <1>0, <4>3, <5>1 DEF Even
      <4> QED
        BY <4>2, <4>3 DEF Ends
    <3>2. First(e).x \in Nat
      BY <2>2 DEF Packets
    <3> QED
      BY <1>0, <2>1, <2>4, <3>1, <3>2, StreamAgree
  <2>5. CASE UNCHANGED shared /\ \A d \in Ends : pc'[d] \in Ahead => pc[d] \in Ahead
    BY <1>0, <2>1, <2>5, StreamKeep
  <2> QED
    BY <2>3, <2>4, <2>5
<1>5. ASSUME NEW e \in Ends, Switches(e)
      PROVE  KeysGrow' /\ CounterPast' /\ KeystreamFresh'
  <2>1. Goto(e, "data") /\ UNCHANGED <<shared, tried>>
    BY <1>0, <1>5, SwitchesForm
  <2>2. /\ pc'[e] \notin Ahead /\ \A d \in Ends : d # e => pc'[d] = pc[d]
    BY <1>0, <2>1 DEF Goto, Ahead
  <2>3. CASE /\ pc[e] = "nkwait" /\ out_key' = [out_key EXCEPT ![e] = KeyBlock(e)]
             /\ out_ctr' = [out_ctr EXCEPT ![e] = 0]
    <3>1. KeyBlock(e) \in KeySet /\ KeyBlock(e)[1] = shared[e] /\ pc[e] \in Ahead
      BY <1>0, <2>3 DEF KeyBlock, KeySet, Ahead
    <3> QED
      BY <1>0, <2>1, <2>2, <2>3, <3>1, StreamSwitch
  <2>4. CASE UNCHANGED <<out_key, out_ctr>>
    BY <1>0, <2>1, <2>2, <2>4, StreamKeep
  <2> QED
    BY <1>0, <1>5, <2>3, <2>4, SwitchesForm
<1>6. ASSUME NEW e \in Ends, Moves(e)
      PROVE  KeysGrow' /\ CounterPast' /\ KeystreamFresh'
  <2>1. PICK where \in {"closed", "failed", "kexinit", "data"} : Goto(e, where)
    BY <1>0, <1>6, MovesForm
  <2>2. UNCHANGED <<out_key, out_ctr, tried, shared>>
    BY <1>0, <1>6, MovesForm DEF crypto, counters
  <2>3. \A d \in Ends : pc'[d] \in Ahead => pc[d] \in Ahead
    BY <1>0, <2>1 DEF Goto, Ahead
  <2> QED
    BY <1>0, <2>2, <2>3, StreamKeep
<1>7. ASSUME NEW e \in Ends, Reject(e)
      PROVE  KeysGrow' /\ CounterPast' /\ KeystreamFresh'
  <2>1. /\ Goto(e, "failed") \/ Goto(e, "data")
        /\ UNCHANGED <<out_key, out_ctr, tried, shared>>
    BY <1>7 DEF Reject, GivesUp, GoesOn, crypto, counters
  <2>2. \A d \in Ends : pc'[d] \in Ahead => pc[d] \in Ahead
    BY <1>0, <2>1 DEF Goto, Ahead
  <2> QED
    BY <1>0, <2>1, <2>2, StreamKeep
<1>8. ASSUME ForeignSwitchesOut
      PROVE  KeysGrow' /\ CounterPast' /\ KeystreamFresh'
  <2>1. /\ pc["server"] = "x_switch" /\ Goto("server", "x_nkwait") /\ UNCHANGED <<tried, shared>>
        /\ out_key' = [out_key EXCEPT !["server"] = ForeignKey]
        /\ out_ctr' = [out_ctr EXCEPT !["server"] = 0]
    BY <1>8 DEF ForeignSwitchesOut
  <2>2. ForeignKey \in KeySet /\ ForeignKey[1] = shared["server"] /\ pc["server"] \in Ahead
    BY <1>0, <2>1 DEF ForeignKey, KeySet, Ahead
  <2>3. pc'["server"] \notin Ahead /\ \A d \in Ends : d # "server" => pc'[d] = pc[d]
    BY <1>0, <2>1 DEF Goto, Ahead
  <2> QED
    BY <1>0, <2>1, <2>2, <2>3, StreamSwitch
<1> QED
  BY <1>0, <1>1, <1>2, <1>3, <1>4, <1>5, <1>6, <1>7, <1>8, StepForms, KexSendForm

LEMMA StreamInit == Init => StreamInv
<1> SUFFICES ASSUME Init PROVE StreamInv
  OBVIOUS
<1>1. /\ \A e \in Ends : /\ wire[e] = <<>> /\ tried[e] = <<>> /\ shared[e] = 0
                         /\ out_key[e] = <<0, 0, 0>> /\ pc[e] = "kexinit"
      /\ "client" \in Ends /\ "server" \in Ends
  BY DEF Init, NOKEY, Ends
<1>2. OneExchange
  <2>1. \A e \in Ends : \A i \in Passed(e) : FALSE
    BY <1>1 DEF Passed, InFlight
  <2>2. ~Holds("client") /\ Even /\ ~Owing /\ pc["client"] # "nkwait"
    BY <1>1 DEF Holds, Even, Owing
  <2>3. \A e \in Ends : Holds(e) => ~Holds(Peer(e))
    BY <2>2 DEF Ends, Peer
  <2> QED
    BY <1>1, <2>1, <2>2, <2>3, Zenon DEF OneExchange, OneTurn, SecretsAgree
<1>3. KeysGrow /\ CounterPast /\ KeystreamFresh
  BY <1>1 DEF KeysGrow, CounterPast, KeystreamFresh, Ahead
<1> QED
  BY <1>2, <1>3, InitTyped DEF StreamInv

\* The inductive invariant behind KeystreamFresh.
THEOREM StreamInvariant == Spec => []StreamInv
BY StreamInit, StreamStep, PTL DEF Spec

\* No cipher block of a key is used for two packets, whatever became of the
\* first and over any number of changes of keys: send_packet() takes the
\* counter past a packet before it is sent, and each exchange gives a new key.
THEOREM KeystreamUsedOnce == Spec => []KeystreamFresh
<1>1. StreamInv => KeystreamFresh
  BY DEF StreamInv
<1> QED
  BY <1>1, StreamInvariant, PTL
=============================================================================
