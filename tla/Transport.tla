----------------------------- MODULE Transport -----------------------------
(***************************************************************************)
(* The packet layer and the key exchange of a client and a server: framing,*)
(* sequence numbers, cipher counters, and the moment at which each side    *)
(* takes new keys into use.  The two ends are joined by a TCP connection   *)
(* in which a send may fail half-way.                                      *)
(*                                                                         *)
(* A key is the triple <K, H, session_id> that it is derived from; equal   *)
(* triples give equal keys.  A packet carries what a receiver can find     *)
(* out: under which key, counter and sequence number it was made.  A       *)
(* receiver whose own three agree gets the payload; for any other receiver *)
(* the MAC does not match.  Without keys there is no MAC, and anything may *)
(* be read out of bytes that are not a whole plain packet.                 *)
(*                                                                         *)
(* The server is noxsshd or, when "foreign", another server that follows   *)
(* RFC 4253: the two differ only in a re-exchange, which noxsshd ignores.  *)
(* Nested exchanges and the rest of the protocol are in Client.            *)
(***************************************************************************)
EXTENDS Naturals, Sequences, SequencesExt

CONSTANTS DataLens,    \* payload lengths of the messages that follow the exchange
          KexinitLen,  \* length of a KEXINIT payload
          SEQ,         \* sequence numbers count modulo this: 2^32
          MAXLEN,      \* NETNOX_SSH_MAX_PACKET_LEN
          MaxData,     \* bound on the packets each end sends after the first exchange
          MaxRekeys,   \* bound on the re-exchanges that are begun
          MaxFaults    \* bound on the failures of send() and recv()

ASSUME TransportAssumption ==
    /\ DataLens \subseteq Nat \ {0}
    /\ KexinitLen \in Nat \ {0}
    /\ SEQ \in Nat \ {0}
    /\ MAXLEN \in Nat
    /\ {MaxData, MaxRekeys, MaxFaults} \subseteq Nat

VARIABLES
    foreign,     \* the server is not noxsshd
    pc,          \* where each end is
    rekeying,    \* the client is inside netnox_ssh_client_rekey()
    shared,      \* the exchange whose secret each end holds, 0 before the first
    session_id,  \* the exchange whose hash each end holds as session_id
    out_key,     \* key of the direction each end sends in, or NOKEY
    in_key,      \* key of the direction each end receives in, or NOKEY
    out_ctr,     \* cipher blocks used of that key: c2s_counter - c2s_iv
    in_ctr,
    send_seq,
    recv_seq,
    wire,        \* packets each end has sent and the other has not read
    tried,       \* history: the packets each end has given to send()
    got,         \* history: the payloads each end has taken for received
    rekeys,
    faults

control == <<pc, rekeying>>
crypto == <<out_key, in_key, shared, session_id>>
counters == <<out_ctr, in_ctr, send_seq, recv_seq>>
vars == <<foreign, control, crypto, counters, wire, tried, got, rekeys, faults>>

Ends == {"client", "server"}
Peer(e) == IF e = "client" THEN "server" ELSE "client"

NOKEY == <<0, 0, 0>>
MINPAD == 4
AESBLOCK == 16
PLAINBLOCK == 8

\* Lengths of the payloads: ECDH_INIT and ECDH_REPLY with ed25519 keys.
PayloadLen(type) ==
    CASE type = "KEXINIT" -> KexinitLen
      [] type = "ECDH_INIT" -> 37
      [] type = "ECDH_REPLY" -> 179
      [] type = "NEWKEYS" -> 1

Message(type, x) == [type |-> type, len |-> PayloadLen(type), x |-> x]
Data(len) == [type |-> "DATA", len |-> len, x |-> 0]

\* What is read when plain text is expected and the bytes are something else.
GARBAGE == [type |-> "GARBAGE", len |-> 0, x |-> 0]

----------------------------------------------------------------------------
(* One packet.                                                             *)

BlockSize(key) == IF key = NOKEY THEN PLAINBLOCK ELSE AESBLOCK

\* The loop that starts at the least padding and ends at a full block.
PaddingLen(len, block) ==
    CHOOSE p \in MINPAD..(MINPAD + block - 1) : (1 + len + p + 4) % block = 0

Packet(e, m) ==
    LET padding == PaddingLen(m.len, BlockSize(out_key[e]))
    IN  [type |-> m.type, x |-> m.x, packet_len |-> 1 + m.len + padding,
         padding_len |-> padding, key |-> out_key[e], ctr |-> out_ctr[e],
         seq |-> send_seq[e], whole |-> TRUE]

\* Cipher blocks of a packet, its length field included.
Blocks(p) == (4 + p.packet_len + AESBLOCK - 1) \div AESBLOCK

\* The payload as the receiver cuts it out of the packet.
Payload(p) == [type |-> p.type, len |-> p.packet_len - 1 - p.padding_len, x |-> p.x]

\* The client is in netnox_ssh_client_rekey() from "kexinit" until it is back in
\* the session; where an end stops, and in the first exchange, nothing is kept.
Goto(e, where) ==
    /\ pc' = [pc EXCEPT ![e] = where]
    /\ rekeying' = IF e = "client" /\ where \in {"kexinit", "data"}
                   THEN where = "kexinit" ELSE rekeying

\* In a shell session a failed rekey only makes the wait return -1, which
\* noxssh_drain_shell_output() turns into 0: the client goes on with the keys
\* it has.
GoesOn(e) == e = "client" /\ rekeying /\ Goto(e, "data")

\* An exchange fails.
GivesUp(e, where) == Goto(e, where) \/ GoesOn(e)

\* Mutation: the counter is put forward with the sequence number, at success.
AdvanceOnSuccess(e, p, ok) ==
    out_ctr' = IF p.key = NOKEY \/ ~ok THEN out_ctr
               ELSE [out_ctr EXCEPT ![e] = @ + Blocks(p)]

\* The counter is put forward once the packet is encrypted, before send().
Advance(e, p, ok) ==
    out_ctr' = IF p.key = NOKEY THEN out_ctr
               ELSE [out_ctr EXCEPT ![e] = @ + Blocks(p)]

\* send_all() takes all of the packet.
Sent(e, p) ==
    /\ Advance(e, p, TRUE)
    /\ wire' = [wire EXCEPT ![e] = Append(@, p)]
    /\ send_seq' = [send_seq EXCEPT ![e] = (@ + 1) % SEQ]
    /\ tried' = [tried EXCEPT ![e] = Append(@, p)]

\* send_all() fails, with none or with some of the bytes on their way.
Unsent(e, p) ==
    /\ faults < MaxFaults
    /\ faults' = faults + 1
    /\ Advance(e, p, FALSE)
    /\ wire' \in {wire, [wire EXCEPT ![e] = Append(@, [p EXCEPT !.whole = FALSE])]}
    /\ tried' = [tried EXCEPT ![e] = Append(@, p)]
    /\ UNCHANGED send_seq

\* Mutation: the result of send_packet() is not tested.
SendUntested(e, m, next) ==
    LET p == Packet(e, m)
    IN  /\ p.packet_len <= MAXLEN
        /\ (Sent(e, p) /\ UNCHANGED faults) \/ Unsent(e, p)
        /\ Goto(e, next)
        /\ UNCHANGED <<foreign, in_ctr, recv_seq, got>>

\* send_packet(m) in the key exchange; a failure ends the exchange.
Send(e, m, next) ==
    LET p == Packet(e, m)
    IN  /\ p.packet_len <= MAXLEN
        /\ \/ Sent(e, p) /\ Goto(e, next) /\ UNCHANGED faults
           \/ Unsent(e, p) /\ GivesUp(e, "failed")
        /\ UNCHANGED <<foreign, in_ctr, recv_seq, got>>

Incoming(e) == wire[Peer(e)] # <<>>
First(e) == Head(wire[Peer(e)])

\* The packet decrypts and its MAC, over the sequence number too, is right.
Authentic(e, p) ==
    /\ p.whole
    /\ p.key = in_key[e]
    /\ p.key # NOKEY => p.ctr = in_ctr[e] /\ p.seq = recv_seq[e]

\* Mutation: the whole packet is counted again after its first block.
CountedTwice(e, p) ==
    in_ctr' = IF in_key[e] = NOKEY THEN in_ctr
              ELSE [in_ctr EXCEPT ![e] = @ + 1 + Blocks(p)]

\* The first block is counted when it is decrypted, the others behind it.
Consume(e, p) ==
    in_ctr' = IF in_key[e] = NOKEY THEN in_ctr
              ELSE [in_ctr EXCEPT ![e] = @ + 1 + (Blocks(p) - 1)]

\* recv_packet() succeeds; the counters are left to the caller.
Take(e) ==
    /\ Incoming(e)
    /\ Authentic(e, First(e))
    /\ wire' = [wire EXCEPT ![Peer(e)] = Tail(@)]
    /\ recv_seq' = [recv_seq EXCEPT ![e] = (@ + 1) % SEQ]
    /\ got' = [got EXCEPT ![e] = Append(@, Payload(First(e)))]
    /\ UNCHANGED <<foreign, send_seq, tried, faults>>

\* recv_packet() succeeds, and the keys stay.
Accept(e) == Take(e) /\ Consume(e, First(e)) /\ UNCHANGED <<out_ctr, out_key, in_key>>

Receiving(e) ==
    pc[e] \in IF e = "client" THEN {"kexwait", "replywait", "nkwait", "data"}
              ELSE {"kexinit", "ecdh", "nkwait", "data", "rekeyed", "x_ecdh", "x_nkwait"}

\* recv_packet() fails: the MAC does not match, or a plain packet is not one.
\* Bytes that are no plain packet may still look like one.  An end that goes on
\* has not counted the packet and finds no later one at its sequence number: to
\* it the stream stays at the packet it refused.
Reject(e) ==
    /\ Receiving(e) /\ Incoming(e)
    /\ ~Authentic(e, First(e))
    /\ got' = IF in_key[e] = NOKEY /\ (First(e).whole \/ Len(wire[Peer(e)]) > 1)
              THEN [got EXCEPT ![e] = Append(@, GARBAGE)] ELSE got
    /\ GivesUp(e, "failed")
    /\ UNCHANGED <<foreign, crypto, counters, wire, tried, rekeys, faults>>

\* recv() fails, is interrupted or times out: before a packet, or within one,
\* whose first bytes are then gone; only an end that goes on meets the rest.
RecvFails(e) ==
    /\ Receiving(e)
    /\ faults < MaxFaults
    /\ faults' = faults + 1
    /\ \/ UNCHANGED wire /\ GivesUp(e, "failed")
       \/ /\ Incoming(e) /\ GoesOn(e)
          /\ wire' = [wire EXCEPT ![Peer(e)][1].whole = FALSE]
    /\ UNCHANGED <<foreign, crypto, counters, tried, got, rekeys>>

\* recv() returns 0: the other end is gone and all it sent has been read.
Hangup(e) ==
    /\ Receiving(e) /\ ~Incoming(e)
    /\ pc[Peer(e)] \in {"failed", "closed"}
    /\ GivesUp(e, "closed")
    /\ UNCHANGED <<foreign, crypto, counters, wire, tried, got, rekeys, faults>>

----------------------------------------------------------------------------
(* After the exchange.                                                     *)

Established(e) == pc[e] = "data"
DataSent(e) == Len(SelectSeq(tried[e], LAMBDA p : p.type = "DATA"))

\* Any message of the connection protocol.  Either end may go on after a failure:
\* noxsshd sends some without looking at the result, and a client in a shell
\* session does not mind a keepalive that could not be sent.
SendData(e) ==
    /\ Established(e)
    /\ DataSent(e) < MaxData
    /\ \E len \in DataLens :
         LET p == Packet(e, Data(len))
         IN  /\ p.packet_len <= MAXLEN
             /\ \/ Sent(e, p) /\ UNCHANGED <<control, faults>>
                \/ /\ Unsent(e, p)
                   /\ Goto(e, "failed") \/ UNCHANGED control
    /\ UNCHANGED <<foreign, crypto, in_ctr, recv_seq, got, rekeys>>

\* Either end is done with the session.
Close(e) ==
    /\ Established(e)
    /\ Goto(e, "closed")
    /\ UNCHANGED <<foreign, crypto, counters, wire, tried, got, rekeys, faults>>

----------------------------------------------------------------------------
(* The client.                                                             *)

\* Mutation: the client lets the server begin.
ClientLetsServerBegin ==
    /\ pc["client"] = "kexinit"
    /\ Incoming("client")
    /\ Send("client", Message("KEXINIT", 0), "kexwait")
    /\ UNCHANGED <<crypto, rekeys>>

\* netnox_ssh_exchange_kexinit(), at the start and for a rekey.
ClientSendsKexinit ==
    /\ pc["client"] = "kexinit"
    /\ Send("client", Message("KEXINIT", 0), "kexwait")
    /\ UNCHANGED <<crypto, rekeys>>

\* The next packet has to be the server's KEXINIT.
ClientKexinit ==
    /\ pc["client"] = "kexwait"
    /\ Accept("client")
    /\ IF First("client").type = "KEXINIT"
       THEN Goto("client", "ecdh") ELSE GivesUp("client", "failed")
    /\ UNCHANGED <<shared, session_id, rekeys>>

ClientSendsEcdh ==
    /\ pc["client"] = "ecdh"
    /\ Send("client", Message("ECDH_INIT", shared["client"] + 1), "replywait")
    /\ UNCHANGED <<crypto, rekeys>>

\* Each end takes the secret of exchange x, and writes its hash to session_id.
Agree(e, x) ==
    /\ shared' = [shared EXCEPT ![e] = x]
    /\ session_id' = [session_id EXCEPT ![e] = x]

\* netnox_ssh_wait_for_message(): other messages are passed over.
ClientReply ==
    /\ pc["client"] = "replywait"
    /\ Accept("client")
    /\ IF First("client").type = "ECDH_REPLY"
       THEN Agree("client", First("client").x) /\ Goto("client", "newkeys")
       ELSE UNCHANGED <<shared, session_id, control>>
    /\ UNCHANGED rekeys

ClientSendsNewkeys ==
    /\ pc["client"] = "newkeys"
    /\ Send("client", Message("NEWKEYS", 0), "nkwait")
    /\ UNCHANGED <<crypto, rekeys>>

\* The secret, then session_id in the place of the exchange hash, and session_id.
KeyBlock(e) == <<shared[e], session_id[e], session_id[e]>>

\* Both directions change keys, and both counters go back to the new IVs.
DeriveTransportKeys(e) ==
    /\ out_key' = [out_key EXCEPT ![e] = KeyBlock(e)]
    /\ in_key' = [in_key EXCEPT ![e] = KeyBlock(e)]
    /\ out_ctr' = [out_ctr EXCEPT ![e] = 0]
    /\ in_ctr' = [in_ctr EXCEPT ![e] = 0]

ClientNewkeys ==
    /\ pc["client"] = "nkwait"
    /\ Take("client")
    /\ IF First("client").type = "NEWKEYS"
       THEN DeriveTransportKeys("client") /\ Goto("client", "data")
       ELSE Consume("client", First("client")) /\ UNCHANGED <<out_ctr, out_key, in_key, control>>
    /\ UNCHANGED <<shared, session_id, rekeys>>

\* netnox_ssh_client_recv_data() and the waits of the login.
ClientData ==
    /\ Established("client")
    /\ Accept("client")
    /\ Goto("client", IF First("client").type = "KEXINIT" THEN "kexanswer" ELSE "data")
    /\ UNCHANGED <<shared, session_id, rekeys>>

\* netnox_ssh_handle_server_kexinit().
ClientAnswers ==
    /\ pc["client"] = "kexanswer"
    /\ Send("client", Message("KEXINIT", 0), "ecdh")
    /\ UNCHANGED <<crypto, rekeys>>

\* netnox_ssh_client_rekey(): --rekey-interval has passed.
ClientRekey ==
    /\ Established("client")
    /\ rekeys < MaxRekeys
    /\ rekeys' = rekeys + 1
    /\ Goto("client", "kexinit")
    /\ UNCHANGED <<foreign, crypto, counters, wire, tried, got, faults>>

----------------------------------------------------------------------------
(* noxsshd.                                                                *)

\* srv_exchange_kexinit(): the client begins.
ServerKexinit ==
    /\ pc["server"] = "kexinit"
    /\ Accept("server")
    /\ Goto("server", IF First("server").type = "KEXINIT" THEN "kexreply" ELSE "failed")
    /\ UNCHANGED <<shared, session_id, rekeys>>

ServerSendsKexinit ==
    /\ pc["server"] = "kexreply"
    /\ Send("server", Message("KEXINIT", 0), "ecdh")
    /\ UNCHANGED <<crypto, rekeys>>

\* srv_perform_curve25519_kex().
ServerEcdh ==
    /\ pc["server"] = "ecdh"
    /\ Accept("server")
    /\ IF First("server").type = "ECDH_INIT"
       THEN Agree("server", First("server").x) /\ Goto("server", "reply")
       ELSE Goto("server", "failed") /\ UNCHANGED <<shared, session_id>>
    /\ UNCHANGED rekeys

ServerSendsReply ==
    /\ pc["server"] = "reply"
    /\ Send("server", Message("ECDH_REPLY", shared["server"]), "newkeys")
    /\ UNCHANGED <<crypto, rekeys>>

ServerSendsNewkeys ==
    /\ pc["server"] = "newkeys"
    /\ Send("server", Message("NEWKEYS", 0), "nkwait")
    /\ UNCHANGED <<crypto, rekeys>>

ServerNewkeys ==
    /\ pc["server"] = "nkwait"
    /\ Take("server")
    /\ IF First("server").type = "NEWKEYS"
       THEN DeriveTransportKeys("server") /\ Goto("server", "data")
       ELSE /\ Consume("server", First("server")) /\ Goto("server", "failed")
            /\ UNCHANGED <<out_ctr, out_key, in_key>>
    /\ UNCHANGED <<shared, session_id, rekeys>>

\* The loop of serve_one(): a KEXINIT is an unhandled message to noxsshd.
ServerData ==
    /\ Established("server")
    /\ Accept("server")
    /\ Goto("server", IF foreign /\ First("server").type = "KEXINIT"
                      THEN "x_kexreply" ELSE "data")
    /\ UNCHANGED <<shared, session_id, rekeys>>

----------------------------------------------------------------------------
(* Another server, which exchanges keys again as RFC 4253 has it: the      *)
(* session_id is the hash of the first exchange for ever, and each         *)
(* direction changes keys behind its own NEWKEYS.                          *)

ForeignBegins ==
    /\ foreign /\ Established("server")
    /\ rekeys < MaxRekeys
    /\ rekeys' = rekeys + 1
    /\ Send("server", Message("KEXINIT", 0), "rekeyed")
    /\ UNCHANGED crypto

ForeignAnswers ==
    /\ pc["server"] = "x_kexreply"
    /\ Send("server", Message("KEXINIT", 0), "x_ecdh")
    /\ UNCHANGED <<crypto, rekeys>>

\* Data that crossed its KEXINIT is received as always.
ForeignKexinit ==
    /\ pc["server"] = "rekeyed"
    /\ Accept("server")
    /\ Goto("server", IF First("server").type = "KEXINIT" THEN "x_ecdh" ELSE "rekeyed")
    /\ UNCHANGED <<shared, session_id, rekeys>>

ForeignEcdh ==
    /\ pc["server"] = "x_ecdh"
    /\ Accept("server")
    /\ First("server").type = "ECDH_INIT"
    /\ shared' = [shared EXCEPT !["server"] = First("server").x]
    /\ Goto("server", "x_reply")
    /\ UNCHANGED <<session_id, rekeys>>

ForeignSendsReply ==
    /\ pc["server"] = "x_reply"
    /\ Send("server", Message("ECDH_REPLY", shared["server"]), "x_newkeys")
    /\ UNCHANGED <<crypto, rekeys>>

ForeignSendsNewkeys ==
    /\ pc["server"] = "x_newkeys"
    /\ Send("server", Message("NEWKEYS", 0), "x_switch")
    /\ UNCHANGED <<crypto, rekeys>>

ForeignKey == <<shared["server"], shared["server"], session_id["server"]>>

ForeignSwitchesOut ==
    /\ pc["server"] = "x_switch"
    /\ out_key' = [out_key EXCEPT !["server"] = ForeignKey]
    /\ out_ctr' = [out_ctr EXCEPT !["server"] = 0]
    /\ Goto("server", "x_nkwait")
    /\ UNCHANGED <<foreign, in_key, shared, session_id, in_ctr, send_seq, recv_seq,
                   wire, tried, got, rekeys, faults>>

ForeignNewkeys ==
    /\ pc["server"] = "x_nkwait"
    /\ Take("server")
    /\ First("server").type = "NEWKEYS"
    /\ in_key' = [in_key EXCEPT !["server"] = ForeignKey]
    /\ in_ctr' = [in_ctr EXCEPT !["server"] = 0]
    /\ Goto("server", "data")
    /\ UNCHANGED <<out_key, out_ctr, shared, session_id, rekeys>>

\* Where it waits for ECDH_INIT or NEWKEYS it passes over SSH_MSG_IGNORE, and any
\* other message is the end.
ForeignOther ==
    /\ pc["server"] \in {"x_ecdh", "x_nkwait"}
    /\ Accept("server")
    /\ First("server").type # IF pc["server"] = "x_ecdh" THEN "ECDH_INIT" ELSE "NEWKEYS"
    /\ \/ Goto("server", "failed")
       \/ First("server").type = "DATA" /\ UNCHANGED control
    /\ UNCHANGED <<shared, session_id, rekeys>>

----------------------------------------------------------------------------
Init ==
    /\ foreign \in BOOLEAN
    /\ pc = [e \in Ends |-> "kexinit"] /\ rekeying = FALSE
    /\ shared = [e \in Ends |-> 0] /\ session_id = [e \in Ends |-> 0]
    /\ out_key = [e \in Ends |-> NOKEY] /\ in_key = [e \in Ends |-> NOKEY]
    /\ out_ctr = [e \in Ends |-> 0] /\ in_ctr = [e \in Ends |-> 0]
    /\ send_seq = [e \in Ends |-> 0] /\ recv_seq = [e \in Ends |-> 0]
    /\ wire = [e \in Ends |-> <<>>]
    /\ tried = [e \in Ends |-> <<>>] /\ got = [e \in Ends |-> <<>>]
    /\ rekeys = 0 /\ faults = 0

ClientExchange ==
    \/ ClientSendsKexinit \/ ClientKexinit \/ ClientSendsEcdh \/ ClientReply
    \/ ClientSendsNewkeys \/ ClientNewkeys \/ ClientAnswers

ServerExchange ==
    \/ ServerKexinit \/ ServerSendsKexinit \/ ServerEcdh \/ ServerSendsReply
    \/ ServerSendsNewkeys \/ ServerNewkeys

Foreign ==
    \/ ForeignBegins \/ ForeignAnswers \/ ForeignKexinit \/ ForeignEcdh
    \/ ForeignSendsReply \/ ForeignSendsNewkeys \/ ForeignSwitchesOut \/ ForeignNewkeys
    \/ ForeignOther

Next ==
    \/ ClientExchange \/ ClientData \/ ClientRekey
    \/ ServerExchange \/ ServerData
    \/ Foreign
    \/ \E e \in Ends : SendData(e) \/ Close(e) \/ Reject(e) \/ RecvFails(e) \/ Hangup(e)

\* Both processes run; nothing else is assumed.
Spec == Init /\ [][Next]_vars /\ WF_vars(ClientExchange) /\ WF_vars(ServerExchange)

----------------------------------------------------------------------------
\* What an end has taken for received is what the other has sent, in order,
\* with nothing left out and nothing made up: a packet that was lost or cut in
\* a failed send() is never skipped over, neither by an end that sends on after
\* the failure nor by a client that leaves a rekey half-way and goes on.
Faithful ==
    \A e \in Ends :
        IsPrefix(got[e], [i \in DOMAIN tried[Peer(e)] |-> Payload(tried[Peer(e)][i])])

\* No cipher block of a key is used for two packets, whatever became of the
\* first one, and over a change of keys.
KeystreamFresh ==
    \A e \in Ends : \A i, j \in DOMAIN tried[e] :
        LET p == tried[e][i]
            q == tried[e][j]
        IN  i < j /\ p.key = q.key /\ p.key # NOKEY => p.ctr + Blocks(p) <= q.ctr

\* As long as send() and recv() work and keys are exchanged once, no packet is
\* refused: framing, counters, sequence numbers and the moment of the change of
\* keys agree at both ends.
NoSpuriousDrop ==
    faults = 0 /\ rekeys = 0 => \A e \in Ends : pc[e] # "failed"

\* The first exchange comes to its end: the two never wait for each other.
KexCompletes ==
    [](faults = 0) => <>(\A e \in Ends : out_key[e] # NOKEY)
=============================================================================
