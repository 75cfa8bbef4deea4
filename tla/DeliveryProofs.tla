--------------------------- MODULE DeliveryProofs ---------------------------
(***************************************************************************)
(* What an end takes for received is what the other end has sent: Faithful *)
(* of the packet layer, for any number of packets, failures and exchanges. *)
(* And without failures nothing is refused: NoSpuriousDrop, in the last    *)
(* part of the module.                                                     *)
(*                                                                         *)
(* d is an end that sends, Peer(d) the one that receives; the packet which *)
(* the receiver should take next is number Taken(d) + 1 of tried[d].  The  *)
(* statements are made about sequences: T is what was given to send(), W   *)
(* what is on the wire, G what was received, n its length; ok and oc are   *)
(* the sender's key and counter, ik and ic the receiver's.                 *)
(***************************************************************************)
EXTENDS TransportProofs

Taken(d) == Len(got[Peer(d)])
Alive(e) == pc[e] \notin {"failed", "closed"}

\* A packet and the same packet as it was given to send().
Same(p, q) ==
    /\ p.type = q.type /\ p.x = q.x /\ p.packet_len = q.packet_len
    /\ p.padding_len = q.padding_len /\ p.key = q.key /\ p.ctr = q.ctr

----------------------------------------------------------------------------
(* The sender's history.                                                   *)

\* The keys of the packets follow one another, up to the present one.
Ordered(T, ok) ==
    /\ \A i, j \in DOMAIN T :
         i < j => /\ T[i].key[1] <= T[j].key[1]
                  /\ T[i].key[1] = T[j].key[1] => T[i].key = T[j].key
    /\ \A i \in DOMAIN T : /\ T[i].key[1] <= ok[1]
                           /\ T[i].key[1] = ok[1] => T[i].key = ok

\* No block is used twice, and the counter is past the ones of its key.
Used(T, ok, oc) ==
    /\ \A i, j \in DOMAIN T :
         i < j /\ T[i].key = T[j].key /\ T[i].key # NOKEY => T[i].ctr + Blocks(T[i]) <= T[j].ctr
    /\ \A i \in DOMAIN T : T[i].key = ok /\ ok # NOKEY => T[i].ctr + Blocks(T[i]) <= oc

\* Where an end is that has sent its NEWKEYS and still has the old key.
Stopped == {"nkwait", "x_switch", "failed", "closed"}

\* A client that has taken a new secret and will never use it: it left the
\* rekey behind the ECDH_REPLY, and is not able to finish another one.
Lost(d) == d = "client" /\ shared[d] # in_key[d][1] /\ pc[d] \notin {"newkeys", "nkwait"}

\* A NEWKEYS is the last packet under its key, unless its sender is lost.
NewkeysLast(T, ok, where, lost) ==
    /\ \A i \in DOMAIN T : T[i].type = "NEWKEYS" =>
         \/ lost /\ T[i].key = ok
         \/ /\ \A j \in DOMAIN T : i < j => T[i].key # T[j].key
            /\ T[i].key = ok => i = Len(T) /\ where \in Stopped
    /\ where \in {"nkwait", "x_switch"} =>
         T # <<>> /\ T[Len(T)].type = "NEWKEYS" /\ T[Len(T)].key = ok

History ==
    \A d \in Ends :
        Ordered(tried[d], out_key[d]) /\ NewkeysLast(tried[d], out_key[d], pc[d], Lost(d))

----------------------------------------------------------------------------
(* The receiver's keys.                                                    *)

\* Between taking a new secret and using it for receiving.
InAhead == Ahead \cup {"x_nkwait"}

\* Only behind the first exchange.
Keyed == {"data", "kexanswer", "rekeyed", "x_kexreply", "x_ecdh", "x_reply", "x_newkeys",
          "x_switch", "x_nkwait"}

\* The receiving key is the one of the last exchange, or of the one before it
\* where the secret is new; to a lost client it stays new.
KeysAt(e, where, sh, ik, ok) ==
    /\ where \notin {"failed", "closed"} =>
         \/ sh = IF where \in InAhead THEN ik[1] + 1 ELSE ik[1]
         \/ e = "client" /\ where \in {"data", "kexinit", "kexwait"} /\ sh = ik[1] + 1
    /\ ik[1] <= sh
    /\ where \in Keyed => ik # NOKEY /\ ok # NOKEY

InKeys ==
    /\ \A e \in Ends : KeysAt(e, pc[e], shared[e], in_key[e], out_key[e])
    /\ rekeying => in_key["client"] # NOKEY /\ out_key["client"] # NOKEY

\* Where the server sends under the key of the last exchange.
Settled == {"kexinit", "kexreply", "data", "x_kexreply", "x_nkwait"}

\* A KEXINIT of the server is under the key of its last exchange.
ServerKey ==
    /\ pc["server"] \in Settled => out_key["server"][1] = shared["server"]
    /\ \A i \in InFlight("server", {"KEXINIT"}) :
         wire["server"][i].key[1] = shared["server"]

----------------------------------------------------------------------------
(* The wire.                                                               *)

\* Every packet on the wire was given to send(); packets under a key are on
\* it in order, and behind the plain ones.
OnWire(W, T, n) ==
    /\ \A k \in DOMAIN W : \E i \in DOMAIN T :
         Same(W[k], T[i]) /\ (W[k].key # NOKEY => i > n)
    /\ \A k, l \in DOMAIN W :
         k < l => /\ W[k].key = W[l].key /\ W[k].key # NOKEY => W[k].ctr < W[l].ctr
                  /\ W[l].key = NOKEY => W[k].key = NOKEY

\* Nothing is missing among the plain packets: an end that loses one is done.
Plain(W, T, n, ok, failed) ==
    /\ \A k \in DOMAIN W : W[k].key = NOKEY =>
         /\ n + k \in DOMAIN T /\ Same(W[k], T[n + k])
         /\ ~W[k].whole => k = Len(W) /\ failed
    /\ ok = NOKEY /\ ~failed => Len(T) = n + Len(W)

\* A sender that has keys has the plain NEWKEYS on the wire, which the receiver
\* has not passed over.
PlainNewkeys(W, G, ok) ==
    /\ \A i \in DOMAIN G : G[i].type # "NEWKEYS"
    /\ ok # NOKEY => \E k \in DOMAIN W : W[k].key = NOKEY /\ W[k].type = "NEWKEYS"

\* Of the packets to come under the receiver's key only the next one can have
\* the receiver's counter.
CounterNext(T, n, ok, oc, ik, ic, lost) ==
    /\ \A i \in DOMAIN T : i > n /\ T[i].key = ik =>
         T[i].ctr >= ic /\ (T[i].ctr = ic => i = n + 1)
    /\ ok = ik => oc >= ic /\ (oc = ic => n = Len(T))
    /\ ok[1] < ik[1] => \/ lost
                        \/ /\ ic = 0 /\ n = Len(T) /\ T # <<>>
                           /\ T[n].type = "NEWKEYS" /\ T[n].key = ok

\* What was received is the beginning of what was given to send().
Delivered(G, T) ==
    Len(G) <= Len(T) /\ \A i \in DOMAIN G : i \in DOMAIN T /\ G[i] = Payload(T[i])

Channel(d) ==
    LET r == Peer(d)
    IN  /\ OnWire(wire[d], tried[d], Taken(d))
        /\ in_key[r] = NOKEY => Plain(wire[d], tried[d], Taken(d), out_key[d], pc[d] = "failed")
        /\ in_key[r] = NOKEY /\ Alive(r) => PlainNewkeys(wire[d], got[r], out_key[d])
        /\ in_key[r] # NOKEY =>
             CounterNext(tried[d], Taken(d), out_key[d], out_ctr[d], in_key[r], in_ctr[r], Lost(d))
        /\ Delivered(got[r], tried[d])

\* The client looks for the ECDH_REPLY first: it is in front of the NEWKEYS.
ReplyFirst ==
    /\ shared["server"] = 0 => InFlight("server", {"NEWKEYS"}) = {}
    /\ pc["client"] = "replywait" /\ in_key["client"] = NOKEY =>
         /\ \A k \in InFlight("server", {"NEWKEYS"}) :
              \E j \in InFlight("server", {"ECDH_REPLY"}) : j < k
         /\ pc["server"] \in {"newkeys", "x_newkeys"} => InFlight("server", {"ECDH_REPLY"}) # {}

DeliveryInv ==
    StreamInv /\ History /\ InKeys /\ ServerKey /\ ReplyFirst /\ \A d \in Ends : Channel(d)

----------------------------------------------------------------------------
(* Sequences of packets.                                                   *)

LEMMA SeqFacts ==
    ASSUME NEW T \in Seq(Packets)
    PROVE  /\ Len(T) \in Nat /\ DOMAIN T = 1..Len(T) /\ (T = <<>> <=> Len(T) = 0)
           /\ \A i \in DOMAIN T :
                /\ i \in Nat \ {0} /\ i <= Len(T) /\ T[i] \in Packets
                /\ T[i].key[1] \in Nat /\ T[i].ctr \in Nat /\ Blocks(T[i]) \in Nat \ {0}
<1>1. Len(T) \in Nat /\ DOMAIN T = 1..Len(T) /\ (T = <<>> <=> Len(T) = 0)
      /\ \A i \in DOMAIN T : T[i] \in Packets
  OBVIOUS
<1>2. \A p \in Packets : p.key[1] \in Nat /\ p.ctr \in Nat /\ Blocks(p) \in Nat \ {0}
  BY BlocksPositive DEF Packets, KeySet
<1> QED
  BY <1>1, <1>2

LEMMA NoKeyFirst == NOKEY[1] = 0
BY DEF NOKEY

LEMMA SameFacts ==
    ASSUME NEW p \in Packets, NEW q \in Packets, Same(p, q)
    PROVE  Payload(p) = Payload(q) /\ Blocks(p) = Blocks(q)
BY DEF Same, Payload, Blocks

LEMMA OrderedPut ==
    ASSUME NEW T \in Seq(Packets), NEW p \in Packets, Ordered(T, p.key)
    PROVE  Ordered(Append(T, p), p.key)
<1> DEFINE S == Append(T, p)
<1>1. \A i \in DOMAIN S : \/ i \in Nat /\ i \in DOMAIN T /\ S[i] = T[i]
                          \/ i = Len(T) + 1 /\ S[i] = p
  BY AppendOf
<1>2. Len(T) \in Nat /\ \A i \in DOMAIN T : i \in Nat /\ i <= Len(T)
  BY SeqFacts
<1>3. p.key[1] \in Nat
  BY DEF Packets, KeySet
<1> HIDE DEF S
<1>4. \A i \in DOMAIN S : S[i].key[1] <= p.key[1] /\ (S[i].key[1] = p.key[1] => S[i].key = p.key)
  BY <1>1, <1>3 DEF Ordered
<1>5. \A i, j \in DOMAIN S : i < j => S[i].key[1] <= S[j].key[1]
                                   /\ (S[i].key[1] = S[j].key[1] => S[i].key = S[j].key)
  BY <1>1, <1>2, <1>4 DEF Ordered
<1> QED
  BY <1>4, <1>5 DEF Ordered, S

LEMMA OrderedSwitch ==
    ASSUME NEW T \in Seq(Packets), NEW ok \in KeySet, NEW key \in KeySet, ok[1] < key[1],
           Ordered(T, ok)
    PROVE  Ordered(T, key)
<1>1. ok[1] \in Nat /\ key[1] \in Nat
  BY DEF KeySet
<1> QED
  BY <1>1, SeqFacts DEF Ordered

LEMMA NewkeysPut ==
    ASSUME NEW T \in Seq(Packets), NEW p \in Packets, NEW where, NEW next,
           NEW lost, NEW lost2, NewkeysLast(T, p.key, where, lost), where \notin Stopped,
           lost => lost2, p.type = "NEWKEYS" => next \in Stopped \/ lost2,
           next \in {"nkwait", "x_switch"} => p.type = "NEWKEYS"
    PROVE  NewkeysLast(Append(T, p), p.key, next, lost2)
<1> DEFINE S == Append(T, p)
<1>1. /\ \A i \in DOMAIN S : \/ i \in Nat /\ i \in DOMAIN T /\ S[i] = T[i]
                             \/ i = Len(T) + 1 /\ S[i] = p
      /\ Len(S) = Len(T) + 1 /\ S[Len(T) + 1] = p /\ S # <<>>
  BY AppendOf
<1>2. Len(T) \in Nat /\ \A i \in DOMAIN T : i \in Nat /\ i <= Len(T)
  BY SeqFacts
<1> HIDE DEF S
<1>3. \A i \in DOMAIN T : T[i].type = "NEWKEYS" => lost \/ T[i].key # p.key
  BY DEF NewkeysLast
<1>4. \A i \in DOMAIN S : S[i].type = "NEWKEYS" =>
         \/ lost2 /\ S[i].key = p.key
         \/ /\ \A j \in DOMAIN S : i < j => S[i].key # S[j].key
            /\ S[i].key = p.key => i = Len(S) /\ next \in Stopped
  <2> SUFFICES ASSUME NEW i \in DOMAIN S, S[i].type = "NEWKEYS", ~(lost2 /\ S[i].key = p.key)
               PROVE  /\ \A j \in DOMAIN S : i < j => S[i].key # S[j].key
                      /\ S[i].key = p.key => i = Len(S) /\ next \in Stopped
    OBVIOUS
  <2>1. CASE i \in DOMAIN T /\ S[i] = T[i]
    <3>1. T[i].key # p.key /\ \A j \in DOMAIN T : i < j => T[i].key # T[j].key
      BY <1>3, <2>1 DEF NewkeysLast
    <3> QED
      BY <1>1, <2>1, <3>1
  <2>2. CASE i = Len(T) + 1 /\ S[i] = p
    <3>1. \A j \in DOMAIN S : ~(i < j)
      BY <1>1, <1>2, <2>2
    <3> QED
      BY <1>1, <2>2, <3>1
  <2> QED
    BY <1>1, <2>1, <2>2
<1>5. next \in {"nkwait", "x_switch"} =>
         S # <<>> /\ S[Len(S)].type = "NEWKEYS" /\ S[Len(S)].key = p.key
  BY <1>1
<1> QED
  BY <1>4, <1>5 DEF NewkeysLast, S

LEMMA NewkeysMove ==
    ASSUME NEW T, NEW ok, NEW where, NEW next, NEW lost, NEW lost2,
           NewkeysLast(T, ok, where, lost), lost => lost2,
           where \in Stopped => next \in Stopped \/ lost2,
           next \in {"nkwait", "x_switch"} => next = where
    PROVE  NewkeysLast(T, ok, next, lost2)
BY DEF NewkeysLast

LEMMA NewkeysSwitch ==
    ASSUME NEW T \in Seq(Packets), NEW ok \in KeySet, NEW key \in KeySet, ok[1] < key[1],
           Ordered(T, ok), NEW where, NEW next, NEW lost, NewkeysLast(T, ok, where, FALSE),
           next \notin {"nkwait", "x_switch"}
    PROVE  NewkeysLast(T, key, next, lost)
<1>1. ok[1] \in Nat /\ key[1] \in Nat
  BY DEF KeySet
<1>2. \A i \in DOMAIN T : T[i].key # key
  BY <1>1, SeqFacts DEF Ordered
<1> QED
  BY <1>2 DEF NewkeysLast

----------------------------------------------------------------------------
(* The wire.                                                               *)

LEMMA OnWirePut ==
    ASSUME NEW T \in Seq(Packets), NEW W \in Seq(Packets), NEW p \in Packets, NEW r \in Packets,
           Same(r, p), NEW n \in Nat, n <= Len(T), OnWire(W, T, n), Ordered(T, p.key),
           Used(T, p.key, p.ctr)
    PROVE  OnWire(W, Append(T, p), n) /\ OnWire(Append(W, r), Append(T, p), n)
<1> DEFINE S == Append(T, p)
           V == Append(W, r)
<1>1. /\ \A i \in DOMAIN T : i \in DOMAIN S /\ S[i] = T[i]
      /\ Len(T) + 1 \in DOMAIN S /\ S[Len(T) + 1] = p /\ Len(T) + 1 > n
  BY AppendOf, SeqFacts
<1>2. \A k \in DOMAIN V : \/ k \in Nat /\ k \in DOMAIN W /\ V[k] = W[k]
                          \/ k = Len(W) + 1 /\ V[k] = r
  BY AppendOf
<1>3. Len(W) \in Nat /\ \A k \in DOMAIN W : k \in Nat /\ k <= Len(W)
  BY SeqFacts
<1>4. \A i \in DOMAIN T : T[i] \in Packets /\ T[i].key[1] \in Nat /\ T[i].ctr \in Nat
                         /\ Blocks(T[i]) \in Nat \ {0}
  BY SeqFacts
<1>5. p.ctr \in Nat
  BY DEF Packets
<1> HIDE DEF S, V
<1>6. OnWire(W, S, n)
  BY <1>1 DEF OnWire
<1>7. \A k \in DOMAIN V : \E i \in DOMAIN S :
         Same(V[k], S[i]) /\ (V[k].key # NOKEY => i > n)
  BY <1>1, <1>2, <1>6 DEF OnWire
<1>8. \A k \in DOMAIN W : \E i \in DOMAIN T :
         W[k].key = T[i].key /\ W[k].ctr = T[i].ctr
  BY DEF OnWire, Same
<1>9. \A k \in DOMAIN W : W[k].key = p.key /\ p.key # NOKEY => W[k].ctr < p.ctr
  <2> SUFFICES ASSUME NEW k \in DOMAIN W, W[k].key = p.key, p.key # NOKEY PROVE W[k].ctr < p.ctr
    OBVIOUS
  <2>1. PICK i \in DOMAIN T : W[k].key = T[i].key /\ W[k].ctr = T[i].ctr
    BY <1>8
  <2>2. T[i].ctr + Blocks(T[i]) <= p.ctr
    BY <2>1 DEF Used
  <2>3. T[i].ctr \in Nat /\ Blocks(T[i]) \in Nat \ {0}
    BY <1>4
  <2> QED
    BY <1>5, <2>1, <2>2, <2>3
<1>10. p.key = NOKEY => \A k \in DOMAIN W : W[k].key = NOKEY
  BY <1>4, <1>8, NoKeyFirst DEF Ordered
<1>11. r.key = p.key /\ r.ctr = p.ctr
  BY DEF Same
<1>12. \A k, l \in DOMAIN V :
         k < l => /\ V[k].key = V[l].key /\ V[k].key # NOKEY => V[k].ctr < V[l].ctr
                  /\ V[l].key = NOKEY => V[k].key = NOKEY
  <2> SUFFICES ASSUME NEW k \in DOMAIN V, NEW l \in DOMAIN V, k < l
               PROVE  /\ V[k].key = V[l].key /\ V[k].key # NOKEY => V[k].ctr < V[l].ctr
                      /\ V[l].key = NOKEY => V[k].key = NOKEY
    OBVIOUS
  <2>1. k \in DOMAIN W /\ V[k] = W[k]
    BY <1>2, <1>3
  <2>2. CASE l \in DOMAIN W /\ V[l] = W[l]
    BY <2>1, <2>2 DEF OnWire
  <2>3. CASE V[l] = r
    BY <1>9, <1>10, <1>11, <2>1, <2>3
  <2> QED
    BY <1>2, <2>2, <2>3
<1> QED
  BY <1>6, <1>7, <1>12 DEF OnWire, S, V

LEMMA OnWireTake ==
    ASSUME NEW T \in Seq(Packets), NEW W \in Seq(Packets), W # <<>>, NEW n \in Nat,
           OnWire(W, T, n), n + 1 \in DOMAIN T, Same(W[1], T[n + 1])
    PROVE  OnWire(Tail(W), T, n + 1)
<1> DEFINE V == Tail(W)
<1>1. \A k \in DOMAIN V : k \in Nat \ {0} /\ k + 1 \in DOMAIN W /\ V[k] = W[k + 1]
  BY TailOf
<1>2. 1 \in DOMAIN W /\ \A k \in DOMAIN W : W[k].ctr \in Nat
  BY SeqFacts, TailOf
<1>3. \A i \in DOMAIN T : i \in Nat
  BY SeqFacts
<1> HIDE DEF V
<1>4. \A k \in DOMAIN V : \E i \in DOMAIN T :
         Same(V[k], T[i]) /\ (V[k].key # NOKEY => i > n + 1)
  <2> SUFFICES ASSUME NEW k \in DOMAIN V
               PROVE  \E i \in DOMAIN T : Same(V[k], T[i]) /\ (V[k].key # NOKEY => i > n + 1)
    OBVIOUS
  <2>1. PICK i \in DOMAIN T : Same(W[k + 1], T[i]) /\ (W[k + 1].key # NOKEY => i > n)
    BY <1>1 DEF OnWire
  <2>2. ASSUME W[k + 1].key # NOKEY, i = n + 1 PROVE FALSE
    <3>1. W[1].key = W[k + 1].key /\ W[1].ctr = W[k + 1].ctr
      BY <2>1, <2>2 DEF Same
    <3>2. W[1].ctr < W[k + 1].ctr
      BY <1>1, <1>2, <2>2, <3>1 DEF OnWire
    <3> QED
      BY <1>1, <1>2, <3>1, <3>2
  <2> QED
    BY <1>1, <1>3, <2>1, <2>2
<1>5. \A k, l \in DOMAIN V :
         k < l => /\ V[k].key = V[l].key /\ V[k].key # NOKEY => V[k].ctr < V[l].ctr
                  /\ V[l].key = NOKEY => V[k].key = NOKEY
  <2> SUFFICES ASSUME NEW k \in DOMAIN V, NEW l \in DOMAIN V, k < l
               PROVE  /\ V[k].key = V[l].key /\ V[k].key # NOKEY => V[k].ctr < V[l].ctr
                      /\ V[l].key = NOKEY => V[k].key = NOKEY
    OBVIOUS
  <2>1. /\ k + 1 \in DOMAIN W /\ V[k] = W[k + 1] /\ l + 1 \in DOMAIN W /\ V[l] = W[l + 1]
        /\ k + 1 < l + 1
    BY <1>1
  <2> QED
    BY <2>1 DEF OnWire
<1> QED
  BY <1>4, <1>5 DEF OnWire, V

LEMMA PlainPut ==
    ASSUME NEW T \in Seq(Packets), NEW W \in Seq(Packets), NEW V \in Seq(Packets),
           NEW p \in Packets, NEW r \in Packets, Same(r, p), NEW n \in Nat,
           Plain(W, T, n, p.key, FALSE), NEW failed \in BOOLEAN, V \in {W, Append(W, r)},
           p.key = NOKEY /\ ~failed => V = Append(W, r) /\ r.whole
    PROVE  Plain(V, Append(T, p), n, p.key, failed)
<1> DEFINE S == Append(T, p)
<1>1. /\ \A i \in DOMAIN T : i \in DOMAIN S /\ S[i] = T[i]
      /\ Len(T) + 1 \in DOMAIN S /\ S[Len(T) + 1] = p /\ Len(S) = Len(T) + 1
  BY AppendOf
<1>2. Len(T) \in Nat /\ Len(W) \in Nat
  BY SeqFacts
<1>3. /\ \A k \in DOMAIN Append(W, r) : \/ k \in Nat /\ k \in DOMAIN W /\ Append(W, r)[k] = W[k]
                                        \/ k = Len(W) + 1 /\ Append(W, r)[k] = r
      /\ Len(Append(W, r)) = Len(W) + 1
  BY AppendOf
<1>4. r.key = p.key
  BY DEF Same
<1> HIDE DEF S
<1>5. \A k \in DOMAIN W : W[k].key = NOKEY =>
         n + k \in DOMAIN S /\ Same(W[k], S[n + k]) /\ W[k].whole
  BY <1>1 DEF Plain
<1>6. p.key = NOKEY => Len(T) = n + Len(W)
  BY DEF Plain
<1>7. CASE V = W
  <2>1. p.key = NOKEY /\ ~failed => FALSE
    <3>1. Len(Append(W, r)) # Len(W)
      BY <1>2, <1>3
    <3> QED
      BY <1>7, <3>1
  <2> QED
    BY <1>5, <1>7, <2>1 DEF Plain, S
<1>8. CASE V = Append(W, r)
  <2>1. \A k \in DOMAIN V : V[k].key = NOKEY =>
           /\ n + k \in DOMAIN S /\ Same(V[k], S[n + k])
           /\ ~V[k].whole => k = Len(V) /\ failed
    <3> SUFFICES ASSUME NEW k \in DOMAIN V, V[k].key = NOKEY
                 PROVE  /\ n + k \in DOMAIN S /\ Same(V[k], S[n + k])
                        /\ ~V[k].whole => k = Len(V) /\ failed
      OBVIOUS
    <3>1. CASE k \in DOMAIN W /\ V[k] = W[k]
      BY <1>5, <3>1
    <3>2. CASE k = Len(W) + 1 /\ V[k] = r
      <4>1. n + k = Len(T) + 1
        BY <1>2, <1>4, <1>6, <3>2
      <4> QED
        BY <1>1, <1>3, <1>4, <1>8, <3>2, <4>1
    <3> QED
      BY <1>3, <1>8, <3>1, <3>2
  <2>2. p.key = NOKEY => Len(S) = n + Len(V)
    BY <1>1, <1>2, <1>3, <1>6, <1>8
  <2> QED
    BY <2>1, <2>2 DEF Plain, S
<1> QED
  BY <1>7, <1>8

LEMMA PlainTake ==
    ASSUME NEW T \in Seq(Packets), NEW W \in Seq(Packets), W # <<>>, NEW n \in Nat, NEW ok,
           NEW failed \in BOOLEAN, Plain(W, T, n, ok, failed)
    PROVE  Plain(Tail(W), T, n + 1, ok, failed)
<1> DEFINE V == Tail(W)
<1>1. /\ \A k \in DOMAIN V : k \in Nat \ {0} /\ k + 1 \in DOMAIN W /\ V[k] = W[k + 1]
      /\ Len(V) = Len(W) - 1 /\ Len(W) \in Nat
  BY TailOf
<1> HIDE DEF V
<1>2. \A k \in DOMAIN V : V[k].key = NOKEY =>
         /\ (n + 1) + k \in DOMAIN T /\ Same(V[k], T[(n + 1) + k])
         /\ ~V[k].whole => k = Len(V) /\ failed
  <2> SUFFICES ASSUME NEW k \in DOMAIN V, V[k].key = NOKEY
               PROVE  /\ (n + 1) + k \in DOMAIN T /\ Same(V[k], T[(n + 1) + k])
                      /\ ~V[k].whole => k = Len(V) /\ failed
    OBVIOUS
  <2>1. k + 1 \in DOMAIN W /\ V[k] = W[k + 1] /\ n + (k + 1) = (n + 1) + k /\ k \in Nat
    BY <1>1
  <2>2. /\ n + (k + 1) \in DOMAIN T /\ Same(W[k + 1], T[n + (k + 1)])
        /\ ~W[k + 1].whole => k + 1 = Len(W) /\ failed
    BY <2>1, Zenon DEF Plain
  <2> QED
    BY <1>1, <2>1, <2>2
<1>3. ok = NOKEY /\ ~failed => Len(T) = (n + 1) + Len(V)
  BY <1>1, SMTT(30) DEF Plain
<1> QED
  BY <1>2, <1>3 DEF Plain, V

LEMMA PlainNewkeysPut ==
    ASSUME NEW W \in Seq(Packets), NEW r \in Packets, NEW V \in {W, Append(W, r)}, NEW G, NEW ok,
           PlainNewkeys(W, G, ok)
    PROVE  PlainNewkeys(V, G, ok)
<1>1. \A k \in DOMAIN W : k \in DOMAIN V /\ V[k] = W[k]
  BY AppendOf
<1> QED
  BY <1>1 DEF PlainNewkeys

LEMMA PlainNewkeysTake ==
    ASSUME NEW W \in Seq(Packets), W # <<>>, NEW G \in Seq(Payloads), NEW ok,
           PlainNewkeys(W, G, ok), W[1].type # "NEWKEYS"
    PROVE  PlainNewkeys(Tail(W), Append(G, Payload(W[1])), ok)
<1>1. /\ DOMAIN W = 1..Len(W) /\ DOMAIN Tail(W) = 1..(Len(W) - 1) /\ Len(W) \in Nat \ {0}
      /\ \A k \in DOMAIN Tail(W) : Tail(W)[k] = W[k + 1]
      /\ W[1] \in Packets
  BY TailOf
<1>2. Payload(W[1]).type # "NEWKEYS" /\ Payload(W[1]) \in Payloads
  BY <1>1, PayloadTyped
<1>3. \A i \in DOMAIN Append(G, Payload(W[1])) : Append(G, Payload(W[1]))[i].type # "NEWKEYS"
  BY <1>2, AppendOf DEF PlainNewkeys
<1>4. ASSUME ok # NOKEY
      PROVE  \E k \in DOMAIN Tail(W) : Tail(W)[k].key = NOKEY /\ Tail(W)[k].type = "NEWKEYS"
  <2>1. PICK k \in DOMAIN W : W[k].key = NOKEY /\ W[k].type = "NEWKEYS"
    BY <1>4 DEF PlainNewkeys
  <2>2. k # 1
    BY <2>1
  <2>3. k - 1 \in DOMAIN Tail(W) /\ Tail(W)[k - 1] = W[k]
    BY <1>1, <2>2
  <2> QED
    BY <2>1, <2>3
<1> QED
  BY <1>3, <1>4 DEF PlainNewkeys

\* The sender takes its first keys into use.
LEMMA PlainNewkeysSwitch ==
    ASSUME NEW T \in Seq(Packets), NEW W \in Seq(Packets), NEW G \in Seq(Payloads),
           NEW ok, NEW key, NEW where, NEW lost, PlainNewkeys(W, G, ok),
           NewkeysLast(T, ok, where, lost),
           where \in {"nkwait", "x_switch"}, Ordered(T, ok), OnWire(W, T, Len(G)),
           Plain(W, T, Len(G), ok, FALSE), Delivered(G, T)
    PROVE  PlainNewkeys(W, G, key)
<1>1. CASE ok # NOKEY
  BY <1>1 DEF PlainNewkeys
<1>2. CASE ok = NOKEY
  <2>1. Len(T) = Len(G) + Len(W)
    BY <1>2 DEF Plain
  <2>2. /\ Len(T) \in Nat /\ Len(W) \in Nat /\ DOMAIN W = 1..Len(W) /\ DOMAIN T = 1..Len(T)
        /\ (T = <<>> <=> Len(T) = 0)
        /\ \A i \in DOMAIN T : T[i].key[1] \in Nat /\ T[i] \in Packets
    BY SeqFacts
  <2>3. Len(G) \in Nat /\ DOMAIN G = 1..Len(G)
    OBVIOUS
  <2>4. T[Len(T)].type = "NEWKEYS" /\ Len(T) > 0
    BY <2>2 DEF NewkeysLast
  <2>5. Len(G) # Len(T)
    <3>1. ASSUME Len(G) = Len(T) PROVE FALSE
      <4>1. Len(G) \in DOMAIN G /\ Len(T) \in DOMAIN T
        BY <2>2, <2>3, <2>4, <3>1
      <4>2. G[Len(G)] = Payload(T[Len(T)])
        BY <3>1, <4>1 DEF Delivered
      <4>3. Payload(T[Len(T)]).type = "NEWKEYS"
        BY <2>2, <2>4, <4>1, PayloadTyped
      <4> QED
        BY <4>1, <4>2, <4>3 DEF PlainNewkeys
    <3> QED
      BY <3>1
  <2>6. Len(W) \in DOMAIN W
    <3> DEFINE a == Len(G)
               b == Len(W)
               c == Len(T)
    <3>1. a \in Nat /\ b \in Nat /\ c \in Nat /\ c = a + b /\ a # c /\ DOMAIN W = 1..b
      BY <2>1, <2>2, <2>3, <2>5
    <3> HIDE DEF a, b, c
    <3>2. b \in DOMAIN W
      BY <3>1
    <3> QED
      BY <3>2 DEF b
  <2>7. W[Len(W)].key = NOKEY
    <3>1. PICK i \in DOMAIN T : Same(W[Len(W)], T[i])
      BY <2>6 DEF OnWire
    <3>2. T[i].key = NOKEY
      BY <1>2, <2>2, NoKeyFirst DEF Ordered
    <3> QED
      BY <3>1, <3>2 DEF Same
  <2>8. Same(W[Len(W)], T[Len(T)])
    BY <2>1, <2>6, <2>7 DEF Plain
  <2> QED
    BY <2>4, <2>6, <2>7, <2>8 DEF PlainNewkeys, Same
<1> QED
  BY <1>1, <1>2

----------------------------------------------------------------------------
(* The counters.                                                           *)

LEMMA CounterPut ==
    ASSUME NEW T \in Seq(Packets), NEW p \in Packets, NEW n \in Nat, n <= Len(T),
           NEW ik \in KeySet, ik # NOKEY, NEW ic \in Nat, NEW where, where \notin Stopped,
           NEW lost, NEW lost2, lost => lost2,
           NewkeysLast(T, p.key, where, lost), CounterNext(T, n, p.key, p.ctr, ik, ic, lost), NEW oc,
           oc = IF p.key = NOKEY THEN p.ctr ELSE p.ctr + Blocks(p)
    PROVE  CounterNext(Append(T, p), n, p.key, oc, ik, ic, lost2)
<1> DEFINE S == Append(T, p)
<1>1. /\ \A i \in DOMAIN S : \/ i \in Nat /\ i \in DOMAIN T /\ S[i] = T[i]
                             \/ i = Len(T) + 1 /\ S[i] = p
      /\ Len(S) = Len(T) + 1
  BY AppendOf
<1>2. Len(T) \in Nat /\ p.ctr \in Nat /\ Blocks(p) \in Nat \ {0} /\ DOMAIN T = 1..Len(T)
      /\ (T = <<>> <=> Len(T) = 0)
  BY SeqFacts, BlocksPositive DEF Packets
<1> HIDE DEF S
<1>3. p.key[1] < ik[1] => lost2
  <2> SUFFICES ASSUME p.key[1] < ik[1], ~lost PROVE FALSE
    OBVIOUS
  <2>1. n = Len(T) /\ T # <<>> /\ T[n].type = "NEWKEYS" /\ T[n].key = p.key
    BY DEF CounterNext
  <2>2. n \in DOMAIN T
    BY <1>2, <2>1
  <2> QED
    BY <2>1, <2>2 DEF NewkeysLast
<1>4. \A i \in DOMAIN S : i > n /\ S[i].key = ik => S[i].ctr >= ic /\ (S[i].ctr = ic => i = n + 1)
  <2> SUFFICES ASSUME NEW i \in DOMAIN S, i > n, S[i].key = ik
               PROVE  S[i].ctr >= ic /\ (S[i].ctr = ic => i = n + 1)
    OBVIOUS
  <2>1. CASE i \in DOMAIN T /\ S[i] = T[i]
    BY <2>1 DEF CounterNext
  <2>2. CASE i = Len(T) + 1 /\ S[i] = p
    BY <2>2 DEF CounterNext
  <2> QED
    BY <1>1, <2>1, <2>2
<1>5. ASSUME p.key = ik PROVE oc > ic
  <2>1. p.ctr >= ic
    BY <1>5 DEF CounterNext
  <2> QED
    BY <1>2, <1>5, <2>1
<1>6. p.key = ik => oc >= ic /\ (oc = ic => n = Len(S))
  <2>1. p.key = ik => oc \in Nat
    BY <1>2
  <2> QED
    BY <1>5, <2>1
<1> QED
  BY <1>3, <1>4, <1>6 DEF CounterNext, S

\* The packet behind a packet under the key ik, with a later one under ik, is
\* under ik too.
LEMMA KeyBetween ==
    ASSUME NEW T \in Seq(Packets), NEW ok, Ordered(T, ok), NEW a \in DOMAIN T, NEW b \in DOMAIN T,
           NEW c \in DOMAIN T, a < b, b < c, T[a].key = T[c].key
    PROVE  T[b].key = T[c].key
<1>1. T[a].key[1] \in Nat /\ T[b].key[1] \in Nat /\ T[c].key[1] \in Nat
  BY SeqFacts
<1>2. T[a].key[1] <= T[b].key[1] /\ T[b].key[1] <= T[c].key[1]
  BY DEF Ordered
<1>3. T[b].key[1] = T[c].key[1]
  BY <1>1, <1>2
<1> QED
  BY <1>3 DEF Ordered

LEMMA NextIndex ==
    ASSUME NEW T \in Seq(Packets), NEW n \in Nat, n + 1 \in DOMAIN T, n + 1 # Len(T)
    PROVE  (n + 1) + 1 \in DOMAIN T /\ n + 1 < (n + 1) + 1
<1> DEFINE L == Len(T)
<1>1. L \in Nat /\ DOMAIN T = 1..L /\ n + 1 # L
  BY SeqFacts
<1> HIDE DEF L
<1> QED
  BY <1>1

LEMMA CounterTake ==
    ASSUME NEW T \in Seq(Packets), NEW n \in Nat, n + 1 \in DOMAIN T, NEW ok \in KeySet,
           NEW oc \in Nat, NEW ik \in KeySet, ik # NOKEY, NEW ic \in Nat,
           Ordered(T, ok), Used(T, ok, oc), NEW lost, CounterNext(T, n, ok, oc, ik, ic, lost),
           T[n + 1].key = ik, T[n + 1].ctr = ic
    PROVE  CounterNext(T, n + 1, ok, oc, ik, ic + Blocks(T[n + 1]), lost)
<1> DEFINE jc == ic + Blocks(T[n + 1])
<1>1. /\ Len(T) \in Nat /\ DOMAIN T = 1..Len(T)
      /\ \A i \in DOMAIN T : i \in Nat /\ T[i].ctr \in Nat /\ Blocks(T[i]) \in Nat \ {0}
                           /\ T[i].key[1] \in Nat
  BY SeqFacts
<1>2. jc \in Nat /\ jc = T[n + 1].ctr + Blocks(T[n + 1])
  BY <1>1
<1>3. ok[1] \in Nat /\ ik[1] \in Nat
  BY DEF KeySet
<1> HIDE DEF jc
<1>4. \A i \in DOMAIN T : i > n + 1 /\ T[i].key = ik => T[i].ctr >= jc
  BY <1>1, <1>2 DEF Used
<1>5. ASSUME NEW i \in DOMAIN T, i > n + 1, T[i].key = ik, T[i].ctr = jc
      PROVE  i = (n + 1) + 1
  <2> SUFFICES ASSUME i # (n + 1) + 1 PROVE FALSE
    OBVIOUS
  <2>1. (n + 1) + 1 \in DOMAIN T /\ n + 1 < (n + 1) + 1 /\ (n + 1) + 1 < i
    BY <1>1, <1>5
  <2>2. T[(n + 1) + 1].key = ik
    BY <1>5, <2>1, KeyBetween
  <2>3. T[(n + 1) + 1].ctr >= jc
    BY <1>4, <2>1, <2>2
  <2>4. T[(n + 1) + 1].ctr + Blocks(T[(n + 1) + 1]) <= T[i].ctr
    BY <1>5, <2>1, <2>2 DEF Used
  <2>5. T[(n + 1) + 1].ctr \in Nat /\ Blocks(T[(n + 1) + 1]) \in Nat \ {0}
    BY <1>1, <2>1
  <2> QED
    BY <1>2, <1>5, <2>3, <2>4, <2>5
<1>6. ok = ik => oc >= jc
  BY <1>1, <1>2 DEF Used
<1>7. ASSUME ok = ik, oc = jc PROVE n + 1 = Len(T)
  <2> SUFFICES ASSUME n + 1 # Len(T) PROVE FALSE
    OBVIOUS
  <2>1. (n + 1) + 1 \in DOMAIN T /\ n + 1 < (n + 1) + 1
    BY NextIndex
  <2>2. T[(n + 1) + 1].key = ik
    <3>1. /\ T[n + 1].key[1] <= T[(n + 1) + 1].key[1] /\ T[(n + 1) + 1].key[1] <= ok[1]
      BY <2>1 DEF Ordered
    <3>2. T[(n + 1) + 1].key[1] \in Nat
      BY <1>1, <2>1
    <3>3. T[(n + 1) + 1].key[1] = ok[1]
      BY <1>3, <1>7, <3>1, <3>2
    <3> QED
      BY <1>7, <2>1, <3>3 DEF Ordered
  <2>3. T[(n + 1) + 1].ctr >= jc
    BY <1>4, <2>1, <2>2
  <2>4. T[(n + 1) + 1].ctr + Blocks(T[(n + 1) + 1]) <= oc
    BY <1>7, <2>1, <2>2 DEF Used
  <2>5. T[(n + 1) + 1].ctr \in Nat /\ Blocks(T[(n + 1) + 1]) \in Nat \ {0}
    BY <1>1, <2>1
  <2> QED
    BY <1>2, <1>7, <2>3, <2>4, <2>5
<1>8. ~(ok[1] < ik[1])
  <2>1. T[n + 1].key[1] <= ok[1]
    BY DEF Ordered
  <2> QED
    BY <1>3, <2>1
<1> QED
  BY <1>4, <1>5, <1>6, <1>7, <1>8 DEF CounterNext, jc

\* The receiver takes the NEWKEYS and the next key.
LEMMA CounterSwitchIn ==
    ASSUME NEW T \in Seq(Packets), NEW n \in Nat, n + 1 \in DOMAIN T, NEW ok \in KeySet,
           NEW oc \in Nat, NEW ik \in KeySet, NEW key \in KeySet, key[1] = ik[1] + 1,
           key # NOKEY, ok[1] <= key[1], NEW where, NEW lost, NewkeysLast(T, ok, where, lost),
           Ordered(T, ok), Used(T, ok, oc), T[n + 1].key = ik, T[n + 1].type = "NEWKEYS"
    PROVE  CounterNext(T, n + 1, ok, oc, key, 0, lost)
<1> DEFINE m == (n + 1) + 1
<1>1. /\ Len(T) \in Nat /\ DOMAIN T = 1..Len(T)
      /\ \A i \in DOMAIN T : i \in Nat /\ T[i].ctr \in Nat /\ Blocks(T[i]) \in Nat \ {0}
                           /\ T[i].key[1] \in Nat
      /\ (T = <<>> <=> Len(T) = 0)
  BY SeqFacts
<1>2. ok[1] \in Nat /\ ik[1] \in Nat /\ key[1] \in Nat
  BY DEF KeySet
<1>3. m \in Nat /\ m > n + 1
  OBVIOUS
<1>0. CASE lost /\ ok = ik
  <2>1. ok[1] < key[1] /\ \A i \in DOMAIN T : T[i].key[1] <= ok[1] /\ T[i].key[1] \in Nat
    BY <1>0, <1>1, <1>2 DEF Ordered
  <2>2. ok # key /\ \A i \in DOMAIN T : T[i].key # key
    BY <1>2, <2>1
  <2> QED
    BY <1>0, <2>2 DEF CounterNext
<1> SUFFICES ASSUME ~(lost /\ ok = ik) PROVE CounterNext(T, n + 1, ok, oc, key, 0, lost)
  BY <1>0
<1>4. ASSUME m \in DOMAIN T PROVE T[m].key[1] > ik[1]
  <2>1. T[m].key # ik
    BY <1>3, <1>4 DEF NewkeysLast
  <2>2. ik[1] <= T[m].key[1] /\ (ik[1] = T[m].key[1] => ik = T[m].key)
    BY <1>3, <1>4 DEF Ordered
  <2> QED
    BY <1>1, <1>2, <1>4, <2>1, <2>2
<1> HIDE DEF m
<1>5. ASSUME NEW i \in DOMAIN T, i > n + 1, T[i].key = key, T[i].ctr = 0 PROVE i = m
  <2> SUFFICES ASSUME i # m PROVE FALSE
    OBVIOUS
  <2>1. m \in DOMAIN T /\ m < i
    BY <1>1, <1>5 DEF m
  <2>2. T[m].key = key
    <3>1. T[m].key[1] <= key[1] /\ (T[m].key[1] = key[1] => T[m].key = key)
      BY <1>5, <2>1 DEF Ordered
    <3> QED
      BY <1>1, <1>2, <1>4, <2>1, <3>1
  <2>3. T[m].ctr + Blocks(T[m]) <= 0
    BY <1>5, <2>1, <2>2 DEF Used
  <2> QED
    BY <1>1, <2>1, <2>3
<1>6. ASSUME ok = key, oc = 0 PROVE n + 1 = Len(T)
  <2> SUFFICES ASSUME n + 1 # Len(T) PROVE FALSE
    OBVIOUS
  <2>1. m \in DOMAIN T
    BY NextIndex DEF m
  <2>2. T[m].key[1] \in Nat /\ T[m].ctr \in Nat /\ Blocks(T[m]) \in Nat \ {0}
    BY <1>1, <2>1
  <2>3. T[m].key = key
    <3>1. T[m].key[1] <= key[1] /\ (T[m].key[1] = key[1] => T[m].key = key)
      BY <1>6, <2>1 DEF Ordered
    <3>2. T[m].key[1] > ik[1]
      BY <1>4, <2>1
    <3>3. T[m].key[1] = key[1]
      BY <1>2, <2>2, <3>1, <3>2
    <3> QED
      BY <3>1, <3>3
  <2>4. T[m].ctr + Blocks(T[m]) <= 0
    BY <1>6, <2>1, <2>3 DEF Used
  <2> QED
    BY <2>2, <2>4
<1>7. ASSUME ok[1] < key[1] PROVE n + 1 = Len(T) /\ T # <<>> /\ T[n + 1].key = ok
  <2>1. ik[1] <= ok[1] /\ (ik[1] = ok[1] => ik = ok)
    BY DEF Ordered
  <2>2. ik = ok
    BY <1>2, <1>7, <2>1
  <2>3. n + 1 = Len(T)
    BY <2>2 DEF NewkeysLast
  <2>4. T # <<>>
    BY <1>1, <2>3
  <2> QED
    BY <2>2, <2>3, <2>4
<1>8. \A i \in DOMAIN T : T[i].ctr >= 0
  BY <1>1
<1> QED
  BY <1>5, <1>6, <1>7, <1>8 DEF CounterNext, m

LEMMA CounterSwitchOut ==
    ASSUME NEW T, NEW n, NEW ok \in KeySet, NEW oc, NEW ik \in KeySet, NEW ic,
           NEW key \in KeySet, ok[1] < key[1], ik[1] <= key[1],
           CounterNext(T, n, ok, oc, ik, ic, FALSE), NEW lost
    PROVE  CounterNext(T, n, key, 0, ik, ic, lost)
<1>1. ok[1] \in Nat /\ ik[1] \in Nat /\ key[1] \in Nat
  BY DEF KeySet
<1>2. ~(key[1] < ik[1])
  BY <1>1
<1>3. key = ik => ic = 0 /\ n = Len(T)
  BY DEF CounterNext
<1> QED
  BY <1>2, <1>3 DEF CounterNext

----------------------------------------------------------------------------
(* What was received.                                                      *)

LEMMA DeliveredPut ==
    ASSUME NEW T \in Seq(Packets), NEW p \in Packets, NEW G \in Seq(Payloads), Delivered(G, T)
    PROVE  Delivered(G, Append(T, p))
<1>1. /\ \A i \in DOMAIN T : i \in DOMAIN Append(T, p) /\ Append(T, p)[i] = T[i]
      /\ Len(Append(T, p)) = Len(T) + 1 /\ Len(T) \in Nat /\ Len(G) \in Nat
  BY AppendOf
<1> QED
  BY <1>1 DEF Delivered

LEMMA DeliveredTake ==
    ASSUME NEW T \in Seq(Packets), NEW G \in Seq(Payloads), NEW q \in Payloads,
           Delivered(G, T), Len(G) + 1 \in DOMAIN T, q = Payload(T[Len(G) + 1])
    PROVE  Delivered(Append(G, q), T) /\ Len(Append(G, q)) = Len(G) + 1
<1>1. /\ \A i \in DOMAIN Append(G, q) : \/ i \in Nat /\ i \in DOMAIN G /\ Append(G, q)[i] = G[i]
                                        \/ i = Len(G) + 1 /\ Append(G, q)[i] = q
      /\ Len(Append(G, q)) = Len(G) + 1
  BY AppendOf
<1>2. Len(G) + 1 <= Len(T)
  BY SeqFacts
<1> QED
  BY <1>1, <1>2 DEF Delivered

LEMMA FaithfulIsDelivered ==
    ASSUME TypeOK
    PROVE  Faithful <=> \A d \in Ends : Delivered(got[Peer(d)], tried[d])
<1>1. ASSUME NEW d \in Ends
      PROVE  IsPrefix(got[Peer(d)], [i \in DOMAIN tried[d] |-> Payload(tried[d][i])])
               <=> Delivered(got[Peer(d)], tried[d])
  <2> DEFINE G == got[Peer(d)]
             T == tried[d]
             S == [i \in DOMAIN T |-> Payload(T[i])]
  <2>1. Peer(d) \in Ends /\ T \in Seq(Packets)
    BY DEF Peer, Ends, TypeOK
  <2>2. G \in Seq(Payloads)
    BY <2>1 DEF TypeOK
  <2>3. Len(T) \in Nat /\ DOMAIN T = 1..Len(T) /\ \A i \in DOMAIN T : T[i] \in Packets
    BY <2>1, SeqFacts
  <2>4. S \in Seq(Payloads) /\ Len(S) = Len(T) /\ DOMAIN S = DOMAIN T
        /\ \A i \in DOMAIN T : S[i] = Payload(T[i])
    BY <2>3, PayloadTyped
  <2>5. Len(G) \in Nat /\ DOMAIN G = 1..Len(G)
    BY <2>2
  <2> HIDE DEF G, T, S
  <2>6. IsPrefix(G, S) <=> Len(G) <= Len(S) /\ \A i \in DOMAIN G : G[i] = S[i]
    <3>1. CASE Len(G) <= Len(S)
      <4>1. DOMAIN SubSeq(S, 1, Len(G)) = 1..Len(G)
            /\ SubSeq(S, 1, Len(G)) \in Seq(Payloads) /\ Len(SubSeq(S, 1, Len(G))) = Len(G)
            /\ \A i \in 1..Len(G) : SubSeq(S, 1, Len(G))[i] = S[i]
        BY <2>2, <2>4, <2>5, <3>1
      <4>2. G = SubSeq(S, 1, Len(G)) <=> \A i \in 1..Len(G) : G[i] = S[i]
        BY <2>2, <4>1, SeqEqual
      <4> QED
        BY <2>5, <3>1, <4>2 DEF IsPrefix
    <3>2. CASE ~(Len(G) <= Len(S))
      BY <3>2 DEF IsPrefix
    <3> QED
      BY <3>1, <3>2
  <2>7. Len(G) <= Len(T) => \A i \in DOMAIN G : i \in DOMAIN T
    BY <2>3, <2>5
  <2> QED
    BY <2>4, <2>6, <2>7 DEF Delivered, G, T, S
<1>2. \A d \in Ends : Peer(d) \in Ends /\ Peer(Peer(d)) = d
  BY DEF Peer, Ends
<1>3. Faithful <=> \A d \in Ends :
         IsPrefix(got[Peer(d)], [i \in DOMAIN tried[d] |-> Payload(tried[d][i])])
  BY <1>2 DEF Faithful
<1> QED
  BY <1>1, <1>3

----------------------------------------------------------------------------
(* Steps.                                                                  *)

LEMMA PeerFacts ==
    \A d \in Ends : /\ Peer(d) \in Ends /\ Peer(Peer(d)) = d /\ Peer(d) # d
                    /\ \A f \in Ends : f # d => f = Peer(d)
BY DEF Peer, Ends

LEMMA ChannelTyped ==
    ASSUME TypeOK, NEW d \in Ends
    PROVE  /\ wire[d] \in Seq(Packets) /\ tried[d] \in Seq(Packets)
           /\ got[Peer(d)] \in Seq(Payloads) /\ Taken(d) \in Nat
           /\ out_key[d] \in KeySet /\ in_key[Peer(d)] \in KeySet
           /\ out_ctr[d] \in Nat /\ in_ctr[Peer(d)] \in Nat
           /\ shared[d] \in Nat /\ shared[Peer(d)] \in Nat
<1>1. Peer(d) \in Ends
  BY PeerFacts
<1>2. /\ wire[d] \in Seq(Packets) /\ tried[d] \in Seq(Packets)
      /\ got[Peer(d)] \in Seq(Payloads)
      /\ out_key[d] \in KeySet /\ in_key[Peer(d)] \in KeySet
      /\ out_ctr[d] \in Nat /\ in_ctr[Peer(d)] \in Nat
      /\ shared[d] \in Nat /\ shared[Peer(d)] \in Nat
  BY <1>1 DEF TypeOK
<1>3. Len(got[Peer(d)]) \in Nat
  BY <1>2
<1> QED
  BY <1>2, <1>3 DEF Taken

LEMMA StreamUsed ==
    ASSUME StreamInv, NEW d \in Ends
    PROVE  Used(tried[d], out_key[d], out_ctr[d])
BY DEF StreamInv, CounterPast, KeystreamFresh, Used

LEMMA PlainFails ==
    ASSUME NEW W, NEW T, NEW n, NEW ok, NEW f \in BOOLEAN, NEW g \in BOOLEAN, f => g,
           Plain(W, T, n, ok, f)
    PROVE  Plain(W, T, n, ok, g)
BY DEF Plain

LEMMA CounterLost ==
    ASSUME NEW T, NEW n, NEW ok, NEW oc, NEW ik, NEW ic, NEW lost, NEW lost2, lost => lost2,
           CounterNext(T, n, ok, oc, ik, ic, lost)
    PROVE  CounterNext(T, n, ok, oc, ik, ic, lost2)
BY DEF CounterNext

LEMMA OnWireDamaged ==
    ASSUME TypeOK, NEW d \in Ends, Damaged(Peer(d)), NEW T, NEW n, OnWire(wire[d], T, n)
    PROVE  OnWire(wire'[d], T, n)
<1>1. Peer(d) \in Ends /\ Peer(Peer(d)) = d
  BY PeerFacts
<1>2. /\ wire[d] \in Seq(Packets) /\ DOMAIN wire'[d] = DOMAIN wire[d] /\ 1 \in DOMAIN wire[d]
      /\ wire'[d][1] = [wire[d][1] EXCEPT !.whole = FALSE]
      /\ \A i \in DOMAIN wire[d] : i # 1 => wire'[d][i] = wire[d][i]
  BY <1>1, DamagedForm
<1>3. wire[d][1] \in Packets
  BY <1>2
<1>4. Same(wire'[d][1], wire[d][1])
  BY <1>2, <1>3 DEF Same, Packets
<1>5. \A i \in DOMAIN wire[d] : Same(wire'[d][i], wire[d][i])
  BY <1>2, <1>4 DEF Same
<1> QED
  BY <1>2, <1>5 DEF OnWire, Same

\* A step that leaves the channel alone, or cuts what a client reads.
LEMMA ChannelKeep ==
    ASSUME TypeOK, NEW d \in Ends, Channel(d), Lost(d) => Lost(d)',
           wire'[d] = wire[d] \/ (in_key[Peer(d)] # NOKEY /\ Damaged(Peer(d))), tried'[d] = tried[d], out_key'[d] = out_key[d],
           out_ctr'[d] = out_ctr[d], got'[Peer(d)] = got[Peer(d)],
           in_key'[Peer(d)] = in_key[Peer(d)], in_ctr'[Peer(d)] = in_ctr[Peer(d)],
           pc[d] = "failed" => pc'[d] = "failed", Alive(Peer(d))' => Alive(Peer(d))
    PROVE  Channel(d)'
<1>1. OnWire(wire'[d], tried'[d], Taken(d)')
  <2>1. OnWire(wire[d], tried[d], Taken(d)) /\ Taken(d)' = Taken(d)
    BY DEF Channel, Taken
  <2>2. OnWire(wire'[d], tried[d], Taken(d))
    BY <2>1, OnWireDamaged, Zenon
  <2> QED
    BY <2>1, <2>2
<1>2. in_key'[Peer(d)] = NOKEY =>
        Plain(wire'[d], tried'[d], Taken(d)', out_key'[d], pc'[d] = "failed")
  <2> DEFINE f == pc[d] = "failed"
             g == pc'[d] = "failed"
  <2>1. f \in BOOLEAN /\ g \in BOOLEAN /\ (f => g)
    OBVIOUS
  <2>2. in_key[Peer(d)] = NOKEY => Plain(wire[d], tried[d], Taken(d), out_key[d], f)
    BY DEF Channel
  <2>3. Taken(d)' = Taken(d)
    BY DEF Taken
  <2> HIDE DEF f, g
  <2>4. in_key'[Peer(d)] = NOKEY => Plain(wire'[d], tried'[d], Taken(d)', out_key'[d], g)
    BY <2>1, <2>2, <2>3, PlainFails
  <2> QED
    BY <2>4 DEF g
<1>3. in_key'[Peer(d)] = NOKEY /\ Alive(Peer(d))' =>
        PlainNewkeys(wire'[d], got'[Peer(d)], out_key'[d])
  BY DEF Channel
<1>4. in_key'[Peer(d)] # NOKEY =>
        CounterNext(tried'[d], Taken(d)', out_key'[d], out_ctr'[d], in_key'[Peer(d)],
                    in_ctr'[Peer(d)], Lost(d)')
  <2> DEFINE lost == Lost(d)
             lost2 == Lost(d)'
  <2>1. /\ lost => lost2
        /\ in_key[Peer(d)] # NOKEY =>
             CounterNext(tried[d], Taken(d), out_key[d], out_ctr[d], in_key[Peer(d)],
                         in_ctr[Peer(d)], lost)
    BY DEF Channel
  <2>2. Taken(d)' = Taken(d)
    BY DEF Taken
  <2> HIDE DEF lost, lost2
  <2>3. in_key[Peer(d)] # NOKEY =>
          CounterNext(tried[d], Taken(d), out_key[d], out_ctr[d], in_key[Peer(d)],
                      in_ctr[Peer(d)], lost2)
    BY <2>1, CounterLost
  <2> QED
    BY <2>2, <2>3 DEF lost2
<1>5. Delivered(got'[Peer(d)], tried'[d])
  BY DEF Channel
<1> QED
  BY <1>1, <1>2, <1>3, <1>4, <1>5 DEF Channel

\* The sender sends.
LEMMA ChannelPut ==
    ASSUME StreamInv, History, NEW d \in Ends, Channel(d), NEW p \in Packets, Put(d, p),
           p.key = out_key[d], p.ctr = out_ctr[d], p.whole = TRUE, pc[d] \notin Stopped,
           UNCHANGED <<out_key, in_key, in_ctr, got>>, pc'[Peer(d)] = pc[Peer(d)],
           out_key[d] = NOKEY /\ pc'[d] # "failed" => Sent(d, p), Lost(d) => Lost(d)'
    PROVE  Channel(d)'
<1> DEFINE n == Taken(d)
           T == tried[d]
           W == wire[d]
           V == wire'[d]
           q == [p EXCEPT !.whole = FALSE]
           failed == pc'[d] = "failed"
<1>1. /\ W \in Seq(Packets) /\ T \in Seq(Packets) /\ got[Peer(d)] \in Seq(Payloads) /\ n \in Nat
      /\ in_key[Peer(d)] \in KeySet /\ in_ctr[Peer(d)] \in Nat /\ n = Len(got[Peer(d)])
      /\ Taken(d)' = n
  BY ChannelTyped DEF StreamInv, Taken
<1>2. /\ tried'[d] = Append(T, p)
      /\ out_ctr'[d] = IF p.key = NOKEY THEN p.ctr ELSE p.ctr + Blocks(p)
  BY PutTried DEF StreamInv
<1>3. q \in Packets /\ Same(q, p) /\ Same(p, p)
  BY DEF Packets, Same
<1>4. \E r \in {p, q} : /\ V \in {W, Append(W, r)}
                        /\ (p.key = NOKEY /\ ~failed) => (V = Append(W, r) /\ r.whole = TRUE)
  <2>1. wire \in [Ends -> Seq(Packets)]
    BY DEF StreamInv, TypeOK
  <2>2. CASE Sent(d, p)
    <3>1. wire' = [wire EXCEPT ![d] = Append(@, p)]
      BY <2>2 DEF Sent
    <3>2. V = Append(W, p)
      BY <2>1, <3>1
    <3> QED
      BY <3>2
  <2>3. CASE Unsent(d, p) /\ ~Sent(d, p)
    <3>1. wire' \in {wire, [wire EXCEPT ![d] = Append(@, q)]}
      BY <2>3 DEF Unsent
    <3>2. V \in {W, Append(W, q)}
      BY <2>1, <3>1
    <3>3. ~(p.key = NOKEY /\ ~failed)
      BY <2>3
    <3> QED
      BY <3>2, <3>3
  <2> QED
    BY <2>2, <2>3 DEF Put
<1> HIDE DEF q
<1>5. PICK r \in {p, q} : /\ V \in {W, Append(W, r)}
                          /\ (p.key = NOKEY /\ ~failed) => (V = Append(W, r) /\ r.whole = TRUE)
  BY <1>4
<1>6. r \in Packets /\ Same(r, p) /\ V \in Seq(Packets)
  <2>1. r \in Packets /\ Same(r, p)
    BY <1>3, <1>5
  <2>2. Append(W, r) \in Seq(Packets)
    BY <1>1, <2>1
  <2> QED
    BY <1>1, <1>5, <2>1, <2>2
<1>7. Ordered(T, p.key) /\ NewkeysLast(T, p.key, pc[d], Lost(d)) /\ Used(T, p.key, p.ctr)
  BY StreamUsed DEF History
<1>8. Delivered(got[Peer(d)], T) /\ n <= Len(T)
  BY <1>1 DEF Channel, Delivered
<1>9. failed \in BOOLEAN /\ pc[d] # "failed"
  BY DEF Stopped
<1>10. OnWire(W, T, n)
       /\ (in_key[Peer(d)] = NOKEY => Plain(W, T, n, p.key, FALSE))
       /\ (in_key[Peer(d)] = NOKEY /\ Alive(Peer(d)) => PlainNewkeys(W, got[Peer(d)], p.key))
       /\ (in_key[Peer(d)] # NOKEY =>
             CounterNext(T, n, p.key, p.ctr, in_key[Peer(d)], in_ctr[Peer(d)], Lost(d)))
  BY <1>9 DEF Channel
<1>11. Alive(Peer(d))' <=> Alive(Peer(d))
  BY DEF Alive
<1> HIDE DEF n, T, W, V, failed
<1>12. OnWire(V, Append(T, p), n)
  <2>1. OnWire(W, Append(T, p), n) /\ OnWire(Append(W, r), Append(T, p), n)
    BY <1>1, <1>6, <1>7, <1>8, <1>10, OnWirePut
  <2> QED
    BY <1>5, <2>1, Zenon
<1>13. in_key[Peer(d)] = NOKEY => Plain(V, Append(T, p), n, p.key, failed)
  BY <1>1, <1>5, <1>6, <1>9, <1>10, PlainPut, ZenonT(30)
<1>14. in_key[Peer(d)] = NOKEY /\ Alive(Peer(d)) => PlainNewkeys(V, got[Peer(d)], p.key)
  BY <1>1, <1>5, <1>6, <1>10, PlainNewkeysPut, Zenon
<1>15. in_key[Peer(d)] # NOKEY =>
         CounterNext(Append(T, p), n, p.key, out_ctr'[d], in_key[Peer(d)], in_ctr[Peer(d)], Lost(d)')
  <2> DEFINE lost == Lost(d)
             lost2 == Lost(d)'
  <2>1. /\ lost => lost2
        /\ NewkeysLast(T, p.key, pc[d], lost)
        /\ in_key[Peer(d)] # NOKEY =>
             CounterNext(T, n, p.key, p.ctr, in_key[Peer(d)], in_ctr[Peer(d)], lost)
    BY <1>7, <1>10
  <2> HIDE DEF lost, lost2
  <2>2. in_key[Peer(d)] # NOKEY =>
         CounterNext(Append(T, p), n, p.key, out_ctr'[d], in_key[Peer(d)], in_ctr[Peer(d)], lost2)
    BY <1>1, <1>2, <1>8, <2>1, CounterPut
  <2> QED
    BY <2>2 DEF lost2
<1>16. Delivered(got[Peer(d)], Append(T, p))
  BY <1>1, <1>8, DeliveredPut
<1> QED
  BY <1>1, <1>2, <1>11, <1>12, <1>13, <1>14, <1>15, <1>16 DEF Channel, V, failed

\* The packet that passes the MAC is the next one.
LEMMA TakesNext ==
    ASSUME TypeOK, NEW d \in Ends, Channel(d), Incoming(Peer(d)),
           Authentic(Peer(d), First(Peer(d)))
    PROVE  /\ wire[d] # <<>> /\ First(Peer(d)) = wire[d][1] /\ wire[d][1] \in Packets
           /\ Taken(d) + 1 \in DOMAIN tried[d] /\ Same(wire[d][1], tried[d][Taken(d) + 1])
           /\ tried[d][Taken(d) + 1].key = in_key[Peer(d)]
           /\ in_key[Peer(d)] # NOKEY => tried[d][Taken(d) + 1].ctr = in_ctr[Peer(d)]
<1> DEFINE r == Peer(d)
           n == Taken(d)
           T == tried[d]
           W == wire[d]
<1>1. r \in Ends /\ Peer(r) = d
  BY PeerFacts
<1>2. W \in Seq(Packets) /\ T \in Seq(Packets) /\ n \in Nat
  BY ChannelTyped
<1>3. W # <<>> /\ First(r) = W[1] /\ W[1] \in Packets /\ 1 \in DOMAIN W
  <2>1. W # <<>> /\ First(r) = Head(W)
    BY <1>1 DEF Incoming, First
  <2> QED
    BY <1>2, <2>1, TailOf
<1>4. W[1].key = in_key[r] /\ (in_key[r] # NOKEY => W[1].ctr = in_ctr[r])
  BY <1>3 DEF Authentic
<1>5. n + 1 \in DOMAIN T /\ Same(W[1], T[n + 1])
  <2>1. CASE in_key[r] = NOKEY
    BY <1>3, <1>4, <2>1 DEF Channel, Plain
  <2>2. CASE in_key[r] # NOKEY
    <3>1. PICK i \in DOMAIN T : Same(W[1], T[i]) /\ i > n
      BY <1>3, <1>4, <2>2 DEF Channel, OnWire
    <3>2. T[i].key = in_key[r] /\ T[i].ctr = in_ctr[r]
      BY <1>4, <2>2, <3>1 DEF Same
    <3>3. i = n + 1
      BY <2>2, <3>1, <3>2 DEF Channel, CounterNext
    <3> QED
      BY <3>1, <3>3
  <2> QED
    BY <2>1, <2>2
<1> QED
  BY <1>3, <1>4, <1>5 DEF Same

LEMMA TakeEffect ==
    ASSUME TypeOK, NEW d \in Ends, Channel(d), Take(Peer(d))
    PROVE  /\ wire'[d] = Tail(wire[d]) /\ wire'[Peer(d)] = wire[Peer(d)]
           /\ got'[Peer(d)] = Append(got[Peer(d)], Payload(wire[d][1])) /\ got'[d] = got[d]
           /\ Taken(d)' = Taken(d) + 1
           /\ OnWire(wire'[d], tried[d], Taken(d)')
           /\ Delivered(got'[Peer(d)], tried[d])
           /\ in_key[Peer(d)] = NOKEY =>
                Plain(wire'[d], tried[d], Taken(d)', out_key[d], pc[d] = "failed")
           /\ in_key[Peer(d)] = NOKEY /\ Alive(Peer(d)) /\ wire[d][1].type # "NEWKEYS" =>
                PlainNewkeys(wire'[d], got'[Peer(d)], out_key[d])
<1> DEFINE r == Peer(d)
           n == Taken(d)
           T == tried[d]
           W == wire[d]
           G == got[r]
           failed == pc[d] = "failed"
<1>1. r \in Ends /\ Peer(r) = d /\ r # d
  BY PeerFacts
<1>2. W \in Seq(Packets) /\ T \in Seq(Packets) /\ n \in Nat /\ G \in Seq(Payloads) /\ n = Len(G)
  BY ChannelTyped DEF Taken
<1>3. /\ W # <<>> /\ First(r) = W[1] /\ W[1] \in Packets
      /\ n + 1 \in DOMAIN T /\ Same(W[1], T[n + 1])
  BY TakesNext DEF Take
<1>4. Payload(W[1]) = Payload(T[n + 1]) /\ Payload(W[1]) \in Payloads
  BY <1>2, <1>3, SameFacts, SeqFacts, PayloadTyped
<1>5. wire'[d] = Tail(W) /\ wire'[r] = wire[r]
  BY <1>1 DEF Take, TypeOK
<1>6. got'[r] = Append(G, Payload(W[1])) /\ got'[d] = got[d]
  BY <1>1, <1>3 DEF Take, TypeOK
<1>7. /\ OnWire(W, T, n) /\ Delivered(G, T)
      /\ in_key[r] = NOKEY => Plain(W, T, n, out_key[d], failed)
      /\ in_key[r] = NOKEY /\ Alive(r) => PlainNewkeys(W, G, out_key[d])
      /\ failed \in BOOLEAN
  BY DEF Channel
<1>8. Taken(d)' = Len(got'[r])
  BY DEF Taken
<1> HIDE DEF r, n, T, W, G, failed
<1>9. Delivered(Append(G, Payload(W[1])), T) /\ Len(Append(G, Payload(W[1]))) = n + 1
  BY <1>2, <1>3, <1>4, <1>7, DeliveredTake
<1>10. OnWire(Tail(W), T, n + 1)
  BY <1>2, <1>3, <1>7, OnWireTake
<1>11. in_key[r] = NOKEY => Plain(Tail(W), T, n + 1, out_key[d], failed)
  BY <1>2, <1>3, <1>7, PlainTake, Zenon
<1>12. in_key[r] = NOKEY /\ Alive(r) /\ W[1].type # "NEWKEYS" =>
         PlainNewkeys(Tail(W), Append(G, Payload(W[1])), out_key[d])
  BY <1>2, <1>3, <1>7, PlainNewkeysTake
<1> QED
  BY <1>5, <1>6, <1>8, <1>9, <1>10, <1>11, <1>12 DEF r, n, T, W, G, failed

\* The receiver takes a packet, and its keys stay.
LEMMA ChannelTake ==
    ASSUME StreamInv, History, NEW d \in Ends, Channel(d), Take(Peer(d)),
           Consume(Peer(d), First(Peer(d))), UNCHANGED <<out_ctr, out_key, in_key, tried>>,
           pc'[d] = pc[d], shared'[d] = shared[d],
           in_key[Peer(d)] = NOKEY /\ Alive(Peer(d))' =>
             Alive(Peer(d)) /\ First(Peer(d)).type # "NEWKEYS"
    PROVE  Channel(d)'
<1> DEFINE r == Peer(d)
           n == Taken(d)
           T == tried[d]
<1>1. TypeOK /\ r \in Ends
  BY PeerFacts DEF StreamInv
<1>2. /\ T \in Seq(Packets) /\ n \in Nat /\ out_key[d] \in KeySet /\ out_ctr[d] \in Nat
      /\ in_key[r] \in KeySet /\ in_ctr[r] \in Nat
  BY <1>1, ChannelTyped
<1>3. /\ First(r) = wire[d][1] /\ First(r) \in Packets /\ n + 1 \in DOMAIN T
      /\ Same(wire[d][1], T[n + 1]) /\ T[n + 1].key = in_key[r]
      /\ in_key[r] # NOKEY => T[n + 1].ctr = in_ctr[r]
  BY <1>1, TakesNext DEF Take
<1>4. Blocks(First(r)) = Blocks(T[n + 1])
  BY <1>2, <1>3, SameFacts, SeqFacts
<1>5. in_key[r] # NOKEY => in_ctr'[r] = in_ctr[r] + Blocks(T[n + 1])
  <2>1. in_ctr' = IF in_key[r] = NOKEY THEN in_ctr
                  ELSE [in_ctr EXCEPT ![r] = @ + Blocks(First(r))]
    BY <1>1, <1>3, ConsumeTyped
  <2>2. in_ctr \in [Ends -> Nat]
    BY <1>1 DEF TypeOK
  <2> QED
    BY <1>1, <1>4, <2>1, <2>2
<1>6. in_key[r] # NOKEY =>
        CounterNext(T, n + 1, out_key[d], out_ctr[d], in_key[r], in_ctr[r] + Blocks(T[n + 1]), Lost(d))
  <2>1. in_key[r] # NOKEY =>
          CounterNext(T, n, out_key[d], out_ctr[d], in_key[r], in_ctr[r], Lost(d))
    BY DEF Channel
  <2>2. Ordered(T, out_key[d]) /\ Used(T, out_key[d], out_ctr[d])
    BY StreamUsed DEF History
  <2> QED
    BY <1>2, <1>3, <2>1, <2>2, CounterTake
<1>7. in_key[r] # NOKEY =>
        CounterNext(T, n + 1, out_key[d], out_ctr[d], in_key[r], in_ctr[r] + Blocks(T[n + 1]), Lost(d)')
  <2> DEFINE lost == Lost(d)
             lost2 == Lost(d)'
  <2>1. /\ lost => lost2
        /\ in_key[r] # NOKEY =>
             CounterNext(T, n + 1, out_key[d], out_ctr[d], in_key[r], in_ctr[r] + Blocks(T[n + 1]), lost)
    BY <1>6 DEF Lost
  <2> HIDE DEF lost, lost2
  <2>2. in_key[r] # NOKEY =>
          CounterNext(T, n + 1, out_key[d], out_ctr[d], in_key[r], in_ctr[r] + Blocks(T[n + 1]), lost2)
    BY <2>1, CounterLost
  <2> QED
    BY <2>2 DEF lost2
<1> QED
  BY <1>1, <1>3, <1>5, <1>7, TakeEffect DEF Channel

\* The receiver takes the NEWKEYS and new keys.
LEMMA ChannelSwitchIn ==
    ASSUME StreamInv, History, NEW d \in Ends, Channel(d), Take(Peer(d)),
           First(Peer(d)).type = "NEWKEYS", UNCHANGED tried, Lost(d) => Lost(d)',
           out_key'[d] = out_key[d], out_ctr'[d] = out_ctr[d],
           in_key'[Peer(d)] \in KeySet, in_key'[Peer(d)][1] = in_key[Peer(d)][1] + 1,
           in_ctr'[Peer(d)] = 0, out_key[d][1] <= in_key'[Peer(d)][1]
    PROVE  Channel(d)'
<1> DEFINE r == Peer(d)
           n == Taken(d)
           T == tried[d]
<1>1. TypeOK /\ r \in Ends
  BY PeerFacts DEF StreamInv
<1>2. /\ T \in Seq(Packets) /\ n \in Nat /\ out_key[d] \in KeySet /\ out_ctr[d] \in Nat
      /\ in_key[r] \in KeySet
  BY <1>1, ChannelTyped
<1>3. /\ First(r) = wire[d][1] /\ n + 1 \in DOMAIN T
      /\ Same(wire[d][1], T[n + 1]) /\ T[n + 1].key = in_key[r]
  BY <1>1, TakesNext DEF Take
<1>4. T[n + 1].type = "NEWKEYS"
  BY <1>3 DEF Same
<1>5. in_key'[r] # NOKEY
  <2>1. in_key[r][1] \in Nat
    BY <1>2 DEF KeySet
  <2> QED
    BY <2>1, NoKeyFirst
<1>6. CounterNext(T, n + 1, out_key[d], out_ctr[d], in_key'[r], 0, Lost(d))
  <2>1. Ordered(T, out_key[d]) /\ Used(T, out_key[d], out_ctr[d])
        /\ NewkeysLast(T, out_key[d], pc[d], Lost(d))
    BY StreamUsed DEF History
  <2> QED
    BY <1>2, <1>3, <1>4, <1>5, <2>1, CounterSwitchIn
<1>7. CounterNext(T, n + 1, out_key[d], out_ctr[d], in_key'[r], 0, Lost(d)')
  <2> DEFINE lost == Lost(d)
             lost2 == Lost(d)'
  <2>1. /\ lost => lost2
        /\ CounterNext(T, n + 1, out_key[d], out_ctr[d], in_key'[r], 0, lost)
    BY <1>6
  <2> HIDE DEF lost, lost2
  <2>2. CounterNext(T, n + 1, out_key[d], out_ctr[d], in_key'[r], 0, lost2)
    BY <2>1, CounterLost
  <2> QED
    BY <2>2 DEF lost2
<1> QED
  BY <1>1, <1>5, <1>7, TakeEffect DEF Channel

\* The sender takes new keys into use.
LEMMA ChannelSwitchOut ==
    ASSUME StreamInv, History, NEW d \in Ends, Channel(d),
           pc[d] \in {"nkwait", "x_switch"}, ~Lost(d), pc'[d] # "failed",
           wire'[d] = wire[d], tried'[d] = tried[d], got'[Peer(d)] = got[Peer(d)],
           in_key'[Peer(d)] = in_key[Peer(d)], in_ctr'[Peer(d)] = in_ctr[Peer(d)],
           pc'[Peer(d)] = pc[Peer(d)], out_key'[d] \in KeySet, out_ctr'[d] = 0,
           out_key[d][1] < out_key'[d][1], in_key[Peer(d)][1] <= out_key'[d][1]
    PROVE  Channel(d)'
<1> DEFINE r == Peer(d)
           n == Taken(d)
           T == tried[d]
           W == wire[d]
           G == got[r]
<1>1. TypeOK /\ r \in Ends
  BY PeerFacts DEF StreamInv
<1>2. /\ W \in Seq(Packets) /\ T \in Seq(Packets) /\ G \in Seq(Payloads) /\ n \in Nat
      /\ out_key[d] \in KeySet /\ in_key[r] \in KeySet /\ n = Len(G) /\ Taken(d)' = n
  BY <1>1, ChannelTyped DEF Taken
<1>3. out_key'[d] # NOKEY
  <2>1. out_key[d][1] \in Nat /\ out_key'[d][1] \in Nat
    BY <1>2 DEF KeySet
  <2> QED
    BY <2>1, NoKeyFirst
<1>4. pc[d] # "failed" /\ (Alive(r)' <=> Alive(r))
  BY DEF Alive
<1>5. /\ OnWire(W, T, n) /\ Delivered(G, T)
      /\ in_key[r] = NOKEY => Plain(W, T, n, out_key[d], FALSE)
      /\ in_key[r] = NOKEY /\ Alive(r) => PlainNewkeys(W, G, out_key[d])
      /\ in_key[r] # NOKEY =>
           CounterNext(T, n, out_key[d], out_ctr[d], in_key[r], in_ctr[r], Lost(d))
  BY <1>4 DEF Channel
<1>6. /\ Ordered(T, out_key[d]) /\ NewkeysLast(T, out_key[d], pc[d], FALSE)
      /\ in_key[r] # NOKEY =>
           CounterNext(T, n, out_key[d], out_ctr[d], in_key[r], in_ctr[r], FALSE)
  <2> DEFINE lost == Lost(d)
  <2>1. /\ ~lost /\ Ordered(T, out_key[d]) /\ NewkeysLast(T, out_key[d], pc[d], lost)
        /\ in_key[r] # NOKEY =>
             CounterNext(T, n, out_key[d], out_ctr[d], in_key[r], in_ctr[r], lost)
    BY <1>5 DEF History
  <2> HIDE DEF lost
  <2>2. NewkeysLast(T, out_key[d], pc[d], FALSE)
    BY <2>1 DEF NewkeysLast
  <2>3. in_key[r] # NOKEY =>
          CounterNext(T, n, out_key[d], out_ctr[d], in_key[r], in_ctr[r], FALSE)
    BY <2>1 DEF CounterNext
  <2> QED
    BY <2>1, <2>2, <2>3
<1> HIDE DEF n, T, W, G, r
<1>7. in_key[r] = NOKEY => Plain(W, T, n, out_key'[d], FALSE)
  BY <1>3, <1>5 DEF Plain
<1>8. in_key[r] = NOKEY /\ Alive(r) => PlainNewkeys(W, G, out_key'[d])
  BY <1>2, <1>5, <1>6, PlainNewkeysSwitch, Zenon
<1>9. in_key[r] # NOKEY => CounterNext(T, n, out_key'[d], 0, in_key[r], in_ctr[r], Lost(d)')
  BY <1>2, <1>5, <1>6, CounterSwitchOut DEF r
<1>10. in_key[r] = NOKEY => Plain(W, T, n, out_key'[d], pc'[d] = "failed")
  BY <1>7
<1> QED
  BY <1>2, <1>3, <1>4, <1>5, <1>8, <1>9, <1>10 DEF Channel, n, T, W, G, r

\* Nothing that is not a packet is taken for one.
LEMMA NoGarbage ==
    ASSUME StreamInv, History, NEW d \in Ends, Channel(d), Reject(Peer(d))
    PROVE  got' = got
<1> DEFINE r == Peer(d)
           T == tried[d]
           W == wire[d]
<1> SUFFICES ASSUME in_key[r] = NOKEY, First(r).whole \/ Len(W) > 1
             PROVE  FALSE
  <2>1. Peer(r) = d
    BY PeerFacts
  <2> QED
    BY <2>1 DEF Reject
<1>1. TypeOK /\ r \in Ends /\ Peer(r) = d
  BY PeerFacts DEF StreamInv
<1>2. W \in Seq(Packets) /\ T \in Seq(Packets) /\ out_key[d] \in KeySet
  BY <1>1, ChannelTyped
<1>3. W # <<>> /\ First(r) = W[1] /\ 1 \in DOMAIN W
  <2>1. W # <<>> /\ First(r) = Head(W)
    BY <1>1 DEF Reject, Incoming, First
  <2> QED
    BY <1>2, <2>1, TailOf
<1>4. Alive(r)
  BY <1>1 DEF Reject, Receiving, Alive, Ends
<1>5. PlainNewkeys(W, got[r], out_key[d])
      /\ Plain(W, T, Taken(d), out_key[d], pc[d] = "failed") /\ OnWire(W, T, Taken(d))
  BY <1>4 DEF Channel
<1>6. W[1].key = NOKEY
  <2> SUFFICES ASSUME W[1].key # NOKEY PROVE FALSE
    OBVIOUS
  <2>1. PICK i \in DOMAIN T : Same(W[1], T[i])
    BY <1>3, <1>5 DEF OnWire
  <2>2. T[i].key[1] \in Nat
    BY <1>2, SeqFacts
  <2>3. out_key[d] # NOKEY
    BY <2>1, <2>2, NoKeyFirst DEF History, Ordered, Same
  <2>4. PICK k \in DOMAIN W : W[k].key = NOKEY
    BY <1>5, <2>3 DEF PlainNewkeys
  <2>5. k > 1
    BY <1>2, <2>4, SeqFacts
  <2> QED
    BY <1>3, <1>5, <2>4, <2>5 DEF OnWire
<1>7. ~W[1].whole
  BY <1>3, <1>6 DEF Reject, Authentic
<1>8. 1 = Len(W)
  BY <1>3, <1>5, <1>6, <1>7 DEF Plain
<1>9. ~First(r).whole
  BY <1>3, <1>7, Zenon
<1>10. ~(Len(W) > 1)
  <2>1. ~(1 > 1)
    OBVIOUS
  <2> QED
    BY <1>8, <2>1, Zenon
<1> QED
  BY <1>9, <1>10, Zenon

----------------------------------------------------------------------------
(* The invariant over the steps.                                           *)

\* Where the steps that take a packet lead.
AcceptPlaces ==
    {<<"kexwait", "ecdh">>, <<"kexwait", "failed">>, <<"replywait", "replywait">>,
     <<"replywait", "newkeys">>, <<"nkwait", "nkwait">>, <<"nkwait", "failed">>,
     <<"data", "data">>, <<"data", "kexanswer">>, <<"kexinit", "kexreply">>,
     <<"kexinit", "failed">>, <<"ecdh", "reply">>, <<"ecdh", "failed">>,
     <<"data", "x_kexreply">>, <<"rekeyed", "rekeyed">>, <<"rekeyed", "x_ecdh">>,
     <<"x_ecdh", "x_reply">>, <<"kexwait", "data">>, <<"x_ecdh", "x_ecdh">>,
     <<"x_ecdh", "failed">>, <<"x_nkwait", "x_nkwait">>, <<"x_nkwait", "failed">>}

\* The client leaves a rekey.
Onward(e) == e = "client" /\ rekeying /\ pc'[e] = "data"

LEMMA AcceptsPlaces ==
    ASSUME TypeOK, OneExchange, NEW e \in Ends, Accepts(e)
    PROVE  /\ <<pc[e], pc'[e]>> \in AcceptPlaces
           /\ pc'[Peer(e)] = pc[Peer(e)] /\ shared'[Peer(e)] = shared[Peer(e)]
           /\ shared'[e] = IF pc'[e] # pc[e] /\ pc'[e] \in {"newkeys", "reply", "x_reply"}
                           THEN shared[e] + 1 ELSE shared[e]
           /\ pc[e] = "kexwait" /\ pc'[e] = "data" => Onward(e)
           /\ pc[e] = "kexwait" /\ pc'[e] = "ecdh" => First(e).type = "KEXINIT"
           /\ pc[e] = "data" /\ pc'[e] = "kexanswer" => First(e).type = "KEXINIT"
           /\ pc[e] \in {"kexwait", "kexinit"} /\ First(e).type = "NEWKEYS" =>
                pc'[e] = "failed" \/ Onward(e)
           /\ pc[e] = "ecdh" /\ First(e).type = "NEWKEYS" => pc'[e] = "failed"
           /\ e = "client" /\ pc[e] = "replywait" /\ First(e).type = "ECDH_REPLY"
                => pc'[e] = "newkeys"
           /\ pc[e] \in {"nkwait", "x_nkwait"} => First(e).type # "NEWKEYS"
           /\ e = "server" => pc[e] # "replywait"
           /\ e = "client" => pc[e] \in {"kexwait", "replywait", "nkwait", "data"}
           /\ e = "server" => pc[e] # "kexwait" /\ ~(pc'[e] = "kexanswer")
<1>1. /\ e = "client" \/ e = "server"
      /\ "client" \in Ends /\ "server" \in Ends /\ "client" # "server"
      /\ pc \in [Ends -> ClientPCs \cup ServerPCs] /\ shared \in [Ends -> Nat]
      /\ pc["server"] \in ServerPCs /\ \A f \in Ends : shared[f] \in Nat
  BY DEF Ends, TypeOK
<1>2. Take(e) /\ 1 \in DOMAIN wire[Peer(e)] /\ First(e) = wire[Peer(e)][1]
  BY AcceptsForm, TakeKept
<1>3. CASE e = "client"
  <2>1. First(e).type = "ECDH_REPLY" => First(e).x = shared[e] + 1
    <3>1. First(e).type = "ECDH_REPLY" => 1 \in Passed("server")
      BY <1>2, <1>3 DEF Passed, InFlight, Turns, Peer
    <3> QED
      BY <1>2, <1>3, <3>1 DEF OneExchange, SecretsAgree, Odd, Peer
  <2>2. /\ pc' = [pc EXCEPT ![e] = pc'[e]]
        /\ <<pc[e], pc'[e]>> \in AcceptPlaces
        /\ shared' = [shared EXCEPT ![e] =
               IF pc'[e] # pc[e] /\ pc'[e] \in {"newkeys", "reply", "x_reply"}
               THEN First(e).x ELSE shared[e]]
        /\ pc'[e] = "newkeys" /\ pc[e] # "newkeys" => First(e).type = "ECDH_REPLY"
        /\ pc'[e] \notin {"reply", "x_reply"}
    BY <1>1, <1>3 DEF Accepts, ClientKexinit, ClientReply, ClientData, ClientNewkeys, Goto, Agree,
       AcceptPlaces, Established, GivesUp, GoesOn, control
  <2>3. /\ pc[e] \in {"kexwait", "kexinit"} /\ First(e).type = "NEWKEYS" =>
             pc'[e] = "failed" \/ Onward(e)
        /\ pc[e] = "kexwait" /\ pc'[e] = "data" => Onward(e)
        /\ pc[e] = "kexwait" /\ pc'[e] = "ecdh" => First(e).type = "KEXINIT"
        /\ pc[e] = "data" /\ pc'[e] = "kexanswer" => First(e).type = "KEXINIT"
        /\ pc[e] \in {"kexwait", "replywait", "nkwait", "data"}
        /\ pc[e] = "replywait" /\ First(e).type = "ECDH_REPLY" => pc'[e] = "newkeys"
        /\ pc[e] = "nkwait" => First(e).type # "NEWKEYS"
    BY <1>1, <1>3 DEF Accepts, ClientKexinit, ClientReply, ClientData, ClientNewkeys, Goto,
       Established, GivesUp, GoesOn, Onward, control
  <2>4. Peer(e) \in Ends /\ Peer(e) # e
    BY PeerFacts
  <2> QED
    BY <1>1, <1>3, <2>1, <2>2, <2>3, <2>4
<1>4. CASE e = "server"
  <2>1. First(e).type = "ECDH_INIT" => First(e).x = shared[e] + 1
    <3>1. First(e).type = "ECDH_INIT" => 1 \in Passed("client")
      BY <1>2, <1>4 DEF Passed, InFlight, Turns, Peer
    <3> QED
      BY <1>2, <1>4, <3>1 DEF OneExchange, SecretsAgree, Even, Peer
  <2>2. /\ pc' = [pc EXCEPT ![e] = pc'[e]]
        /\ <<pc[e], pc'[e]>> \in AcceptPlaces
        /\ shared' = [shared EXCEPT ![e] =
               IF pc'[e] # pc[e] /\ pc'[e] \in {"newkeys", "reply", "x_reply"}
               THEN First(e).x ELSE shared[e]]
        /\ pc'[e] \in {"reply", "x_reply"} /\ pc'[e] # pc[e] => First(e).type = "ECDH_INIT"
        /\ pc'[e] # "newkeys"
    BY <1>1, <1>4 DEF Accepts, ServerKexinit, ServerEcdh, ServerData, ForeignKexinit, ForeignEcdh,
       ForeignOther, ServerNewkeys, Goto, Agree, AcceptPlaces, Established, control
  <2>3. /\ pc[e] = "kexinit" /\ First(e).type = "NEWKEYS" => pc'[e] = "failed"
        /\ pc[e] # "kexwait" /\ pc'[e] # "kexanswer"
        /\ pc[e] = "ecdh" /\ First(e).type = "NEWKEYS" => pc'[e] = "failed"
        /\ pc[e] \in {"nkwait", "x_nkwait"} => First(e).type # "NEWKEYS"
        /\ pc[e] # "replywait"
    BY <1>1, <1>4 DEF Accepts, ServerKexinit, ServerEcdh, ServerData, ForeignKexinit, ForeignEcdh,
       ForeignOther, ServerNewkeys, Goto, Established, control
  <2>4. Peer(e) \in Ends /\ Peer(e) # e
    BY PeerFacts
  <2> QED
    BY <1>1, <1>4, <2>1, <2>2, <2>3, <2>4
<1> QED
  BY <1>1, <1>3, <1>4

\* A message of the key exchange is sent.
LEMMA KexSendFacts ==
    ASSUME TypeOK, NEW k \in SendKinds, KexSend(k)
    PROVE  \E p \in Packets :
             LET e == k[1]
             IN  /\ e \in Ends /\ pc[e] = k[2] /\ Put(e, p) /\ p.type = k[3]
                 /\ p.key = out_key[e] /\ p.ctr = out_ctr[e] /\ p.whole = TRUE
                 /\ p.x = SendX(e, k[3]) /\ p.seq = send_seq[e]
                 /\ pc'[e] \in {k[4], "failed"} \/ Onward(e)
                 /\ pc'[Peer(e)] = pc[Peer(e)]
                 /\ pc'[e] # "failed" => Sent(e, p) \/ Onward(e)
                 /\ UNCHANGED <<foreign, out_key, in_key, shared, session_id, in_ctr, recv_seq, got>>
<1> DEFINE e == k[1]
           m == Message(k[3], SendX(k[1], k[3]))
           p == Packet(e, m)
<1>1. /\ e \in Ends /\ m \in Messages /\ m.type = k[3] /\ p \in Packets /\ Put(e, p)
      /\ m.x = SendX(e, k[3])
      /\ UNCHANGED <<foreign, crypto, in_ctr, recv_seq, got>>
  BY KexSendTyped, Zenon
<1>2. p.type = k[3] /\ p.key = out_key[e] /\ p.ctr = out_ctr[e] /\ p.whole = TRUE
      /\ p.x = SendX(e, k[3]) /\ p.seq = send_seq[e]
  BY <1>1, PacketTyped
<1>3. \/ Sent(e, p) /\ Goto(e, k[4])
      \/ Goto(e, "failed")
      \/ e = "client" /\ rekeying /\ Goto(e, "data")
  BY Zenon DEF KexSend, Send, GivesUp, GoesOn
<1> HIDE DEF m, p
<1>4. pc \in [Ends -> ClientPCs \cup ServerPCs] /\ Peer(e) \in Ends /\ Peer(e) # e
  BY <1>1, PeerFacts DEF TypeOK
<1>5. /\ pc'[e] \in {k[4], "failed"} \/ Onward(e)
      /\ pc'[Peer(e)] = pc[Peer(e)]
      /\ pc'[e] # "failed" => Sent(e, p) \/ Onward(e)
  BY <1>1, <1>3, <1>4 DEF Goto, Onward
<1>6. pc[e] = k[2]
  BY DEF KexSend
<1> QED
  BY <1>1, <1>2, <1>5, <1>6 DEF crypto

\* Any other message is sent.
LEMMA SendDataFacts ==
    ASSUME TypeOK, NEW e \in Ends, SendData(e)
    PROVE  \E p \in Packets :
              /\ pc[e] = "data" /\ Put(e, p) /\ p.type = "DATA" /\ p.seq = send_seq[e]
              /\ p.key = out_key[e] /\ p.ctr = out_ctr[e] /\ p.whole = TRUE
              /\ pc'[e] \in {"data", "failed"} /\ pc'[Peer(e)] = pc[Peer(e)]
              /\ UNCHANGED <<foreign, out_key, in_key, shared, session_id, in_ctr, recv_seq, got>>
<1>1. PICK m \in Messages :
            /\ m.type = "DATA" /\ pc[e] = "data"
            /\ Packet(e, m) \in Packets /\ Put(e, Packet(e, m))
            /\ UNCHANGED control \/ Goto(e, "failed")
            /\ UNCHANGED <<foreign, crypto, in_ctr, recv_seq, got, rekeys>>
  BY SendDataTyped, Zenon
<1> DEFINE p == Packet(e, m)
<1>2. p.type = "DATA" /\ p.key = out_key[e] /\ p.ctr = out_ctr[e] /\ p.whole = TRUE
      /\ p.seq = send_seq[e]
  BY <1>1, PacketTyped
<1>3. pc \in [Ends -> ClientPCs \cup ServerPCs] /\ Peer(e) \in Ends /\ Peer(e) # e
  BY PeerFacts DEF TypeOK
<1>4. pc'[e] \in {"data", "failed"} /\ pc'[Peer(e)] = pc[Peer(e)]
  BY <1>1, <1>3 DEF Goto, control
<1>5. UNCHANGED <<foreign, out_key, in_key, shared, session_id, in_ctr, recv_seq, got>>
  BY <1>1 DEF crypto
<1> QED
  BY <1>1, <1>2, <1>4, <1>5

LEMMA MovesFacts ==
    ASSUME TypeOK, NEW e \in Ends, Moves(e)
    PROVE  /\ \/ pc'[e] \in {"closed", "failed"} \/ Onward(e)
              \/ pc[e] = "data" /\ pc'[e] = "kexinit" /\ e = "client"
           /\ UNCHANGED wire \/ (e = "client" /\ rekeying /\ Damaged(e))
           /\ pc[e] \notin {"closed", "failed", "x_switch"} /\ pc'[Peer(e)] = pc[Peer(e)]
           /\ UNCHANGED <<out_key, in_key, shared, out_ctr, in_ctr, tried, got>>
<1>1. PICK where \in {"closed", "failed"} \cup (IF e = "client" THEN {"kexinit", "data"} ELSE {}) :
              Goto(e, where) /\ (where = "kexinit" => pc[e] = "data") /\ (where = "data" => rekeying)
  BY MovesForm
<1>2. /\ Receiving(e) /\ UNCHANGED <<foreign, crypto, counters, tried, got>>
      /\ UNCHANGED wire \/ (e = "client" /\ rekeying /\ Damaged(e))
  BY MovesForm
<1>3. pc \in [Ends -> ClientPCs \cup ServerPCs] /\ Peer(e) \in Ends /\ Peer(e) # e
  BY PeerFacts DEF TypeOK
<1>4. pc[e] \notin {"closed", "failed", "x_switch"}
  BY <1>2 DEF Receiving
<1>5. /\ \/ pc'[e] \in {"closed", "failed"} \/ Onward(e)
         \/ pc[e] = "data" /\ pc'[e] = "kexinit" /\ e = "client"
      /\ pc'[Peer(e)] = pc[Peer(e)]
  BY <1>1, <1>3 DEF Goto, Onward
<1> QED
  BY <1>2, <1>4, <1>5 DEF crypto, counters

LEMMA SwitchesFacts ==
    ASSUME TypeOK, NEW e \in Ends, Switches(e)
    PROVE  /\ Take(e) /\ First(e).type = "NEWKEYS" /\ pc[e] \in {"nkwait", "x_nkwait"}
           /\ pc'[e] = "data" /\ pc'[Peer(e)] = pc[Peer(e)]
           /\ in_key'[e] \in KeySet /\ in_key'[e][1] = shared[e] /\ in_ctr'[e] = 0
           /\ in_key'[Peer(e)] = in_key[Peer(e)] /\ in_ctr'[Peer(e)] = in_ctr[Peer(e)]
           /\ out_key'[Peer(e)] = out_key[Peer(e)] /\ out_ctr'[Peer(e)] = out_ctr[Peer(e)]
           /\ \/ /\ pc[e] = "nkwait" /\ out_key'[e] \in KeySet /\ out_key'[e][1] = shared[e]
                 /\ out_ctr'[e] = 0
              \/ /\ pc[e] = "x_nkwait" /\ out_key'[e] = out_key[e] /\ out_ctr'[e] = out_ctr[e]
           /\ UNCHANGED <<foreign, shared, session_id, send_seq, tried, faults, rekeys>>
<1>1. /\ pc \in [Ends -> ClientPCs \cup ServerPCs] /\ Peer(e) \in Ends /\ Peer(e) # e
      /\ in_key \in [Ends -> KeySet] /\ out_key \in [Ends -> KeySet]
      /\ in_ctr \in [Ends -> Nat] /\ out_ctr \in [Ends -> Nat]
      /\ shared[e] \in Nat /\ session_id[e] \in Nat
  BY PeerFacts DEF TypeOK
<1>2. \A key \in {KeyBlock(e), <<shared[e], shared[e], session_id[e]>>} :
         key \in KeySet /\ key[1] = shared[e]
  BY <1>1 DEF KeyBlock, KeySet
<1> HIDE DEF KeyBlock
<1>3. /\ Take(e) /\ First(e).type = "NEWKEYS" /\ pc[e] \in {"nkwait", "x_nkwait"}
      /\ Goto(e, "data")
      /\ in_key' = [in_key EXCEPT ![e] = in_key'[e]]
      /\ in_key'[e] \in {KeyBlock(e), <<shared[e], shared[e], session_id[e]>>}
      /\ in_ctr' = [in_ctr EXCEPT ![e] = 0]
      /\ UNCHANGED <<foreign, shared, session_id, send_seq, tried, faults, rekeys>>
  BY SwitchesForm, Zenon
<1>4. \/ /\ pc[e] = "nkwait" /\ out_key' = [out_key EXCEPT ![e] = KeyBlock(e)]
         /\ out_ctr' = [out_ctr EXCEPT ![e] = 0]
      \/ pc[e] = "x_nkwait" /\ UNCHANGED <<out_key, out_ctr>>
  BY SwitchesForm, Zenon
<1>5. pc'[e] = "data" /\ pc'[Peer(e)] = pc[Peer(e)]
  BY <1>1, <1>3 DEF Goto
<1>6. in_key'[e] \in KeySet /\ in_key'[e][1] = shared[e]
  BY <1>2, <1>3
<1>7. in_key'[Peer(e)] = in_key[Peer(e)]
  BY <1>1, <1>3
<1>8. in_ctr'[e] = 0 /\ in_ctr'[Peer(e)] = in_ctr[Peer(e)]
  BY <1>1, <1>3
<1>9. /\ out_key'[Peer(e)] = out_key[Peer(e)] /\ out_ctr'[Peer(e)] = out_ctr[Peer(e)]
      /\ \/ /\ pc[e] = "nkwait" /\ out_key'[e] = KeyBlock(e) /\ out_ctr'[e] = 0
         \/ /\ pc[e] = "x_nkwait" /\ out_key'[e] = out_key[e] /\ out_ctr'[e] = out_ctr[e]
  BY <1>1, <1>4
<1> QED
  BY <1>2, <1>3, <1>5, <1>6, <1>7, <1>8, <1>9

LEMMA SwitchesOutFacts ==
    ASSUME TypeOK, ForeignSwitchesOut
    PROVE  /\ "server" \in Ends /\ pc["server"] = "x_switch" /\ pc'["server"] = "x_nkwait"
           /\ pc'["client"] = pc["client"]
           /\ out_key'["server"] \in KeySet /\ out_key'["server"][1] = shared["server"]
           /\ out_ctr'["server"] = 0
           /\ out_key'["client"] = out_key["client"] /\ out_ctr'["client"] = out_ctr["client"]
           /\ UNCHANGED <<foreign, in_key, shared, session_id, in_ctr, wire, tried, got>>
<1>1. /\ "server" \in Ends /\ "client" \in Ends /\ "client" # "server"
      /\ pc \in [Ends -> ClientPCs \cup ServerPCs]
      /\ out_key \in [Ends -> KeySet] /\ out_ctr \in [Ends -> Nat]
      /\ shared["server"] \in Nat /\ session_id["server"] \in Nat
  BY DEF TypeOK, Ends
<1>2. ForeignKey \in KeySet /\ ForeignKey[1] = shared["server"]
  BY <1>1 DEF ForeignKey, KeySet
<1> QED
  BY <1>1, <1>2 DEF ForeignSwitchesOut, Goto

LEMMA RejectFacts ==
    ASSUME TypeOK, NEW e \in Ends, Reject(e)
    PROVE  /\ pc'[e] = "failed" \/ Onward(e)
           /\ pc'[Peer(e)] = pc[Peer(e)]
           /\ pc[e] \notin {"closed", "failed", "x_switch"}
           /\ UNCHANGED <<out_key, in_key, shared, out_ctr, in_ctr, wire, tried>>
<1>1. pc \in [Ends -> ClientPCs \cup ServerPCs] /\ Peer(e) \in Ends /\ Peer(e) # e
  BY PeerFacts DEF TypeOK
<1>2. pc[e] \notin {"closed", "failed", "x_switch"}
  BY DEF Reject, Receiving
<1>3. Goto(e, "failed") \/ (e = "client" /\ rekeying /\ Goto(e, "data"))
  BY Zenon DEF Reject, GivesUp, GoesOn
<1>4. (pc'[e] = "failed" \/ Onward(e)) /\ pc'[Peer(e)] = pc[Peer(e)]
  BY <1>1, <1>3 DEF Goto, Onward
<1> QED
  BY <1>2, <1>4 DEF Reject, crypto, counters

\* A client that leaves a rekey with a new secret is lost.
LEMMA OnwardLost ==
    ASSUME TypeOK, InKeys, NEW d \in Ends, Onward(d), pc[d] \in {"newkeys", "nkwait"},
           shared'[d] = shared[d], in_key'[d] = in_key[d]
    PROVE  Lost(d)'
<1>1. in_key[d][1] \in Nat
  BY DEF TypeOK, KeySet
<1>2. shared[d] = in_key[d][1] + 1
  BY DEF InKeys, KeysAt, InAhead, Ahead
<1> QED
  BY <1>1, <1>2 DEF Lost, Onward

\* It stays so: what it takes from here on is no KEXINIT.
LEMMA LostStays ==
    ASSUME StreamInv, InKeys, [Next]_vars, NEW d \in Ends, Lost(d)
    PROVE  Lost(d)'
<1>0. /\ TypeOK /\ OneExchange /\ d = "client" /\ pc[d] \in ClientPCs
      /\ pc[d] \notin {"newkeys", "nkwait"} /\ shared[d] # in_key[d][1]
  BY DEF StreamInv, Lost, TypeOK
<1>1. pc[d] \in {"data", "kexinit", "kexwait", "failed", "closed"}
  BY <1>0 DEF InKeys, KeysAt, InAhead, Ahead, ClientPCs
<1>2. /\ "client" \in Ends /\ "server" \in Ends /\ Peer("server") = "client" /\ Peer("client") = "server"
      /\ \A e \in Ends : e = "client" \/ e = "server"
  BY DEF Ends, Peer
<1> DEFINE Here == shared'[d] = shared[d] /\ in_key'[d] = in_key[d]
<1> SUFFICES Here /\ pc'[d] \notin {"newkeys", "nkwait"}
  BY <1>0 DEF Lost
<1>3. CASE UNCHANGED vars
  BY <1>0, <1>3 DEF vars, control, crypto
<1>4. ASSUME NEW k \in SendKinds, KexSend(k) PROVE Here /\ pc'[d] \notin {"newkeys", "nkwait"}
  <2>1. /\ k[1] \in Ends /\ pc[k[1]] = k[2] /\ UNCHANGED <<in_key, shared>>
        /\ pc'[k[1]] \in {k[4], "failed"} \/ Onward(k[1])
        /\ pc'[Peer(k[1])] = pc[Peer(k[1])]
    BY <1>0, <1>4, KexSendFacts
  <2>2. k[1] = "client" /\ k[2] # "newkeys" => k[4] \notin {"newkeys", "nkwait"}
    BY DEF SendKinds
  <2> QED
    BY <1>0, <1>2, <2>1, <2>2 DEF Onward
<1>5. ASSUME NEW e \in Ends, SendData(e) PROVE Here /\ pc'[d] \notin {"newkeys", "nkwait"}
  <2>1. /\ pc'[e] \in {"data", "failed"} /\ pc'[Peer(e)] = pc[Peer(e)] /\ UNCHANGED <<in_key, shared>>
    BY <1>0, <1>5, SendDataFacts
  <2> QED
    BY <1>0, <1>2, <2>1
<1>6. ASSUME NEW e \in Ends, Accepts(e) PROVE Here /\ pc'[d] \notin {"newkeys", "nkwait"}
  <2>1. /\ <<pc[e], pc'[e]>> \in AcceptPlaces /\ pc'[Peer(e)] = pc[Peer(e)]
        /\ shared'[Peer(e)] = shared[Peer(e)]
        /\ shared'[e] = IF pc'[e] # pc[e] /\ pc'[e] \in {"newkeys", "reply", "x_reply"}
                        THEN shared[e] + 1 ELSE shared[e]
        /\ e = "client" => pc[e] \in {"kexwait", "replywait", "nkwait", "data"}
    BY <1>0, <1>6, AcceptsPlaces
  <2>2. UNCHANGED in_key
    BY <1>0, <1>6, AcceptsForm
  <2>3. CASE e = "server"
    BY <1>0, <1>2, <2>1, <2>2, <2>3
  <2>4. CASE e = "client"
    <3>1. pc[e] \in {"kexwait", "data"}
      BY <1>0, <1>1, <2>1, <2>4
    <3>2. pc'[e] \notin {"newkeys", "nkwait", "reply", "x_reply"}
      BY <2>1, <3>1 DEF AcceptPlaces
    <3> QED
      BY <1>0, <2>1, <2>2, <2>4, <3>2
  <2> QED
    BY <1>2, <2>3, <2>4
<1>7. ASSUME NEW e \in Ends, Switches(e) PROVE Here /\ pc'[d] \notin {"newkeys", "nkwait"}
  <2>1. /\ pc[e] \in {"nkwait", "x_nkwait"} /\ pc'[Peer(e)] = pc[Peer(e)]
        /\ in_key'[Peer(e)] = in_key[Peer(e)] /\ UNCHANGED shared
    BY <1>0, <1>7, SwitchesFacts
  <2> QED
    BY <1>0, <1>1, <1>2, <2>1
<1>8. ASSUME NEW e \in Ends, Moves(e) \/ Reject(e) PROVE Here /\ pc'[d] \notin {"newkeys", "nkwait"}
  <2>1. /\ pc'[e] \in {"closed", "failed", "kexinit"} \/ Onward(e)
        /\ pc'[Peer(e)] = pc[Peer(e)] /\ UNCHANGED <<in_key, shared>>
    BY <1>0, <1>8, MovesFacts, RejectFacts
  <2> QED
    BY <1>0, <1>2, <2>1 DEF Onward
<1>9. ASSUME ForeignSwitchesOut PROVE Here /\ pc'[d] \notin {"newkeys", "nkwait"}
  BY <1>0, <1>9, SwitchesOutFacts
<1> HIDE DEF Here
<1> QED
  BY <1>0, <1>3, <1>4, <1>5, <1>6, <1>7, <1>8, <1>9, StepForms, KexSendForm

Histories(d) ==
    Ordered(tried'[d], out_key'[d]) /\ NewkeysLast(tried'[d], out_key'[d], pc'[d], Lost(d)')

LEMMA HistoryKeep ==
    ASSUME NEW d \in Ends, History, tried'[d] = tried[d], out_key'[d] = out_key[d],
           Lost(d) => Lost(d)', pc[d] \in Stopped => pc'[d] \in Stopped \/ Lost(d)',
           pc'[d] \in {"nkwait", "x_switch"} => pc'[d] = pc[d]
    PROVE  Histories(d)
<1> DEFINE lost == Lost(d)
           lost2 == Lost(d)'
<1>1. /\ Ordered(tried[d], out_key[d]) /\ NewkeysLast(tried[d], out_key[d], pc[d], lost)
      /\ lost => lost2
      /\ pc[d] \in Stopped => pc'[d] \in Stopped \/ lost2
  BY DEF History
<1> HIDE DEF lost, lost2
<1>2. NewkeysLast(tried[d], out_key[d], pc'[d], lost2)
  BY <1>1, NewkeysMove
<1> QED
  BY <1>1, <1>2 DEF Histories, lost2

LEMMA HistoryPut ==
    ASSUME TypeOK, NEW d \in Ends, History, NEW p \in Packets, Put(d, p), p.key = out_key[d],
           out_key' = out_key, pc[d] \notin Stopped, Lost(d) => Lost(d)',
           p.type = "NEWKEYS" => pc'[d] \in Stopped \/ Lost(d)',
           pc'[d] \in {"nkwait", "x_switch"} => p.type = "NEWKEYS"
    PROVE  Histories(d)
<1> DEFINE lost == Lost(d)
           lost2 == Lost(d)'
<1>1. tried'[d] = Append(tried[d], p) /\ tried[d] \in Seq(Packets)
  BY PutTried, ChannelTyped
<1>2. /\ Ordered(tried[d], p.key) /\ NewkeysLast(tried[d], p.key, pc[d], lost)
      /\ lost => lost2
      /\ p.type = "NEWKEYS" => pc'[d] \in Stopped \/ lost2
  BY DEF History
<1> HIDE DEF lost, lost2
<1>3. Ordered(Append(tried[d], p), p.key)
  BY <1>1, <1>2, OrderedPut
<1> DEFINE where == pc[d]
           next == pc'[d]
<1>4. /\ where \notin Stopped /\ NewkeysLast(tried[d], p.key, where, lost)
      /\ p.type = "NEWKEYS" => next \in Stopped \/ lost2
      /\ next \in {"nkwait", "x_switch"} => p.type = "NEWKEYS"
  BY <1>2
<1> HIDE DEF where, next
<1>5. NewkeysLast(Append(tried[d], p), p.key, next, lost2)
  BY <1>1, <1>2, <1>4, NewkeysPut, ZenonT(30)
<1> QED
  BY <1>1, <1>3, <1>5 DEF Histories, lost2, next

LEMMA HistorySwitch ==
    ASSUME TypeOK, NEW d \in Ends, History, tried'[d] = tried[d], out_key'[d] \in KeySet, ~Lost(d),
           out_key[d][1] < out_key'[d][1], pc'[d] \notin {"nkwait", "x_switch"}
    PROVE  Histories(d)
<1> DEFINE lost == Lost(d)
           lost2 == Lost(d)'
<1>1. tried[d] \in Seq(Packets) /\ out_key[d] \in KeySet
  BY ChannelTyped
<1>2. Ordered(tried[d], out_key[d]) /\ NewkeysLast(tried[d], out_key[d], pc[d], lost) /\ ~lost
  BY DEF History
<1> HIDE DEF lost, lost2
<1>3. NewkeysLast(tried[d], out_key[d], pc[d], FALSE)
  BY <1>2 DEF NewkeysLast
<1>4. Ordered(tried[d], out_key'[d]) /\ NewkeysLast(tried[d], out_key'[d], pc'[d], lost2)
  BY <1>1, <1>2, <1>3, OrderedSwitch, NewkeysSwitch
<1> QED
  BY <1>4 DEF Histories, lost2

LEMMA HistoryStep == StreamInv /\ History /\ InKeys /\ [Next]_vars => History'
<1> SUFFICES ASSUME StreamInv, History, InKeys, [Next]_vars, NEW d \in Ends
             PROVE  Histories(d)
  BY Zenon DEF History, Histories
<1> DEFINE Goal == Histories(d)
<1>0. /\ TypeOK /\ OneExchange /\ KeysGrow
      /\ Lost(d) => Lost(d)'
  BY LostStays DEF StreamInv
<1>1. CASE UNCHANGED vars
  BY <1>0, <1>1, HistoryKeep DEF vars, control, crypto
<1>2. ASSUME NEW e \in Ends, tried'[Peer(e)] = tried[Peer(e)], out_key'[Peer(e)] = out_key[Peer(e)],
             pc'[Peer(e)] = pc[Peer(e)], d # e
      PROVE  Goal
  BY <1>0, <1>2, PeerFacts, HistoryKeep
<1>3. ASSUME NEW k \in SendKinds, KexSend(k) PROVE Goal
  <2>1. PICK p \in Packets :
           /\ k[1] \in Ends /\ pc[k[1]] = k[2] /\ Put(k[1], p) /\ p.type = k[3]
           /\ p.key = out_key[k[1]]
           /\ pc'[k[1]] \in {k[4], "failed"} \/ Onward(k[1])
           /\ pc'[Peer(k[1])] = pc[Peer(k[1])]
           /\ UNCHANGED <<out_key, in_key, shared>>
    BY <1>0, <1>3, KexSendFacts
  <2>2. tried'[Peer(k[1])] = tried[Peer(k[1])]
    BY <1>0, <2>1, PutTried, PeerFacts
  <2>3. /\ k[2] \notin Stopped /\ (k[3] = "NEWKEYS" <=> k[4] \in {"nkwait", "x_switch"})
        /\ k[3] = "NEWKEYS" /\ k[1] = "client" => k[2] = "newkeys"
    BY DEF SendKinds, Stopped
  <2>4. /\ p.type = "NEWKEYS" => pc'[k[1]] \in Stopped \/ Lost(k[1])'
        /\ pc'[k[1]] \in {"nkwait", "x_switch"} => p.type = "NEWKEYS"
    <3>1. CASE Onward(k[1])
      BY <1>0, <2>1, <2>3, <3>1, OnwardLost DEF Onward
    <3>2. CASE pc'[k[1]] \in {k[4], "failed"}
      BY <2>1, <2>3, <3>2 DEF Stopped
    <3> QED
      BY <2>1, <3>1, <3>2
  <2>5. CASE d = k[1]
    BY <1>0, <2>1, <2>3, <2>4, <2>5, HistoryPut
  <2>6. CASE d # k[1]
    BY <1>2, <2>1, <2>2, <2>6
  <2> QED
    BY <2>5, <2>6
<1>4. ASSUME NEW e \in Ends, SendData(e) PROVE Goal
  <2>1. PICK p \in Packets :
           /\ pc[e] = "data" /\ Put(e, p) /\ p.type = "DATA" /\ p.key = out_key[e]
           /\ pc'[e] \in {"data", "failed"} /\ pc'[Peer(e)] = pc[Peer(e)]
           /\ UNCHANGED out_key
    BY <1>0, <1>4, SendDataFacts
  <2>2. tried'[Peer(e)] = tried[Peer(e)]
    BY <1>0, <2>1, PutTried, PeerFacts
  <2>3. CASE d = e
    BY <1>0, <2>1, <2>3, HistoryPut DEF Stopped
  <2>4. CASE d # e
    BY <1>2, <2>1, <2>2, <2>4
  <2> QED
    BY <2>3, <2>4
<1>5. ASSUME NEW e \in Ends, Accepts(e) PROVE Goal
  <2>1. UNCHANGED <<out_key, tried>>
    BY <1>0, <1>5, AcceptsForm
  <2>2. <<pc[e], pc'[e]>> \in AcceptPlaces /\ pc'[Peer(e)] = pc[Peer(e)]
    BY <1>0, <1>5, AcceptsPlaces
  <2>3. /\ pc[e] \in Stopped => pc'[e] \in Stopped
        /\ pc'[e] \in {"nkwait", "x_switch"} => pc'[e] = pc[e]
    BY <2>2 DEF AcceptPlaces, Stopped
  <2>4. CASE d = e
    BY <1>0, <2>1, <2>3, <2>4, HistoryKeep
  <2>5. CASE d # e
    BY <1>2, <2>1, <2>2, <2>5
  <2> QED
    BY <2>4, <2>5
<1>6. ASSUME NEW e \in Ends, Switches(e) PROVE Goal
  <2>1. /\ pc[e] \in {"nkwait", "x_nkwait"} /\ pc'[e] = "data" /\ pc'[Peer(e)] = pc[Peer(e)]
        /\ out_key'[Peer(e)] = out_key[Peer(e)] /\ UNCHANGED tried
        /\ \/ pc[e] = "nkwait" /\ out_key'[e] \in KeySet /\ out_key'[e][1] = shared[e]
           \/ pc[e] = "x_nkwait" /\ out_key'[e] = out_key[e]
    BY <1>0, <1>6, SwitchesFacts
  <2>2. CASE d = e /\ pc[e] = "nkwait"
    <3>1. out_key[e][1] < shared[e] /\ ~Lost(e)
      BY <1>0, <2>2 DEF KeysGrow, Ahead, Lost
    <3> QED
      BY <1>0, <2>1, <2>2, <3>1, HistorySwitch
  <2>3. CASE d = e /\ pc[e] = "x_nkwait"
    BY <1>0, <2>1, <2>3, HistoryKeep DEF Stopped
  <2>4. CASE d # e
    BY <1>2, <2>1, <2>4
  <2> QED
    BY <2>1, <2>2, <2>3, <2>4
<1>7. ASSUME NEW e \in Ends, Moves(e) \/ Reject(e) PROVE Goal
  <2>1. /\ pc'[e] \in {"closed", "failed"} \/ (pc[e] = "data" /\ pc'[e] = "kexinit") \/ Onward(e)
        /\ pc[e] \notin {"closed", "failed", "x_switch"}
        /\ pc'[Peer(e)] = pc[Peer(e)] /\ UNCHANGED <<out_key, in_key, shared, tried>>
    BY <1>0, <1>7, MovesFacts, RejectFacts
  <2>4. /\ pc[e] \in Stopped => pc'[e] \in Stopped \/ Lost(e)'
        /\ pc'[e] \notin {"nkwait", "x_switch"}
    BY <1>0, <2>1, OnwardLost DEF Stopped, Onward
  <2>2. CASE d = e
    BY <1>0, <2>1, <2>2, <2>4, HistoryKeep
  <2>3. CASE d # e
    BY <1>2, <2>1, <2>3
  <2> QED
    BY <2>2, <2>3
<1>8. ASSUME ForeignSwitchesOut PROVE Goal
  <2>1. /\ "server" \in Ends /\ pc["server"] = "x_switch" /\ pc'["server"] = "x_nkwait"
        /\ pc'["client"] = pc["client"]
        /\ out_key'["server"] \in KeySet /\ out_key'["server"][1] = shared["server"]
        /\ out_key'["client"] = out_key["client"] /\ UNCHANGED tried
    BY <1>0, <1>8, SwitchesOutFacts
  <2>2. CASE d = "server"
    <3>1. out_key["server"][1] < shared["server"] /\ ~Lost("server")
      BY <1>0, <2>1 DEF KeysGrow, Ahead, Lost
    <3> QED
      BY <1>0, <2>1, <2>2, <3>1, HistorySwitch
  <2>3. CASE d = "client"
    BY <1>0, <2>1, <2>3, HistoryKeep
  <2> QED
    BY <2>2, <2>3 DEF Ends
<1> QED
  BY <1>0, <1>1, <1>3, <1>4, <1>5, <1>6, <1>7, <1>8, StepForms, KexSendForm

\* Where a lost client can be.
Astray == {"data", "kexinit", "kexwait"}

\* An end goes on with the keys and the secret it has.
LEMMA KeysMove ==
    ASSUME NEW e, NEW where, NEW next, NEW sh, NEW ik, NEW ok, KeysAt(e, where, sh, ik, ok),
           \/ next \in {"failed", "closed"}
           \/ /\ where \notin {"failed", "closed"} /\ (next \in InAhead <=> where \in InAhead)
              /\ next \in Keyed => where \in Keyed
              /\ e # "client" \/ where \notin Astray \/ next \in Astray \/ sh = ik[1]
    PROVE  KeysAt(e, next, sh, ik, ok)
<1>1. "data" \notin InAhead /\ "kexinit" \notin InAhead /\ "kexwait" \notin InAhead
  BY DEF InAhead, Ahead
<1>2. next \notin {"failed", "closed"} =>
         \/ sh = IF next \in InAhead THEN ik[1] + 1 ELSE ik[1]
         \/ e = "client" /\ next \in Astray /\ sh = ik[1] + 1
  BY <1>1 DEF KeysAt, Astray
<1> QED
  BY <1>2 DEF KeysAt, Astray, Keyed

\* The client leaves a rekey.
LEMMA KeysOnward ==
    ASSUME TypeOK, InKeys, NEW d \in Ends, Onward(d), pc[d] \notin {"failed", "closed"}
    PROVE  KeysAt(d, pc'[d], shared[d], in_key[d], out_key[d])
<1>1. d = "client" /\ pc'[d] = "data" /\ in_key[d] # NOKEY /\ out_key[d] # NOKEY
  BY DEF Onward, InKeys
<1>2. KeysAt(d, pc[d], shared[d], in_key[d], out_key[d])
  BY DEF InKeys
<1>3. "data" \notin InAhead
  BY DEF InAhead, Ahead
<1> QED
  BY <1>1, <1>2, <1>3 DEF KeysAt

\* An end takes the secret of the next exchange.
LEMMA KeysAgree ==
    ASSUME NEW e, NEW where, NEW next, NEW sh \in Nat, NEW ik \in KeySet, NEW ok,
           KeysAt(e, where, sh, ik, ok), where \notin InAhead \cup {"failed", "closed"} \cup Astray,
           next \in InAhead, next \in Keyed => where \in Keyed
    PROVE  KeysAt(e, next, sh + 1, ik, ok)
<1>1. ik[1] \in Nat /\ sh = ik[1]
  BY DEF KeysAt, KeySet, Astray
<1>2. ik[1] <= sh + 1
  BY <1>1
<1> QED
  BY <1>1, <1>2 DEF KeysAt

LEMMA KeyNotNone ==
    ASSUME NEW key \in KeySet, NEW ik \in KeySet, key[1] = ik[1] + 1
    PROVE  key # NOKEY
<1>1. ik[1] \in Nat
  BY DEF KeySet
<1> QED
  BY <1>1, NoKeyFirst

\* The KEXINIT that a client takes is not for a lost one.
LEMMA KexinitNotLost ==
    ASSUME StreamInv, ServerKey, Accepts("client"), First("client").type = "KEXINIT"
    PROVE  shared["client"] = in_key["client"][1]
<1>1. TypeOK /\ OneExchange /\ "client" \in Ends /\ Peer("client") = "server"
  BY DEF StreamInv, Ends, Peer
<1>2. Take("client") /\ First("client").key = in_key["client"]
  BY <1>1, AcceptsForm DEF Authentic
<1>3. 1 \in DOMAIN wire["server"] /\ First("client") = wire["server"][1]
  BY <1>1, <1>2, TakeKept
<1>4. 1 \in Passed("server") /\ 1 \in InFlight("server", {"KEXINIT"})
  BY <1>3 DEF Passed, InFlight, Turns
<1>5. Even /\ wire["server"][1].key[1] = shared["server"]
  BY <1>1, <1>3, <1>4 DEF OneExchange, SecretsAgree, ServerKey
<1> QED
  BY <1>2, <1>3, <1>5 DEF Even

LEMMA KeysAtStep ==
    ASSUME StreamInv, InKeys, ServerKey, [Next]_vars, NEW d \in Ends
    PROVE  KeysAt(d, pc'[d], shared'[d], in_key'[d], out_key'[d])
<1> DEFINE Goal == KeysAt(d, pc'[d], shared'[d], in_key'[d], out_key'[d])
<1>0. /\ TypeOK /\ OneExchange /\ KeysAt(d, pc[d], shared[d], in_key[d], out_key[d])
      /\ shared[d] \in Nat /\ in_key[d] \in KeySet /\ out_key[d] \in KeySet
  BY DEF StreamInv, InKeys, TypeOK
<1>1. CASE UNCHANGED vars
  BY <1>0, <1>1 DEF vars, control, crypto
<1>2. ASSUME NEW e \in Ends, shared'[Peer(e)] = shared[Peer(e)], in_key'[Peer(e)] = in_key[Peer(e)],
             out_key'[Peer(e)] = out_key[Peer(e)], pc'[Peer(e)] = pc[Peer(e)], d # e
      PROVE  Goal
  BY <1>0, <1>2, PeerFacts
<1>3. ASSUME NEW k \in SendKinds, KexSend(k) PROVE Goal
  <2>1. /\ k[1] \in Ends /\ pc[k[1]] = k[2]
        /\ pc'[k[1]] \in {k[4], "failed"} \/ Onward(k[1])
        /\ pc'[Peer(k[1])] = pc[Peer(k[1])]
        /\ UNCHANGED <<out_key, in_key, shared>>
    BY <1>0, <1>3, KexSendFacts
  <2>2. /\ k[2] \notin {"failed", "closed"} /\ (k[4] \in InAhead <=> k[2] \in InAhead)
        /\ k[4] \in Keyed => k[2] \in Keyed
        /\ k[1] # "client" \/ k[2] \notin Astray \/ k[4] \in Astray
    BY DEF SendKinds, InAhead, Ahead, Keyed, Astray
  <2>3. CASE d = k[1]
    <3>1. CASE Onward(d)
      BY <1>0, <2>1, <2>2, <2>3, <3>1, KeysOnward
    <3>2. CASE pc'[d] \in {k[4], "failed"}
      BY <1>0, <2>1, <2>2, <2>3, <3>2, KeysMove
    <3> QED
      BY <2>1, <2>3, <3>1, <3>2
  <2>4. CASE d # k[1]
    BY <1>2, <2>1, <2>4
  <2> QED
    BY <2>3, <2>4
<1>4. ASSUME NEW e \in Ends, SendData(e) PROVE Goal
  <2>1. /\ pc[e] = "data" /\ pc'[e] \in {"data", "failed"} /\ pc'[Peer(e)] = pc[Peer(e)]
        /\ UNCHANGED <<out_key, in_key, shared>>
    BY <1>0, <1>4, SendDataFacts
  <2>2. CASE d = e
    BY <1>0, <2>1, <2>2, KeysMove
  <2>3. CASE d # e
    BY <1>2, <2>1, <2>3
  <2> QED
    BY <2>2, <2>3
<1>5. ASSUME NEW e \in Ends, Accepts(e) PROVE Goal
  <2>1. UNCHANGED <<out_key, in_key>>
    BY <1>0, <1>5, AcceptsForm
  <2>2. /\ <<pc[e], pc'[e]>> \in AcceptPlaces /\ pc'[Peer(e)] = pc[Peer(e)]
        /\ shared'[Peer(e)] = shared[Peer(e)]
        /\ shared'[e] = IF pc'[e] # pc[e] /\ pc'[e] \in {"newkeys", "reply", "x_reply"}
                        THEN shared[e] + 1 ELSE shared[e]
        /\ pc[e] = "kexwait" /\ pc'[e] = "data" => Onward(e)
        /\ pc[e] = "kexwait" /\ pc'[e] = "ecdh" => First(e).type = "KEXINIT"
        /\ pc[e] = "data" /\ pc'[e] = "kexanswer" => First(e).type = "KEXINIT"
        /\ e = "client" => pc[e] \in {"kexwait", "replywait", "nkwait", "data"}
    BY <1>0, <1>5, AcceptsPlaces
  <2>3. CASE d = e /\ pc'[e] # pc[e] /\ pc'[e] \in {"newkeys", "reply", "x_reply"}
    <3>1. /\ pc[e] \notin InAhead \cup {"failed", "closed"} \cup Astray /\ pc'[e] \in InAhead
          /\ pc'[e] \in Keyed => pc[e] \in Keyed
      BY <2>2, <2>3 DEF AcceptPlaces, InAhead, Ahead, Keyed, Astray
    <3> QED
      BY <1>0, <2>1, <2>2, <2>3, <3>1, KeysAgree
  <2>4. CASE d = e /\ ~(pc'[e] # pc[e] /\ pc'[e] \in {"newkeys", "reply", "x_reply"})
    <3>1. CASE pc[e] = "kexwait" /\ pc'[e] = "data"
      BY <1>0, <2>1, <2>2, <2>4, <3>1, KeysOnward
    <3>2. CASE ~(pc[e] = "kexwait" /\ pc'[e] = "data")
      <4>1. \/ pc'[e] = "failed"
            \/ /\ pc[e] \notin {"failed", "closed"} /\ (pc'[e] \in InAhead <=> pc[e] \in InAhead)
               /\ pc'[e] \in Keyed => pc[e] \in Keyed
        BY <2>2, <2>4, <3>2 DEF AcceptPlaces, InAhead, Ahead, Keyed
      <4>2. \/ pc'[e] = "failed" \/ e # "client" \/ pc[e] \notin Astray \/ pc'[e] \in Astray
            \/ shared[e] = in_key[e][1]
        <5>1. SUFFICES ASSUME e = "client", pc[e] \in Astray, pc'[e] \notin Astray, pc'[e] # "failed"
                       PROVE  First(e).type = "KEXINIT"
          BY <1>5, <5>1, KexinitNotLost
        <5>2. <<pc[e], pc'[e]>> \in {<<"kexwait", "ecdh">>, <<"data", "kexanswer">>, <<"data", "x_kexreply">>}
          BY <2>2, <2>4, <5>1 DEF AcceptPlaces, Astray
        <5>3. pc'[e] # "x_kexreply"
          BY <1>0, <1>5, <5>1, AcceptsGoto DEF ClientPCs
        <5> QED
          BY <2>2, <5>2, <5>3
      <4> QED
        BY <1>0, <2>1, <2>2, <2>4, <4>1, <4>2, KeysMove
    <3> QED
      BY <3>1, <3>2
  <2>5. CASE d # e
    BY <1>2, <2>1, <2>2, <2>5
  <2> QED
    BY <2>3, <2>4, <2>5
<1>6. ASSUME NEW e \in Ends, Switches(e) PROVE Goal
  <2>1. /\ pc[e] \in {"nkwait", "x_nkwait"} /\ pc'[e] = "data" /\ pc'[Peer(e)] = pc[Peer(e)]
        /\ in_key'[e] \in KeySet /\ in_key'[e][1] = shared[e]
        /\ in_key'[Peer(e)] = in_key[Peer(e)] /\ out_key'[Peer(e)] = out_key[Peer(e)]
        /\ \/ pc[e] = "nkwait" /\ out_key'[e] \in KeySet /\ out_key'[e][1] = shared[e]
           \/ pc[e] = "x_nkwait" /\ out_key'[e] = out_key[e]
        /\ UNCHANGED shared
    BY <1>0, <1>6, SwitchesFacts
  <2>2. CASE d = e
    <3>1. shared[e] = in_key[e][1] + 1
      BY <1>0, <2>1, <2>2 DEF KeysAt, InAhead, Ahead
    <3>2. in_key'[e] # NOKEY
      BY <1>0, <2>1, <2>2, <3>1, KeyNotNone
    <3>3. out_key'[e] # NOKEY
      <4>1. CASE pc[e] = "nkwait"
        BY <1>0, <2>1, <2>2, <3>1, <4>1, KeyNotNone
      <4>2. CASE pc[e] = "x_nkwait"
        BY <1>0, <2>1, <2>2, <4>2 DEF KeysAt, Keyed
      <4> QED
        BY <2>1, <4>1, <4>2
    <3>4. "data" \notin InAhead /\ shared[e] <= shared[e]
      BY <1>0, <2>2 DEF InAhead, Ahead
    <3> QED
      BY <1>0, <2>1, <2>2, <3>2, <3>3, <3>4 DEF KeysAt
  <2>3. CASE d # e
    BY <1>2, <2>1, <2>3
  <2> QED
    BY <2>2, <2>3
<1>7. ASSUME NEW e \in Ends, Moves(e) \/ Reject(e) PROVE Goal
  <2>1. /\ pc'[e] \in {"closed", "failed"} \/ (pc[e] = "data" /\ pc'[e] = "kexinit") \/ Onward(e)
        /\ pc[e] \notin {"closed", "failed", "x_switch"}
        /\ pc'[Peer(e)] = pc[Peer(e)] /\ UNCHANGED <<out_key, in_key, shared>>
    BY <1>0, <1>7, MovesFacts, RejectFacts
  <2>2. CASE d = e
    <3>1. CASE Onward(d)
      BY <1>0, <2>1, <2>2, <3>1, KeysOnward
    <3>2. CASE ~Onward(d)
      <4>1. \/ pc'[e] \in {"failed", "closed"}
            \/ /\ pc[e] \notin {"failed", "closed"} /\ (pc'[e] \in InAhead <=> pc[e] \in InAhead)
               /\ pc'[e] \in Keyed => pc[e] \in Keyed
               /\ pc'[e] \in Astray
        BY <2>1, <2>2, <3>2 DEF InAhead, Ahead, Keyed, Astray
      <4> QED
        BY <1>0, <2>1, <2>2, <4>1, KeysMove
    <3> QED
      BY <3>1, <3>2
  <2>3. CASE d # e
    BY <1>2, <2>1, <2>3
  <2> QED
    BY <2>2, <2>3
<1>8. ASSUME ForeignSwitchesOut PROVE Goal
  <2>1. /\ "server" \in Ends /\ pc["server"] = "x_switch" /\ pc'["server"] = "x_nkwait"
        /\ pc'["client"] = pc["client"]
        /\ out_key'["server"] \in KeySet /\ out_key'["server"][1] = shared["server"]
        /\ out_key'["client"] = out_key["client"] /\ UNCHANGED <<in_key, shared>>
    BY <1>0, <1>8, SwitchesOutFacts
  <2>2. CASE d = "server"
    <3>1. shared[d] = in_key[d][1] + 1 /\ in_key[d] # NOKEY
      BY <1>0, <2>1, <2>2 DEF KeysAt, InAhead, Ahead, Keyed
    <3>2. out_key'[d] # NOKEY
      BY <1>0, <2>1, <2>2, <3>1, KeyNotNone
    <3>3. "x_nkwait" \in InAhead
      BY DEF InAhead
    <3> QED
      BY <1>0, <2>1, <2>2, <3>1, <3>2, <3>3 DEF KeysAt
  <2>3. CASE d = "client"
    BY <1>0, <2>1, <2>3
  <2> QED
    BY <2>2, <2>3 DEF Ends
<1> QED
  BY <1>0, <1>1, <1>3, <1>4, <1>5, <1>6, <1>7, <1>8, StepForms, KexSendForm

LEMMA GotoRekeying ==
    ASSUME NEW e, NEW where, Goto(e, where), where # "kexinit", rekeying'
    PROVE  rekeying
BY Zenon DEF Goto

\* A rekey begins in the session.
LEMMA RekeyBegins ==
    ASSUME TypeOK, [Next]_vars, rekeying', ~rekeying
    PROVE  pc["client"] = "data" /\ rekeys' = rekeys + 1
<1>1. ASSUME UNCHANGED control PROVE FALSE
  BY <1>1, Zenon DEF control
<1>2. ASSUME NEW e \in Ends, NEW where, Goto(e, where), where # "kexinit" PROVE FALSE
  BY <1>2, GotoRekeying, Zenon
<1>3. ASSUME NEW e \in Ends, NEW where, GivesUp(e, where), where # "kexinit" PROVE FALSE
  <2>1. "data" # "kexinit"
    OBVIOUS
  <2> QED
    BY <1>2, <1>3, <2>1, Zenon DEF GivesUp, GoesOn
<1>4. CASE UNCHANGED vars
  BY <1>1, <1>4, Zenon DEF vars
<1>5. ASSUME NEW k \in SendKinds, KexSend(k) PROVE FALSE
  <2>1. k[1] \in Ends /\ k[4] # "kexinit" /\ "failed" # "kexinit"
    BY DEF SendKinds, Ends
  <2>2. Goto(k[1], k[4]) \/ GivesUp(k[1], "failed")
    BY <1>5, KexSendTyped
  <2> QED
    BY <1>2, <1>3, <2>1, <2>2, Zenon
<1>6. ASSUME NEW e \in Ends, SendData(e) PROVE FALSE
  <2>1. UNCHANGED control \/ Goto(e, "failed")
    BY <1>6, SendDataTyped
  <2>2. "failed" # "kexinit"
    OBVIOUS
  <2> QED
    BY <1>1, <1>2, <2>1, <2>2, Zenon
<1>7. ASSUME NEW e \in Ends, Accepts(e) PROVE FALSE
  <2>1. e = "client" \/ e = "server"
    BY DEF Ends
  <2>2. \/ UNCHANGED control
        \/ \E where : where # "kexinit" /\ (Goto(e, where) \/ GivesUp(e, where))
    <3>1. CASE e = "client"
      <4>1. /\ "ecdh" # "kexinit" /\ "failed" # "kexinit" /\ "newkeys" # "kexinit"
            /\ (IF First("client").type = "KEXINIT" THEN "kexanswer" ELSE "data") # "kexinit"
        OBVIOUS
      <4> QED
        BY <1>7, <3>1, <4>1, Zenon DEF Accepts, ClientKexinit, ClientReply, ClientData, ClientNewkeys
    <3>2. CASE e = "server"
      <4>1. /\ "failed" # "kexinit" /\ "reply" # "kexinit" /\ "x_reply" # "kexinit"
            /\ (IF First("server").type = "KEXINIT" THEN "kexreply" ELSE "failed") # "kexinit"
            /\ (IF foreign /\ First("server").type = "KEXINIT" THEN "x_kexreply" ELSE "data") # "kexinit"
            /\ (IF First("server").type = "KEXINIT" THEN "x_ecdh" ELSE "rekeyed") # "kexinit"
            /\ "server" # "client"
        OBVIOUS
      <4> QED
        BY <1>7, <3>2, <4>1, Zenon DEF Accepts, ServerKexinit, ServerEcdh, ServerData, ForeignKexinit,
           ForeignEcdh, ForeignOther, ServerNewkeys
    <3> QED
      BY <2>1, <3>1, <3>2
  <2> QED
    BY <1>1, <1>2, <1>3, <2>2, Zenon
<1>8. ASSUME NEW e \in Ends, Switches(e) PROVE FALSE
  <2>1. Goto(e, "data") /\ "data" # "kexinit"
    BY <1>8, SwitchesForm
  <2> QED
    BY <1>2, <2>1, Zenon
<1>9. ASSUME NEW e \in Ends, Reject(e) PROVE FALSE
  <2>1. GivesUp(e, "failed") /\ "failed" # "kexinit"
    BY <1>9 DEF Reject
  <2> QED
    BY <1>3, <2>1, Zenon
<1>10. ASSUME NEW e \in Ends, Moves(e) PROVE pc["client"] = "data" /\ rekeys' = rekeys + 1
  <2>1. PICK where \in {"closed", "failed"} \cup (IF e = "client" THEN {"kexinit", "data"} ELSE {}) :
             Goto(e, where) /\ (where = "kexinit" => rekeys' = rekeys + 1 /\ pc[e] = "data")
    BY <1>10, MovesForm
  <2>2. where = "kexinit"
    BY <1>2, <2>1, Zenon
  <2> QED
    BY <2>1, <2>2
<1>11. ASSUME ForeignSwitchesOut PROVE FALSE
  <2>1. Goto("server", "x_nkwait") /\ "x_nkwait" # "kexinit" /\ "server" \in Ends
    BY <1>11 DEF ForeignSwitchesOut, Ends
  <2> QED
    BY <1>2, <2>1, Zenon
<1> QED
  BY <1>4, <1>5, <1>6, <1>7, <1>8, <1>9, <1>10, <1>11, StepForms, KexSendForm

LEMMA InKeysStep == StreamInv /\ InKeys /\ ServerKey /\ [Next]_vars => InKeys'
<1> SUFFICES ASSUME StreamInv, InKeys, ServerKey, [Next]_vars PROVE InKeys'
  OBVIOUS
<1>0. /\ TypeOK /\ "client" \in Ends /\ "server" \in Ends
      /\ Peer("server") = "client" /\ \A e \in Ends : e \in {"client", "server"}
  BY DEF StreamInv, Ends, Peer
<1>1. \A d \in Ends : KeysAt(d, pc'[d], shared'[d], in_key'[d], out_key'[d])
  BY KeysAtStep
<1>2. ASSUME rekeying' PROVE in_key'["client"] # NOKEY /\ out_key'["client"] # NOKEY
  <2>1. in_key["client"] # NOKEY /\ out_key["client"] # NOKEY
    <3>1. CASE rekeying
      BY <3>1 DEF InKeys
    <3>2. CASE ~rekeying
      <4>1. pc["client"] = "data"
        BY <1>0, <1>2, <3>2, RekeyBegins
      <4> QED
        BY <1>0, <4>1 DEF InKeys, KeysAt, Keyed
    <3> QED
      BY <3>1, <3>2
  <2>2. \/ in_key'["client"] = in_key["client"] /\ out_key'["client"] = out_key["client"]
        \/ pc'["client"] = "data"
    <3>1. CASE UNCHANGED vars
      BY <3>1 DEF vars, crypto
    <3>2. ASSUME NEW k \in SendKinds, KexSend(k)
          PROVE  in_key'["client"] = in_key["client"] /\ out_key'["client"] = out_key["client"]
      BY <1>0, <3>2, KexSendFacts
    <3>3. ASSUME NEW e \in Ends, SendData(e)
          PROVE  in_key'["client"] = in_key["client"] /\ out_key'["client"] = out_key["client"]
      BY <1>0, <3>3, SendDataFacts
    <3>4. ASSUME NEW e \in Ends, Accepts(e)
          PROVE  in_key'["client"] = in_key["client"] /\ out_key'["client"] = out_key["client"]
      BY <1>0, <3>4, AcceptsForm
    <3>5. ASSUME NEW e \in Ends, Moves(e) \/ Reject(e)
          PROVE  in_key'["client"] = in_key["client"] /\ out_key'["client"] = out_key["client"]
      BY <1>0, <3>5, MovesFacts, RejectFacts
    <3>6. ASSUME NEW e \in Ends, Switches(e)
          PROVE  \/ in_key'["client"] = in_key["client"] /\ out_key'["client"] = out_key["client"]
                 \/ pc'["client"] = "data"
      <4>1. /\ pc'[e] = "data" /\ in_key'[Peer(e)] = in_key[Peer(e)]
            /\ out_key'[Peer(e)] = out_key[Peer(e)]
        BY <1>0, <3>6, SwitchesFacts
      <4> QED
        BY <1>0, <4>1
    <3>7. ASSUME ForeignSwitchesOut
          PROVE  in_key'["client"] = in_key["client"] /\ out_key'["client"] = out_key["client"]
      BY <1>0, <3>7, SwitchesOutFacts
    <3> QED
      BY <1>0, <3>1, <3>2, <3>3, <3>4, <3>5, <3>6, <3>7, StepForms, KexSendForm
  <2> QED
    BY <1>0, <1>1, <2>1, <2>2 DEF KeysAt, Keyed
<1> QED
  BY <1>1, <1>2, Zenon DEF InKeys

\* The KEXINITs of the server over a step.
LEMMA ServerKeyKeep ==
    ASSUME ServerKey, Kept("server", {"KEXINIT"}), shared'["server"] = shared["server"],
           \/ pc'["server"] \notin Settled
           \/ out_key'["server"][1] = shared["server"]
           \/ pc["server"] \in Settled /\ out_key'["server"] = out_key["server"]
    PROVE  ServerKey'
<1>1. \A i \in InFlight("server", {"KEXINIT"})' : wire'["server"][i].key[1] = shared["server"]
  BY DEF ServerKey, Kept, Alike
<1> QED
  BY <1>1, SMTT(30) DEF ServerKey

LEMMA ServerKeyStep == StreamInv /\ ServerKey /\ [Next]_vars => ServerKey'
<1> SUFFICES ASSUME StreamInv, ServerKey, [Next]_vars PROVE ServerKey'
  OBVIOUS
<1>0. /\ TypeOK /\ OneExchange /\ "client" \in Ends /\ "server" \in Ends /\ "client" # "server"
      /\ Peer("server") = "client" /\ Peer("client") = "server"
      /\ \A e \in Ends : e \in {"client", "server"}
  BY DEF StreamInv, Ends, Peer
<1> DEFINE types == {"KEXINIT"}
<1>1. CASE UNCHANGED vars
  <2>1. UNCHANGED <<pc, out_key, shared, wire>>
    BY <1>1 DEF vars, control, crypto
  <2> QED
    BY <2>1 DEF ServerKey, InFlight
<1>2. ASSUME NEW k \in SendKinds, KexSend(k) PROVE ServerKey'
  <2>1. PICK p \in Packets :
           /\ k[1] \in Ends /\ pc[k[1]] = k[2] /\ Put(k[1], p) /\ p.type = k[3]
           /\ p.key = out_key[k[1]]
           /\ pc'[k[1]] \in {k[4], "failed"} \/ Onward(k[1])
           /\ pc'[Peer(k[1])] = pc[Peer(k[1])] /\ UNCHANGED <<out_key, shared>>
    BY <1>0, <1>2, KexSendFacts
  <2>2. CASE k[1] = "client"
    <3>1. Kept("server", types) /\ pc'["server"] = pc["server"]
      BY <1>0, <2>1, <2>2, PutKept
    <3> QED
      BY <2>1, <3>1, ServerKeyKeep
  <2>3. CASE k[1] = "server"
    <3>1. /\ pc'["server"] \notin Settled
          /\ k[3] = "KEXINIT" => pc["server"] \in Settled
      BY <2>1, <2>3 DEF SendKinds, Settled, Onward
    <3>2. \A i \in InFlight("server", types)' :
             \/ i \in InFlight("server", types) /\ Alike(wire'["server"][i], wire["server"][i])
             \/ p.type \in types /\ Alike(wire'["server"][i], p)
      BY <1>0, <2>1, <2>3, PutKept
    <3>3. p.type \in types => p.key[1] = shared["server"]
      BY <2>1, <2>3, <3>1 DEF ServerKey
    <3>4. \A i \in InFlight("server", types)' : wire'["server"][i].key[1] = shared["server"]
      BY <3>2, <3>3 DEF ServerKey, Alike
    <3> QED
      BY <2>1, <3>1, <3>4 DEF ServerKey
  <2> QED
    BY <1>0, <2>1, <2>2, <2>3
<1>3. ASSUME NEW e \in Ends, SendData(e) PROVE ServerKey'
  <2>1. PICK p \in Packets :
           /\ pc[e] = "data" /\ Put(e, p) /\ p.type = "DATA"
           /\ pc'[e] \in {"data", "failed"} /\ pc'[Peer(e)] = pc[Peer(e)]
           /\ UNCHANGED <<out_key, shared>>
    BY <1>0, <1>3, SendDataFacts
  <2>2. Kept("server", types)
    BY <1>0, <2>1, PutKept
  <2>3. pc'["server"] \notin Settled \/ pc["server"] \in Settled
    BY <1>0, <2>1 DEF Settled
  <2> QED
    BY <2>1, <2>2, <2>3, ServerKeyKeep
<1>4. ASSUME NEW e \in Ends, Accepts(e) PROVE ServerKey'
  <2>1. /\ <<pc[e], pc'[e]>> \in AcceptPlaces /\ pc'[Peer(e)] = pc[Peer(e)]
        /\ shared'[Peer(e)] = shared[Peer(e)]
        /\ shared'[e] = IF pc'[e] # pc[e] /\ pc'[e] \in {"newkeys", "reply", "x_reply"}
                        THEN shared[e] + 1 ELSE shared[e]
        /\ e = "server" => pc[e] \notin {"kexwait", "replywait"}
    BY <1>0, <1>4, AcceptsPlaces
  <2>2. Take(e) /\ UNCHANGED out_key
    BY <1>0, <1>4, AcceptsForm
  <2>3. Kept("server", types)
    BY <1>0, <2>2, TakeKept
  <2>4. CASE e = "client"
    BY <1>0, <2>1, <2>2, <2>3, <2>4, ServerKeyKeep
  <2>5. CASE e = "server" /\ pc'[e] # pc[e] /\ pc'[e] \in {"newkeys", "reply", "x_reply"}
    <3>1. First(e).type = "ECDH_INIT"
      BY <1>0, <1>4, <2>1, <2>5, AcceptTurns DEF AcceptPlaces, TypeOK
    <3>2. 1 \in Passed("client")
      <4>1. 1 \in DOMAIN wire["client"] /\ First(e) = wire["client"][1]
        BY <1>0, <2>2, <2>5, TakeKept
      <4> QED
        BY <3>1, <4>1 DEF Passed, InFlight, Turns
    <3>3. \A i \in InFlight("server", types) : FALSE
      <4>1. \A i \in Passed("server") : FALSE
        BY <1>0, <3>2 DEF OneExchange, OneTurn
      <4> QED
        BY <4>1 DEF Passed, InFlight, Turns
    <3>4. \A i \in InFlight("server", types)' : FALSE
      BY <2>3, <3>3 DEF Kept
    <3>5. pc'["server"] \notin Settled
      BY <2>5 DEF Settled
    <3> QED
      BY <3>4, <3>5 DEF ServerKey
  <2>6. CASE e = "server" /\ ~(pc'[e] # pc[e] /\ pc'[e] \in {"newkeys", "reply", "x_reply"})
    <3>1. pc'["server"] \notin Settled \/ pc["server"] \in Settled
      BY <2>1, <2>6 DEF AcceptPlaces, Settled
    <3> QED
      BY <2>1, <2>2, <2>3, <2>6, <3>1, ServerKeyKeep
  <2> QED
    BY <1>0, <2>4, <2>5, <2>6
<1>5. ASSUME NEW e \in Ends, Switches(e) PROVE ServerKey'
  <2>1. /\ pc[e] \in {"nkwait", "x_nkwait"} /\ pc'[e] = "data" /\ pc'[Peer(e)] = pc[Peer(e)]
        /\ out_key'[Peer(e)] = out_key[Peer(e)] /\ Take(e)
        /\ \/ pc[e] = "nkwait" /\ out_key'[e][1] = shared[e]
           \/ pc[e] = "x_nkwait" /\ out_key'[e] = out_key[e]
        /\ UNCHANGED shared
    BY <1>0, <1>5, SwitchesFacts
  <2>2. Kept("server", types)
    BY <1>0, <2>1, TakeKept
  <2>3. \/ out_key'["server"][1] = shared["server"]
        \/ pc["server"] \in Settled /\ out_key'["server"] = out_key["server"]
        \/ pc'["server"] \notin Settled
    BY <1>0, <2>1 DEF Settled
  <2> QED
    BY <2>1, <2>2, <2>3, ServerKeyKeep
<1>6. ASSUME NEW e \in Ends, Moves(e) \/ Reject(e) PROVE ServerKey'
  <2>1. /\ pc'[e] \in {"closed", "failed"} \/ e = "client"
        /\ pc'[Peer(e)] = pc[Peer(e)] /\ UNCHANGED <<out_key, shared>>
        /\ UNCHANGED wire \/ Damaged(e)
    BY <1>0, <1>6, MovesFacts, RejectFacts DEF Onward
  <2>2. Kept("server", types)
    BY <1>0, <2>1, StillKept
  <2>3. pc'["server"] \notin Settled \/ pc["server"] \in Settled
    BY <1>0, <2>1 DEF Settled
  <2> QED
    BY <2>1, <2>2, <2>3, ServerKeyKeep
<1>7. ASSUME ForeignSwitchesOut PROVE ServerKey'
  <2>1. /\ pc'["server"] = "x_nkwait" /\ out_key'["server"][1] = shared["server"]
        /\ UNCHANGED <<shared, wire>>
    BY <1>0, <1>7, SwitchesOutFacts
  <2>2. Kept("server", types)
    BY <1>0, <2>1, StillKept
  <2> QED
    BY <2>1, <2>2, ServerKeyKeep
<1> QED
  BY <1>0, <1>1, <1>2, <1>3, <1>4, <1>5, <1>6, <1>7, StepForms, KexSendForm

----------------------------------------------------------------------------
(* The ECDH_REPLY in front of the NEWKEYS.                                 *)

At(W, type) == {i \in DOMAIN W : W[i].type = type}

ReplyBefore(W) == \A k \in At(W, "NEWKEYS") : \E j \in At(W, "ECDH_REPLY") : j < k

LEMMA AtPut ==
    ASSUME NEW W \in Seq(Packets), NEW r \in Packets, NEW V \in {W, Append(W, r)}
    PROVE  /\ ReplyBefore(W) /\ (r.type # "NEWKEYS" \/ At(W, "ECDH_REPLY") # {}) => ReplyBefore(V)
           /\ At(W, "ECDH_REPLY") # {} => At(V, "ECDH_REPLY") # {}
           /\ r.type = "ECDH_REPLY" /\ V = Append(W, r) => At(V, "ECDH_REPLY") # {}
           /\ r.type # "NEWKEYS" /\ At(W, "NEWKEYS") = {} => At(V, "NEWKEYS") = {}
<1>1. Len(W) \in Nat /\ \A i \in DOMAIN W : i \in Nat /\ i <= Len(W)
  BY SeqFacts
<1>2. \A i \in DOMAIN W : i \in DOMAIN V /\ V[i] = W[i]
  BY AppendOf
<1>3. \A i \in DOMAIN V : \/ i \in DOMAIN W /\ V[i] = W[i]
                          \/ i = Len(W) + 1 /\ V[i] = r
  BY AppendOf
<1>4. V = Append(W, r) => Len(W) + 1 \in DOMAIN V /\ V[Len(W) + 1] = r
  BY AppendOf
<1>5. At(W, "ECDH_REPLY") # {} => At(V, "ECDH_REPLY") # {}
  BY <1>2 DEF At
<1>6. r.type = "ECDH_REPLY" /\ V = Append(W, r) => At(V, "ECDH_REPLY") # {}
  BY <1>4 DEF At
<1>7. r.type # "NEWKEYS" /\ At(W, "NEWKEYS") = {} => At(V, "NEWKEYS") = {}
  BY <1>3 DEF At
<1>8. ASSUME ReplyBefore(W), r.type # "NEWKEYS" \/ At(W, "ECDH_REPLY") # {}, NEW k \in At(V, "NEWKEYS")
      PROVE  \E j \in At(V, "ECDH_REPLY") : j < k
  <2>1. k \in DOMAIN V /\ V[k].type = "NEWKEYS"
    BY <1>8 DEF At
  <2>2. CASE k \in DOMAIN W /\ V[k] = W[k]
    <3>1. k \in At(W, "NEWKEYS")
      BY <2>1, <2>2 DEF At
    <3>2. PICK j \in At(W, "ECDH_REPLY") : j < k
      BY <1>8, <3>1 DEF ReplyBefore
    <3> QED
      BY <1>2, <3>2 DEF At
  <2>3. CASE k = Len(W) + 1 /\ V[k] = r
    <3>1. PICK j : j \in At(W, "ECDH_REPLY")
      BY <1>8, <2>1, <2>3
    <3>2. j \in DOMAIN W /\ W[j].type = "ECDH_REPLY"
      BY <3>1 DEF At
    <3>3. j \in At(V, "ECDH_REPLY") /\ j < k
      BY <1>1, <1>2, <2>3, <3>2 DEF At
    <3> QED
      BY <3>3
  <2> QED
    BY <1>3, <2>1, <2>2, <2>3
<1> QED
  BY <1>5, <1>6, <1>7, <1>8 DEF ReplyBefore

LEMMA AtTake ==
    ASSUME NEW W \in Seq(Packets), W # <<>>
    PROVE  /\ At(W, "NEWKEYS") = {} => At(Tail(W), "NEWKEYS") = {}
           /\ W[1].type # "ECDH_REPLY" /\ At(W, "ECDH_REPLY") # {} => At(Tail(W), "ECDH_REPLY") # {}
           /\ W[1].type # "ECDH_REPLY" /\ ReplyBefore(W) => ReplyBefore(Tail(W))
<1> DEFINE V == Tail(W)
<1>1. \A i \in DOMAIN V : i \in Nat \ {0} /\ i + 1 \in DOMAIN W /\ V[i] = W[i + 1]
  BY TailOf
<1>2. \A i \in DOMAIN W : i \in Nat /\ (i = 1 \/ (i - 1 \in DOMAIN V /\ V[i - 1] = W[i]))
  BY TailOf
<1> HIDE DEF V
<1>3. At(W, "NEWKEYS") = {} => At(V, "NEWKEYS") = {}
  BY <1>1 DEF At
<1>4. ASSUME W[1].type # "ECDH_REPLY", NEW j \in At(W, "ECDH_REPLY")
      PROVE  j \in Nat /\ j - 1 \in At(V, "ECDH_REPLY")
  BY <1>2, <1>4 DEF At
<1>5. ASSUME W[1].type # "ECDH_REPLY", ReplyBefore(W), NEW k \in At(V, "NEWKEYS")
      PROVE  \E j \in At(V, "ECDH_REPLY") : j < k
  <2>1. k \in Nat /\ k + 1 \in At(W, "NEWKEYS")
    BY <1>1 DEF At
  <2>2. PICK j \in At(W, "ECDH_REPLY") : j < k + 1
    BY <1>5, <2>1 DEF ReplyBefore
  <2>3. j \in Nat /\ j - 1 \in At(V, "ECDH_REPLY") /\ j - 1 < k
    BY <1>4, <1>5, <2>1, <2>2
  <2> QED
    BY <2>3
<1> QED
  BY <1>3, <1>4, <1>5 DEF ReplyBefore, V

\* A packet is sent: all of it, a part or nothing is on the wire.
LEMMA PutWire ==
    ASSUME TypeOK, NEW e \in Ends, NEW p \in Packets, Put(e, p)
    PROVE  \E r \in Packets : /\ r.type = p.type
                              /\ wire'[e] \in {wire[e], Append(wire[e], r)}
                              /\ Sent(e, p) => wire'[e] = Append(wire[e], r)
<1>1. wire \in [Ends -> Seq(Packets)]
  BY DEF TypeOK
<1>2. CASE Sent(e, p)
  BY <1>1, <1>2 DEF Sent
<1>3. CASE Unsent(e, p) /\ ~Sent(e, p)
  <2>1. [p EXCEPT !.whole = FALSE] \in Packets /\ [p EXCEPT !.whole = FALSE].type = p.type
    BY DEF Packets
  <2> QED
    BY <1>1, <1>3, <2>1 DEF Unsent
<1> QED
  BY <1>2, <1>3 DEF Put

\* ReplyFirst, of the wire and the places.
ReplyAt(W, sh, c, s, ik) ==
    /\ sh = 0 => At(W, "NEWKEYS") = {}
    /\ c = "replywait" /\ ik = NOKEY =>
         /\ ReplyBefore(W)
         /\ s \in {"newkeys", "x_newkeys"} => At(W, "ECDH_REPLY") # {}

LEMMA ReplyFirstIsAt ==
    ReplyFirst <=> ReplyAt(wire["server"], shared["server"], pc["client"], pc["server"],
                           in_key["client"])
BY DEF ReplyFirst, ReplyAt, ReplyBefore, InFlight, At

LEMMA ReplyFirstStep == StreamInv /\ InKeys /\ ReplyFirst /\ [Next]_vars => ReplyFirst'
<1> SUFFICES ASSUME StreamInv, InKeys, ReplyFirst, [Next]_vars
             PROVE  ReplyAt(wire'["server"], shared'["server"], pc'["client"], pc'["server"],
                            in_key'["client"])
  BY DEF ReplyFirst, ReplyAt, ReplyBefore, InFlight, At
<1> DEFINE Goal == ReplyAt(wire'["server"], shared'["server"], pc'["client"], pc'["server"],
                           in_key'["client"])
<1>0. /\ TypeOK /\ OneExchange /\ KeysGrow
      /\ ReplyAt(wire["server"], shared["server"], pc["client"], pc["server"], in_key["client"])
      /\ "server" \in Ends /\ "client" \in Ends /\ "client" # "server"
      /\ Peer("server") = "client" /\ Peer("client") = "server"
      /\ wire["server"] \in Seq(Packets) /\ shared["server"] \in Nat /\ shared["client"] \in Nat
      /\ pc["client"] \in ClientPCs /\ pc["server"] \in ServerPCs
  BY ReplyFirstIsAt DEF StreamInv, TypeOK, Ends, Peer
<1>1. ASSUME wire'["server"] = wire["server"], in_key'["client"] = in_key["client"],
             shared'["server"] = 0 => shared["server"] = 0,
             pc'["client"] = "replywait" => pc["client"] = "replywait",
             pc'["server"] \in {"newkeys", "x_newkeys"} => pc["server"] \in {"newkeys", "x_newkeys"}
      PROVE  Goal
  BY <1>0, <1>1 DEF ReplyAt
<1>2. CASE UNCHANGED vars
  BY <1>1, <1>2 DEF vars, control, crypto
<1>3. ASSUME NEW k \in SendKinds, KexSend(k) PROVE Goal
  <2>1. PICK p \in Packets :
           /\ k[1] \in Ends /\ pc[k[1]] = k[2] /\ Put(k[1], p) /\ p.type = k[3]
           /\ pc'[k[1]] \in {k[4], "failed"} \/ Onward(k[1])
           /\ pc'[Peer(k[1])] = pc[Peer(k[1])]
           /\ pc'[k[1]] # "failed" => Sent(k[1], p) \/ Onward(k[1])
           /\ UNCHANGED <<in_key, shared, out_key>>
    BY <1>0, <1>3, KexSendFacts
  <2>2. CASE k[1] = "client" /\ k[3] # "ECDH_INIT"
    <3>1. k[4] # "replywait"
      BY <2>2 DEF SendKinds
    <3>2. wire'["server"] = wire["server"]
      BY <1>0, <2>1, <2>2, PutKept
    <3> QED
      BY <1>0, <1>1, <2>1, <2>2, <3>1, <3>2 DEF Onward
  <2>3. CASE k[1] = "client" /\ k[3] = "ECDH_INIT"
    <3>1. wire'["server"] = wire["server"] /\ pc["client"] = "ecdh" /\ pc'["server"] = pc["server"]
      <4>1. k[2] = "ecdh"
        BY <2>3 DEF SendKinds
      <4> QED
        BY <1>0, <2>1, <2>3, <4>1, PutKept
    <3>2. shared["server"] = shared["client"]
      BY <1>0, <3>1 DEF OneExchange, SecretsAgree, Holds, Even
    <3>3. CASE in_key["client"] = NOKEY
      <4>1. shared["client"] = 0
        BY <1>0, <3>1, <3>3, NoKeyFirst DEF InKeys, KeysAt, InAhead, Ahead
      <4>2. At(wire["server"], "NEWKEYS") = {}
        BY <1>0, <3>2, <4>1 DEF ReplyAt
      <4>3. pc["server"] \notin {"newkeys", "x_newkeys"}
        <5>1. out_key["server"][1] \in Nat
          BY <1>0 DEF TypeOK, KeySet
        <5> QED
          BY <1>0, <3>2, <4>1, <5>1 DEF KeysGrow, Ahead
      <4> QED
        BY <2>1, <3>1, <4>2, <4>3 DEF ReplyAt, ReplyBefore
    <3>4. CASE in_key["client"] # NOKEY
      BY <1>0, <2>1, <3>1, <3>4 DEF ReplyAt
    <3> QED
      BY <3>3, <3>4
  <2>4. CASE k[1] = "server"
    <3>2. PICK r \in Packets : /\ r.type = p.type
                               /\ wire'["server"] \in {wire["server"], Append(wire["server"], r)}
                               /\ pc'["server"] # "failed" => wire'["server"] = Append(wire["server"], r)
      BY <1>0, <2>1, <2>4, PutWire DEF Onward
    <3>3. /\ pc'["client"] = pc["client"]
          /\ pc'["server"] \in {"newkeys", "x_newkeys"} => k[3] = "ECDH_REPLY"
          /\ k[3] = "NEWKEYS" => pc["server"] \in {"newkeys", "x_newkeys"}
      BY <1>0, <2>1, <2>4 DEF SendKinds, Onward
    <3>4. k[3] = "NEWKEYS" => shared["server"] # 0
      <4>1. out_key["server"][1] \in Nat
        BY <1>0 DEF TypeOK, KeySet
      <4> QED
        BY <1>0, <3>3, <4>1 DEF KeysGrow, Ahead
    <3> DEFINE W == wire["server"]
               V == wire'["server"]
    <3>5. /\ ReplyBefore(W) /\ (r.type # "NEWKEYS" \/ At(W, "ECDH_REPLY") # {}) => ReplyBefore(V)
          /\ At(W, "ECDH_REPLY") # {} => At(V, "ECDH_REPLY") # {}
          /\ r.type = "ECDH_REPLY" /\ V = Append(W, r) => At(V, "ECDH_REPLY") # {}
          /\ r.type # "NEWKEYS" /\ At(W, "NEWKEYS") = {} => At(V, "NEWKEYS") = {}
      BY <1>0, <3>2, AtPut
    <3> HIDE DEF W, V
    <3>6. shared'["server"] = 0 => At(V, "NEWKEYS") = {}
      BY <1>0, <2>1, <3>2, <3>4, <3>5 DEF ReplyAt, W
    <3>7. pc'["client"] = "replywait" /\ in_key'["client"] = NOKEY => ReplyBefore(V)
      BY <1>0, <2>1, <3>2, <3>3, <3>5 DEF ReplyAt, W
    <3>8. pc'["server"] \in {"newkeys", "x_newkeys"} => At(V, "ECDH_REPLY") # {}
      BY <2>1, <3>2, <3>3, <3>5 DEF W, V
    <3> QED
      BY <3>6, <3>7, <3>8 DEF ReplyAt, V
  <2> QED
    BY <2>1, <2>2, <2>3, <2>4 DEF Ends
<1>4. ASSUME NEW e \in Ends, SendData(e) PROVE Goal
  <2>1. PICK p \in Packets :
           /\ pc[e] = "data" /\ Put(e, p) /\ p.type = "DATA"
           /\ pc'[e] \in {"data", "failed"} /\ pc'[Peer(e)] = pc[Peer(e)]
           /\ UNCHANGED <<in_key, shared>>
    BY <1>0, <1>4, SendDataFacts
  <2>2. CASE e = "client"
    <3>1. wire'["server"] = wire["server"]
      BY <1>0, <2>1, <2>2, PutKept
    <3> QED
      BY <1>0, <1>1, <2>1, <2>2, <3>1
  <2>3. CASE e = "server"
    <3>2. PICK r \in Packets : /\ r.type = p.type
                               /\ wire'["server"] \in {wire["server"], Append(wire["server"], r)}
      BY <1>0, <2>1, <2>3, PutWire
    <3> DEFINE W == wire["server"]
               V == wire'["server"]
    <3>3. /\ ReplyBefore(W) => ReplyBefore(V)
          /\ At(W, "NEWKEYS") = {} => At(V, "NEWKEYS") = {}
      BY <1>0, <2>1, <3>2, AtPut
    <3> HIDE DEF W, V
    <3>4. pc'["client"] = pc["client"] /\ pc'["server"] \notin {"newkeys", "x_newkeys"}
      BY <1>0, <2>1, <2>3
    <3> QED
      BY <1>0, <2>1, <3>3, <3>4 DEF ReplyAt, W, V
  <2> QED
    BY <2>2, <2>3 DEF Ends
<1>5. ASSUME NEW e \in Ends, Accepts(e) \/ Switches(e) PROVE Goal
  <2>1. Take(e)
    BY <1>0, <1>5, AcceptsForm, SwitchesForm
  <2>2. /\ pc'[Peer(e)] = pc[Peer(e)]
        /\ shared'["server"] = 0 => shared["server"] = 0
        /\ in_key'["client"] = in_key["client"] \/ (e = "client" /\ pc'["client"] = "data")
        /\ e = "client" /\ pc'["client"] = "replywait" =>
             pc["client"] = "replywait" /\ First("client").type # "ECDH_REPLY"
        /\ e = "server" => pc'["server"] \notin {"newkeys", "x_newkeys"}
    <3>1. CASE Accepts(e)
      <4>1. /\ <<pc[e], pc'[e]>> \in AcceptPlaces
            /\ pc'[Peer(e)] = pc[Peer(e)] /\ shared'[Peer(e)] = shared[Peer(e)]
            /\ shared'[e] = IF pc'[e] # pc[e] /\ pc'[e] \in {"newkeys", "reply", "x_reply"}
                            THEN shared[e] + 1 ELSE shared[e]
            /\ e = "client" /\ pc[e] = "replywait" /\ First(e).type = "ECDH_REPLY"
                 => pc'[e] = "newkeys"
            /\ e = "server" => pc[e] # "replywait"
            /\ UNCHANGED in_key
        BY <1>0, <3>1, AcceptsPlaces, AcceptsForm
      <4>2. shared'["server"] = 0 => shared["server"] = 0
        BY <1>0, <4>1 DEF Ends
      <4>3. /\ e = "client" /\ pc'["client"] = "replywait" =>
                 pc["client"] = "replywait" /\ First("client").type # "ECDH_REPLY"
            /\ e = "server" => pc'["server"] \notin {"newkeys", "x_newkeys"}
        BY <4>1 DEF AcceptPlaces
      <4> QED
        BY <4>1, <4>2, <4>3
    <3>2. CASE Switches(e)
      <4>1. /\ pc'[e] = "data" /\ pc'[Peer(e)] = pc[Peer(e)] /\ UNCHANGED shared
            /\ in_key'[Peer(e)] = in_key[Peer(e)]
        BY <1>0, <3>2, SwitchesFacts
      <4> QED
        BY <1>0, <4>1 DEF Ends
    <3> QED
      BY <1>5, <3>1, <3>2
  <2>3. CASE e = "server"
    <3>1. wire'["server"] = wire["server"]
      BY <1>0, <2>1, <2>3, TakeKept
    <3> QED
      BY <1>0, <1>1, <2>2, <2>3, <3>1
  <2>4. CASE e = "client"
    <3>1. /\ wire["server"] # <<>> /\ First("client") = wire["server"][1]
          /\ wire'["server"] = Tail(wire["server"])
      <4>1. wire["server"] # <<>> /\ wire' = [wire EXCEPT !["server"] = Tail(@)]
        BY <1>0, <2>1, <2>4 DEF Take, Incoming
      <4>2. First("client") = wire["server"][1]
        BY <1>0, <2>1, <2>4, TakeKept
      <4>3. wire \in [Ends -> Seq(Packets)]
        BY <1>0 DEF TypeOK
      <4> QED
        BY <1>0, <4>1, <4>2, <4>3
    <3>2. /\ At(wire["server"], "NEWKEYS") = {} => At(wire'["server"], "NEWKEYS") = {}
          /\ First("client").type # "ECDH_REPLY" /\ At(wire["server"], "ECDH_REPLY") # {}
               => At(wire'["server"], "ECDH_REPLY") # {}
          /\ First("client").type # "ECDH_REPLY" /\ ReplyBefore(wire["server"])
               => ReplyBefore(wire'["server"])
      BY <1>0, <3>1, AtTake
    <3> QED
      BY <1>0, <2>2, <2>4, <3>2 DEF ReplyAt
  <2> QED
    BY <2>3, <2>4 DEF Ends
<1>6. ASSUME NEW e \in Ends, Moves(e) \/ Reject(e) PROVE Goal
  <2>1. /\ pc'[e] \in {"closed", "failed", "kexinit", "data"}
        /\ pc'[Peer(e)] = pc[Peer(e)] /\ UNCHANGED <<in_key, shared>>
        /\ UNCHANGED wire \/ (e = "client" /\ Damaged(e))
    BY <1>0, <1>6, MovesFacts, RejectFacts DEF Onward
  <2>2. CASE UNCHANGED wire
    BY <1>0, <1>1, <2>1, <2>2 DEF Ends
  <2>3. CASE e = "client" /\ Damaged(e)
    <3>1. At(wire'["server"], "NEWKEYS") = At(wire["server"], "NEWKEYS")
      <4>1. /\ DOMAIN wire'["server"] = DOMAIN wire["server"]
            /\ \A i \in DOMAIN wire["server"] : wire'["server"][i].type = wire["server"][i].type
        BY <1>0, <2>3, DamagedForm DEF Peer
      <4> HIDE DEF Goal
      <4> QED
        BY <4>1 DEF At
    <3>2. pc'["client"] # "replywait"
      BY <2>1, <2>3
    <3> QED
      BY <1>0, <2>1, <3>1, <3>2 DEF ReplyAt
  <2> QED
    BY <2>1, <2>2, <2>3
<1>7. ASSUME ForeignSwitchesOut PROVE Goal
  BY <1>0, <1>1, <1>7, SwitchesOutFacts
<1> QED
  BY <1>0, <1>2, <1>3, <1>4, <1>5, <1>6, <1>7, StepForms, KexSendForm

----------------------------------------------------------------------------
(* Both channels over every step.                                          *)

\* A receiver without keys that goes on has not passed over a NEWKEYS.
LEMMA NotPassed ==
    ASSUME DeliveryInv, NEW e \in Ends, Accepts(e)
    PROVE  Alive(e) /\ (in_key[e] = NOKEY /\ Alive(e)' => First(e).type # "NEWKEYS")
<1>0. TypeOK /\ OneExchange /\ InKeys /\ ReplyFirst
  BY DEF DeliveryInv, StreamInv
<1>1. /\ <<pc[e], pc'[e]>> \in AcceptPlaces
      /\ pc[e] \in {"kexwait", "kexinit"} /\ First(e).type = "NEWKEYS" => pc'[e] = "failed" \/ Onward(e)
      /\ pc[e] = "ecdh" /\ First(e).type = "NEWKEYS" => pc'[e] = "failed"
      /\ pc[e] \in {"nkwait", "x_nkwait"} => First(e).type # "NEWKEYS"
      /\ e = "server" => pc[e] # "replywait"
      /\ Onward(e) => in_key[e] # NOKEY
  BY <1>0, AcceptsPlaces DEF Onward, InKeys
<1>2. pc[e] \in {"kexwait", "replywait", "nkwait", "data", "kexinit", "ecdh", "rekeyed", "x_ecdh",
                "x_nkwait"}
  BY <1>1 DEF AcceptPlaces
<1>3. Alive(e)
  BY <1>2 DEF Alive
<1>4. ASSUME in_key[e] = NOKEY, Alive(e)', First(e).type = "NEWKEYS" PROVE FALSE
  <2>1. pc'[e] # "failed"
    BY <1>4 DEF Alive
  <2>2. pc[e] \notin {"data", "rekeyed", "x_ecdh"}
    BY <1>0, <1>4 DEF InKeys, KeysAt, Keyed
  <2>3. pc[e] = "replywait" /\ e = "client" /\ Peer(e) = "server"
    BY <1>1, <1>2, <1>4, <2>1, <2>2 DEF Ends, Peer
  <2>4. 1 \in DOMAIN wire["server"] /\ First(e) = wire["server"][1]
        /\ wire["server"] \in Seq(Packets)
    <3>1. Take(e)
      BY <1>0, AcceptsForm
    <3> QED
      BY <1>0, <2>3, <3>1, TakeKept DEF TypeOK, Ends
  <2>5. 1 \in InFlight("server", {"NEWKEYS"})
    BY <1>4, <2>4 DEF InFlight
  <2>6. PICK j \in InFlight("server", {"ECDH_REPLY"}) : j < 1
    BY <1>0, <1>4, <2>3, <2>5 DEF ReplyFirst
  <2>7. j \in Nat \ {0}
    BY <2>4, <2>6, SeqFacts DEF InFlight
  <2> QED
    BY <2>6, <2>7
<1> QED
  BY <1>3, <1>4

\* An end that takes new keys into use has the newest secret.
LEMMA NewestSecret ==
    ASSUME StreamInv, InKeys, NEW e \in Ends, pc[e] \in {"nkwait", "x_nkwait", "x_switch"}
    PROVE  /\ out_key[Peer(e)][1] <= shared[e] /\ in_key[Peer(e)][1] <= shared[e]
           /\ shared[e] = in_key[e][1] + 1
<1>1. /\ TypeOK /\ OneExchange /\ KeysGrow /\ Peer(e) \in Ends
      /\ pc["client"] \in ClientPCs
  BY PeerFacts DEF StreamInv, TypeOK
<1>2. /\ shared[e] \in Nat /\ shared[Peer(e)] \in Nat
      /\ out_key[Peer(e)][1] \in Nat /\ in_key[Peer(e)][1] \in Nat
  BY <1>1 DEF TypeOK, KeySet
<1>3. shared[Peer(e)] <= shared[e]
  <2>1. CASE e = "client"
    <3>1. pc["client"] = "nkwait"
      BY <1>1, <2>1 DEF ClientPCs
    <3>2. shared["server"] = shared["client"]
      BY <1>1, <3>1 DEF OneExchange, SecretsAgree, Even
    <3> QED
      BY <1>2, <2>1, <3>2 DEF Peer
  <2>2. CASE e = "server"
    <3>1. shared["server"] \in {shared["client"], shared["client"] + 1}
      BY <1>1 DEF OneExchange, SecretsAgree, Even, Odd
    <3> QED
      BY <1>2, <2>2, <3>1 DEF Peer
  <2> QED
    BY <2>1, <2>2 DEF Ends
<1>4. out_key[Peer(e)][1] <= shared[Peer(e)] /\ in_key[Peer(e)][1] <= shared[Peer(e)]
  BY <1>1 DEF KeysGrow, InKeys, KeysAt
<1>5. shared[e] = in_key[e][1] + 1
  BY DEF InKeys, KeysAt, InAhead, Ahead
<1> QED
  BY <1>2, <1>3, <1>4, <1>5

\* An end sends: its own direction, and the other one.
LEMMA ChannelsPut ==
    ASSUME DeliveryInv, NEW e \in Ends, NEW p \in Packets, Put(e, p), p.key = out_key[e],
           p.ctr = out_ctr[e], p.whole = TRUE, pc[e] \notin Stopped,
           UNCHANGED <<out_key, in_key, in_ctr, got>>, pc'[Peer(e)] = pc[Peer(e)],
           out_key[e] = NOKEY /\ pc'[e] # "failed" => Sent(e, p), NEW d \in Ends,
           Lost(d) => Lost(d)'
    PROVE  Channel(d)'
<1>1. StreamInv /\ TypeOK /\ History /\ Channel(d)
  BY DEF DeliveryInv, StreamInv
<1>2. CASE d = e
  BY <1>1, <1>2, ChannelPut
<1>3. CASE d # e
  <2>1. d = Peer(e) /\ Peer(d) = e
    BY <1>3, PeerFacts
  <2>2. wire'[d] = wire[d] /\ tried'[d] = tried[d] /\ out_ctr'[d] = out_ctr[d]
    BY <1>1, <1>3, <2>1, PutKept, PutTried
  <2>3. Alive(Peer(d))
    BY <2>1 DEF Alive, Stopped
  <2> QED
    BY <1>1, <2>1, <2>2, <2>3, ChannelKeep
<1> QED
  BY <1>2, <1>3

LEMMA ChannelStep ==
    ASSUME DeliveryInv, [Next]_vars, NEW d \in Ends
    PROVE  Channel(d)'
<1>0. /\ StreamInv /\ TypeOK /\ OneExchange /\ KeysGrow /\ History /\ InKeys /\ Channel(d)
      /\ Lost(d) => Lost(d)'
  BY LostStays DEF DeliveryInv, StreamInv
<1>1. CASE UNCHANGED vars
  <2>1. UNCHANGED <<pc, wire, tried, out_key, out_ctr, got, in_key, in_ctr>>
    BY <1>1 DEF vars, control, crypto, counters
  <2> QED
    BY <1>0, <2>1, ChannelKeep DEF Alive
<1>2. ASSUME NEW k \in SendKinds, KexSend(k) PROVE Channel(d)'
  <2>1. PICK p \in Packets :
           /\ k[1] \in Ends /\ pc[k[1]] = k[2] /\ Put(k[1], p)
           /\ p.key = out_key[k[1]] /\ p.ctr = out_ctr[k[1]] /\ p.whole = TRUE
           /\ pc'[Peer(k[1])] = pc[Peer(k[1])]
           /\ pc'[k[1]] # "failed" => Sent(k[1], p) \/ Onward(k[1])
           /\ UNCHANGED <<out_key, in_key, in_ctr, got>>
    BY <1>0, <1>2, KexSendFacts
  <2>2. k[2] \notin Stopped
    BY DEF SendKinds, Stopped
  <2>3. out_key[k[1]] = NOKEY /\ pc'[k[1]] # "failed" => Sent(k[1], p)
    BY <1>0, <2>1 DEF Onward, InKeys
  <2> QED
    BY <1>0, <2>1, <2>2, <2>3, ChannelsPut
<1>3. ASSUME NEW e \in Ends, SendData(e) PROVE Channel(d)'
  <2>1. PICK p \in Packets :
           /\ pc[e] = "data" /\ Put(e, p)
           /\ p.key = out_key[e] /\ p.ctr = out_ctr[e] /\ p.whole = TRUE
           /\ pc'[Peer(e)] = pc[Peer(e)]
           /\ UNCHANGED <<out_key, in_key, in_ctr, got>>
    BY <1>0, <1>3, SendDataFacts
  <2>2. pc[e] \notin Stopped /\ out_key[e] # NOKEY
    BY <1>0, <2>1 DEF Stopped, InKeys, KeysAt, Keyed
  <2> QED
    BY <1>0, <2>1, <2>2, ChannelsPut
<1>4. ASSUME NEW e \in Ends, Accepts(e) PROVE Channel(d)'
  <2>1. /\ Take(e) /\ Consume(e, First(e)) /\ UNCHANGED <<out_ctr, out_key, in_key, tried>>
        /\ pc'[Peer(e)] = pc[Peer(e)] /\ shared'[Peer(e)] = shared[Peer(e)]
    BY <1>0, <1>4, AcceptsForm, AcceptsPlaces
  <2>2. Alive(e) /\ (in_key[e] = NOKEY /\ Alive(e)' => First(e).type # "NEWKEYS")
    BY <1>4, NotPassed
  <2>3. CASE d = Peer(e)
    <3>1. Peer(d) = e
      BY <2>3, PeerFacts
    <3> QED
      BY <1>0, <2>1, <2>2, <2>3, <3>1, ChannelTake
  <2>4. CASE d = e
    <3>1. Channel(Peer(e)) /\ Peer(e) \in Ends /\ Peer(Peer(e)) = e /\ Peer(e) # e
      BY PeerFacts DEF DeliveryInv
    <3>2. wire'[e] = wire[e] /\ got'[Peer(e)] = got[Peer(e)]
      BY <1>0, <2>1, <3>1, TakeEffect
    <3>3. in_ctr'[Peer(e)] = in_ctr[Peer(e)]
      BY <1>0, <2>1, <3>1 DEF Consume, TypeOK
    <3>4. pc[e] # "failed" /\ (Alive(Peer(e))' => Alive(Peer(e)))
      BY <2>1, <2>2 DEF Alive
    <3> QED
      BY <1>0, <2>1, <2>4, <3>2, <3>3, <3>4, ChannelKeep
  <2> QED
    BY <2>3, <2>4, PeerFacts
<1>5. ASSUME NEW e \in Ends, Switches(e) PROVE Channel(d)'
  <2>1. /\ Take(e) /\ First(e).type = "NEWKEYS" /\ pc[e] \in {"nkwait", "x_nkwait"}
        /\ pc'[e] = "data" /\ pc'[Peer(e)] = pc[Peer(e)]
        /\ in_key'[e] \in KeySet /\ in_key'[e][1] = shared[e] /\ in_ctr'[e] = 0
        /\ in_key'[Peer(e)] = in_key[Peer(e)] /\ in_ctr'[Peer(e)] = in_ctr[Peer(e)]
        /\ out_key'[Peer(e)] = out_key[Peer(e)] /\ out_ctr'[Peer(e)] = out_ctr[Peer(e)]
        /\ \/ /\ pc[e] = "nkwait" /\ out_key'[e] \in KeySet /\ out_key'[e][1] = shared[e]
              /\ out_ctr'[e] = 0
           \/ /\ pc[e] = "x_nkwait" /\ out_key'[e] = out_key[e] /\ out_ctr'[e] = out_ctr[e]
        /\ UNCHANGED tried
    BY <1>0, <1>5, SwitchesFacts
  <2>2. /\ out_key[Peer(e)][1] <= shared[e] /\ in_key[Peer(e)][1] <= shared[e]
        /\ shared[e] = in_key[e][1] + 1
    BY <1>0, <2>1, NewestSecret
  <2>3. CASE d = Peer(e)
    <3>1. Peer(d) = e
      BY <2>3, PeerFacts
    <3> QED
      BY <1>0, <2>1, <2>2, <2>3, <3>1, ChannelSwitchIn
  <2>4. CASE d = e
    <3>1. Channel(Peer(e)) /\ Peer(e) \in Ends /\ Peer(Peer(e)) = e
      BY PeerFacts DEF DeliveryInv
    <3>2. wire'[e] = wire[e] /\ got'[Peer(e)] = got[Peer(e)]
      BY <1>0, <2>1, <3>1, TakeEffect
    <3>3. CASE pc[e] = "nkwait"
      <4>1. out_key[e][1] < shared[e]
        BY <1>0, <3>3 DEF KeysGrow, Ahead
      <4>2. ~Lost(e)
        BY <3>3 DEF Lost
      <4> QED
        BY <1>0, <2>1, <2>2, <2>4, <3>2, <3>3, <4>1, <4>2, ChannelSwitchOut
    <3>4. CASE pc[e] = "x_nkwait"
      <4>1. Alive(Peer(e))' => Alive(Peer(e))
        BY <2>1 DEF Alive
      <4> QED
        BY <1>0, <2>1, <2>4, <3>2, <3>4, <4>1, ChannelKeep
    <3> QED
      BY <2>1, <3>3, <3>4
  <2> QED
    BY <2>3, <2>4, PeerFacts
<1>6. ASSUME NEW e \in Ends, Moves(e) \/ Reject(e) PROVE Channel(d)'
  <2>1. /\ pc[e] \notin {"closed", "failed"} /\ pc'[Peer(e)] = pc[Peer(e)]
        /\ UNCHANGED <<out_key, in_key, out_ctr, in_ctr, tried>>
        /\ UNCHANGED wire \/ (e = "client" /\ rekeying /\ Damaged(e))
    BY <1>0, <1>6, MovesFacts, RejectFacts
  <2>2. UNCHANGED got
    <3>1. Channel(Peer(e)) /\ Peer(e) \in Ends /\ Peer(Peer(e)) = e
      BY PeerFacts DEF DeliveryInv
    <3> QED
      BY <1>0, <1>6, <3>1, MovesFacts, NoGarbage
  <2>3. \A f \in Ends : (pc[f] = "failed" => pc'[f] = "failed") /\ (Alive(f)' => Alive(f))
    BY <2>1, PeerFacts DEF Alive
  <2>4. Peer(d) \in Ends
    BY PeerFacts
  <2>5. wire'[d] = wire[d] \/ (in_key[Peer(d)] # NOKEY /\ Damaged(Peer(d)))
    <3>1. CASE UNCHANGED wire
      BY <3>1
    <3>2. CASE e = "client" /\ rekeying /\ Damaged(e)
      <4>1. in_key["client"] # NOKEY
        BY <1>0, <3>2 DEF InKeys
      <4>2. wire'["client"] = wire["client"]
        BY <1>0, <3>2, DamagedForm
      <4> QED
        BY <3>2, <4>1, <4>2 DEF Ends, Peer
    <3> QED
      BY <2>1, <3>1, <3>2
  <2> QED
    BY <1>0, <2>1, <2>2, <2>3, <2>4, <2>5, ChannelKeep
<1>7. ASSUME ForeignSwitchesOut PROVE Channel(d)'
  <2>1. /\ "server" \in Ends /\ pc["server"] = "x_switch" /\ pc'["server"] = "x_nkwait"
        /\ pc'["client"] = pc["client"]
        /\ out_key'["server"] \in KeySet /\ out_key'["server"][1] = shared["server"]
        /\ out_ctr'["server"] = 0
        /\ out_key'["client"] = out_key["client"] /\ out_ctr'["client"] = out_ctr["client"]
        /\ UNCHANGED <<in_key, in_ctr, wire, tried, got>>
    BY <1>0, <1>7, SwitchesOutFacts
  <2>2. Peer("server") = "client" /\ Peer("client") = "server"
    BY DEF Peer
  <2>3. CASE d = "server"
    <3>1. out_key["server"][1] < shared["server"]
      BY <1>0, <2>1 DEF KeysGrow, Ahead
    <3>2. in_key[Peer("server")][1] <= shared["server"]
      BY <1>0, <2>1, NewestSecret
    <3>3. ~Lost("server")
      BY DEF Lost
    <3> QED
      BY <1>0, <2>1, <2>2, <2>3, <3>1, <3>2, <3>3, ChannelSwitchOut
  <2>4. CASE d = "client"
    <3>1. Alive("server")' => Alive("server")
      BY <2>1 DEF Alive
    <3> QED
      BY <1>0, <2>1, <2>2, <2>4, <3>1, ChannelKeep
  <2> QED
    BY <2>3, <2>4 DEF Ends
<1> QED
  BY <1>0, <1>1, <1>2, <1>3, <1>4, <1>5, <1>6, <1>7, StepForms, KexSendForm

LEMMA DeliveryStep == DeliveryInv /\ [Next]_vars => DeliveryInv'
<1> SUFFICES ASSUME DeliveryInv, [Next]_vars PROVE DeliveryInv'
  OBVIOUS
<1>1. StreamInv /\ History /\ InKeys /\ ServerKey /\ ReplyFirst
  BY DEF DeliveryInv
<1>2. StreamInv' /\ History' /\ InKeys' /\ ServerKey' /\ ReplyFirst'
  BY <1>1, StreamStep, HistoryStep, InKeysStep, ServerKeyStep, ReplyFirstStep
<1>3. \A d \in Ends : Channel(d)'
  BY ChannelStep
<1> QED
  BY <1>2, <1>3 DEF DeliveryInv

LEMMA DeliveryInit == Init => DeliveryInv
<1> SUFFICES ASSUME Init PROVE DeliveryInv
  OBVIOUS
<1>1. /\ \A e \in Ends : /\ wire[e] = <<>> /\ tried[e] = <<>> /\ got[e] = <<>> /\ shared[e] = 0
                         /\ out_key[e] = NOKEY /\ in_key[e] = NOKEY /\ pc[e] = "kexinit"
      /\ "client" \in Ends /\ "server" \in Ends /\ rekeying = FALSE
  BY DEF Init, Ends
<1>2. StreamInv
  BY StreamInit
<1>3. History
  BY <1>1 DEF History, Ordered, NewkeysLast
<1>4. InKeys
  BY <1>1, NoKeyFirst DEF InKeys, KeysAt, InAhead, Ahead, Keyed
<1>5. ReplyFirst /\ ServerKey
  BY <1>1, NoKeyFirst DEF ReplyFirst, ServerKey, InFlight
<1>6. \A d \in Ends : Channel(d)
  <2> SUFFICES ASSUME NEW d \in Ends PROVE Channel(d)
    OBVIOUS
  <2>1. /\ wire[d] = <<>> /\ tried[d] = <<>> /\ got[Peer(d)] = <<>>
        /\ out_key[d] = NOKEY /\ in_key[Peer(d)] = NOKEY /\ Taken(d) = 0
    BY <1>1, PeerFacts DEF Taken
  <2>2. OnWire(<<>>, <<>>, 0) /\ PlainNewkeys(<<>>, <<>>, NOKEY) /\ Delivered(<<>>, <<>>)
    BY DEF OnWire, PlainNewkeys, Delivered
  <2>3. Plain(<<>>, <<>>, 0, NOKEY, pc[d] = "failed")
    BY DEF Plain
  <2> QED
    BY <2>1, <2>2, <2>3 DEF Channel
<1> QED
  BY <1>2, <1>3, <1>4, <1>5, <1>6 DEF DeliveryInv

\* The inductive invariant behind Faithful.
THEOREM DeliveryInvariant == Spec => []DeliveryInv
BY DeliveryInit, DeliveryStep, PTL DEF Spec

\* What an end has taken for received is what the other end has given to send(),
\* in order, nothing left out and nothing made up, over any number of packets,
\* failures of send() and changes of keys: before there is a MAC a sender that
\* fails is done, and behind it recv_packet() passes only the next packet.
THEOREM ReceivedIsSent == Spec => []Faithful
<1>1. DeliveryInv => Faithful
  BY FaithfulIsDelivered DEF DeliveryInv, Channel, StreamInv
<1> QED
  BY <1>1, DeliveryInvariant, PTL

----------------------------------------------------------------------------
(* As long as nothing fails and keys are exchanged once, both directions   *)
(* carry KEXINIT, one half of the exchange and NEWKEYS in the clear, then  *)
(* data under the key of the exchange, and each end is where it has got    *)
(* to in that.                                                             *)

Calm == faults = 0 /\ rekeys = 0

FirstKey == <<1, 1, 1>>

\* The packets each end sends, by their number, and their key.
Script(d, i) ==
    IF i = 1 THEN "KEXINIT"
    ELSE IF i = 2 THEN (IF d = "client" THEN "ECDH_INIT" ELSE "ECDH_REPLY")
    ELSE IF i = 3 THEN "NEWKEYS" ELSE "DATA"

KeyOf(i) == IF i <= 3 THEN NOKEY ELSE FirstKey

\* The sequence number and the counter of packet k of W, or of the one to come.
SeqFrom(W, ss, k) == IF k \in DOMAIN W THEN W[k].seq ELSE ss
CtrFrom(W, oc, k) == IF k \in DOMAIN W THEN W[k].ctr ELSE oc

\* The packets on the wire are the ones that follow the n received ones; their
\* numbers lead from the receiver's rs and ic to the sender's ss and oc.
Linked(d, W, n, rs, ss, ic, oc) ==
    /\ \A k \in DOMAIN W :
         /\ W[k].whole = TRUE /\ W[k].type = Script(d, n + k) /\ W[k].key = KeyOf(n + k)
         /\ W[k].type \in {"ECDH_INIT", "ECDH_REPLY"} => W[k].x = 1
         /\ SeqFrom(W, ss, k + 1) = (W[k].seq + 1) % SEQ
         /\ CtrFrom(W, oc, k + 1) = IF W[k].key = NOKEY THEN W[k].ctr ELSE W[k].ctr + Blocks(W[k])
    /\ rs = SeqFrom(W, ss, 1) /\ ic = CtrFrom(W, oc, 1)

Link(d) ==
    /\ Linked(d, wire[d], Taken(d), recv_seq[Peer(d)], send_seq[d], in_ctr[Peer(d)], out_ctr[d])
    /\ Len(tried[d]) = Taken(d) + Len(wire[d])

\* How many packets each end has sent and received where it is in the exchange.
Progress(e) ==
    IF e = "client"
    THEN {<<"kexinit", 0, 0>>, <<"kexwait", 1, 0>>, <<"ecdh", 1, 1>>, <<"replywait", 2, 1>>,
          <<"newkeys", 2, 2>>, <<"nkwait", 3, 2>>}
    ELSE {<<"kexinit", 0, 0>>, <<"kexreply", 0, 1>>, <<"ecdh", 1, 1>>, <<"reply", 1, 2>>,
          <<"newkeys", 2, 2>>, <<"nkwait", 3, 2>>}

Place(e) ==
    \/ pc[e] = "closed"
    \/ /\ pc[e] = "data" /\ Len(tried[e]) >= 3 /\ Len(got[e]) >= 3
       /\ in_key[e] = FirstKey /\ out_key[e] = FirstKey
    \/ /\ <<pc[e], Len(tried[e]), Len(got[e])>> \in Progress(e)
       /\ in_key[e] = NOKEY /\ out_key[e] = NOKEY /\ in_ctr[e] = 0 /\ out_ctr[e] = 0
       /\ shared[e] = (IF pc[e] \in {"reply", "newkeys", "nkwait"} THEN 1 ELSE 0)
       /\ session_id[e] = shared[e]

CalmInv == Calm => ~rekeying /\ \A e \in Ends : Link(e) /\ Place(e)

LEMMA LinkedPut ==
    ASSUME NEW d, NEW W \in Seq(Packets), NEW n \in Nat, NEW rs, NEW ss, NEW ic, NEW oc,
           Linked(d, W, n, rs, ss, ic, oc), NEW p \in Packets, p.whole = TRUE, p.seq = ss, p.ctr = oc,
           p.type = Script(d, n + Len(W) + 1), p.key = KeyOf(n + Len(W) + 1),
           p.type \in {"ECDH_INIT", "ECDH_REPLY"} => p.x = 1
    PROVE  Linked(d, Append(W, p), n, rs, (ss + 1) % SEQ, ic,
                  IF p.key = NOKEY THEN oc ELSE oc + Blocks(p))
<1> DEFINE V == Append(W, p)
           tt == (ss + 1) % SEQ
           od == IF p.key = NOKEY THEN oc ELSE oc + Blocks(p)
<1>1. /\ \A i \in DOMAIN W : i \in Nat \ {0} /\ i <= Len(W) /\ i \in DOMAIN V /\ V[i] = W[i]
      /\ Len(W) \in Nat /\ DOMAIN W = 1..Len(W) /\ DOMAIN V = 1..(Len(W) + 1)
      /\ V[Len(W) + 1] = p
  BY AppendOf, SeqFacts
<1> HIDE DEF V, tt, od
<1>2. ASSUME NEW k \in 1..(Len(W) + 1)
      PROVE  SeqFrom(V, tt, k) = SeqFrom(W, ss, k) /\ CtrFrom(V, od, k) = CtrFrom(W, oc, k)
  <2>1. CASE k \in DOMAIN W
    BY <1>1, <2>1 DEF SeqFrom, CtrFrom
  <2>2. CASE k = Len(W) + 1
    <3>1. k \notin DOMAIN W /\ k \in DOMAIN V /\ V[k] = p
      BY <1>1, <2>2
    <3> QED
      BY <3>1 DEF SeqFrom, CtrFrom
  <2> QED
    BY <1>1, <2>1, <2>2
<1>3. ASSUME NEW k \in DOMAIN V
      PROVE  /\ V[k].whole = TRUE /\ V[k].type = Script(d, n + k) /\ V[k].key = KeyOf(n + k)
             /\ V[k].type \in {"ECDH_INIT", "ECDH_REPLY"} => V[k].x = 1
             /\ SeqFrom(V, tt, k + 1) = (V[k].seq + 1) % SEQ
             /\ CtrFrom(V, od, k + 1) = IF V[k].key = NOKEY THEN V[k].ctr ELSE V[k].ctr + Blocks(V[k])
  <2>1. CASE k \in DOMAIN W
    <3>1. V[k] = W[k] /\ k + 1 \in 1..(Len(W) + 1)
      BY <1>1, <2>1
    <3>2. SeqFrom(V, tt, k + 1) = SeqFrom(W, ss, k + 1) /\ CtrFrom(V, od, k + 1) = CtrFrom(W, oc, k + 1)
      BY <1>2, <3>1
    <3> QED
      BY <2>1, <3>1, <3>2 DEF Linked
  <2>2. CASE k = Len(W) + 1
    <3>1. V[k] = p /\ k + 1 \notin DOMAIN V /\ n + k = n + Len(W) + 1
      BY <1>1, <2>2
    <3> QED
      BY <3>1 DEF SeqFrom, CtrFrom, tt, od
  <2>3. k \in DOMAIN W \/ k = Len(W) + 1
    BY <1>1
  <2> QED
    BY <2>1, <2>2, <2>3, Zenon
<1>4. rs = SeqFrom(V, tt, 1) /\ ic = CtrFrom(V, od, 1)
  <2>1. 1 \in 1..(Len(W) + 1)
    BY <1>1
  <2> QED
    BY <1>2, <2>1 DEF Linked
<1> QED
  BY <1>3, <1>4 DEF Linked, V, tt, od

LEMMA LinkedTake ==
    ASSUME NEW d, NEW W \in Seq(Packets), W # <<>>, NEW n \in Nat, NEW rs, NEW ss, NEW ic, NEW oc,
           Linked(d, W, n, rs, ss, ic, oc)
    PROVE  Linked(d, Tail(W), n + 1, (rs + 1) % SEQ, ss,
                  IF W[1].key = NOKEY THEN ic ELSE ic + Blocks(W[1]), oc)
<1> DEFINE V == Tail(W)
<1>1. /\ Len(W) \in Nat \ {0} /\ DOMAIN V = 1..(Len(W) - 1) /\ DOMAIN W = 1..Len(W)
      /\ 1 \in DOMAIN W
      /\ \A i \in DOMAIN V : i \in Nat \ {0} /\ i + 1 \in DOMAIN W /\ V[i] = W[i + 1]
  BY TailOf
<1> HIDE DEF V
<1>2. \A k \in Nat \ {0} : SeqFrom(V, ss, k) = SeqFrom(W, ss, k + 1)
                          /\ CtrFrom(V, oc, k) = CtrFrom(W, oc, k + 1)
  BY <1>1 DEF SeqFrom, CtrFrom
<1>3. ASSUME NEW k \in DOMAIN V
      PROVE  /\ V[k].whole = TRUE /\ V[k].type = Script(d, n + 1 + k)
             /\ V[k].key = KeyOf(n + 1 + k)
             /\ V[k].type \in {"ECDH_INIT", "ECDH_REPLY"} => V[k].x = 1
             /\ SeqFrom(V, ss, k + 1) = (V[k].seq + 1) % SEQ
             /\ CtrFrom(V, oc, k + 1) = IF V[k].key = NOKEY THEN V[k].ctr ELSE V[k].ctr + Blocks(V[k])
  <2>1. k \in Nat \ {0} /\ k + 1 \in Nat \ {0} /\ k + 1 \in DOMAIN W /\ V[k] = W[k + 1]
        /\ n + (k + 1) = n + 1 + k
    BY <1>1
  <2>2. SeqFrom(V, ss, k + 1) = SeqFrom(W, ss, k + 1 + 1) /\ CtrFrom(V, oc, k + 1) = CtrFrom(W, oc, k + 1 + 1)
    BY <1>2, <2>1
  <2> HIDE DEF V
  <2> QED
    BY <2>1, <2>2 DEF Linked
<1>4. /\ (rs + 1) % SEQ = SeqFrom(V, ss, 1)
      /\ CtrFrom(V, oc, 1) = IF W[1].key = NOKEY THEN ic ELSE ic + Blocks(W[1])
  <2>1. SeqFrom(V, ss, 1) = SeqFrom(W, ss, 1 + 1) /\ CtrFrom(V, oc, 1) = CtrFrom(W, oc, 1 + 1)
    BY <1>2
  <2>2. rs = W[1].seq /\ ic = W[1].ctr
    BY <1>1 DEF Linked, SeqFrom, CtrFrom
  <2> QED
    BY <1>1, <2>1, <2>2 DEF Linked
<1> QED
  BY <1>3, <1>4 DEF Linked, V

LEMMA CalmBack ==
    ASSUME TypeOK, Next, Calm'
    PROVE  Calm /\ faults' = faults /\ rekeys' = rekeys
<1>1. faults \in Nat /\ rekeys \in Nat
  BY DEF TypeOK
<1>2. faults' \in {faults, faults + 1} /\ rekeys' \in {rekeys, rekeys + 1}
  <2>1. ASSUME NEW e \in Ends, NEW p \in Packets, Put(e, p) PROVE faults' \in {faults, faults + 1}
    BY <2>1, Zenon DEF Put, Sent, Unsent
  <2>2. ASSUME NEW k \in SendKinds, KexSend(k)
        PROVE  faults' \in {faults, faults + 1} /\ rekeys' \in {rekeys, rekeys + 1}
    BY <2>1, <2>2, KexSendFacts, Zenon DEF KexSend
  <2>3. ASSUME NEW e \in Ends, SendData(e)
        PROVE  faults' \in {faults, faults + 1} /\ rekeys' \in {rekeys, rekeys + 1}
    BY <2>1, <2>3, SendDataTyped, Zenon
  <2>4. ASSUME NEW e \in Ends, Accepts(e) \/ Switches(e) \/ Moves(e) \/ Reject(e)
        PROVE  faults' \in {faults, faults + 1} /\ rekeys' \in {rekeys, rekeys + 1}
    BY <2>4, AcceptsForm, SwitchesForm, MovesForm DEF Reject
  <2>5. ASSUME ForeignSwitchesOut
        PROVE  faults' \in {faults, faults + 1} /\ rekeys' \in {rekeys, rekeys + 1}
    BY <2>5 DEF ForeignSwitchesOut
  <2> QED
    BY <2>2, <2>3, <2>4, <2>5, StepForms, KexSendForm
<1> QED
  BY <1>1, <1>2 DEF Calm

LEMMA LinkKeep ==
    ASSUME NEW d \in Ends, Link(d), wire'[d] = wire[d], tried'[d] = tried[d],
           got'[Peer(d)] = got[Peer(d)], recv_seq'[Peer(d)] = recv_seq[Peer(d)],
           send_seq'[d] = send_seq[d], in_ctr'[Peer(d)] = in_ctr[Peer(d)],
           out_ctr'[d] = out_ctr[d]
    PROVE  Link(d)'
<1>1. Taken(d)' = Taken(d)
  BY DEF Taken
<1> QED
  BY <1>1 DEF Link

LEMMA PlaceKeep ==
    ASSUME NEW e \in Ends, Place(e), tried'[e] = tried[e], got'[e] = got[e], pc'[e] = pc[e],
           in_key'[e] = in_key[e], out_key'[e] = out_key[e], in_ctr'[e] = in_ctr[e],
           out_ctr'[e] = out_ctr[e], shared'[e] = shared[e], session_id'[e] = session_id[e]
    PROVE  Place(e)'
BY DEF Place, Progress

\* The next packet of the script is sent.
LEMMA LinksPut ==
    ASSUME TypeOK, NEW e \in Ends, Link(e), Link(Peer(e)), NEW p \in Packets, Put(e, p),
           faults' = faults, p.whole = TRUE, p.seq = send_seq[e], p.ctr = out_ctr[e],
           p.type = Script(e, Len(tried[e]) + 1), p.key = KeyOf(Len(tried[e]) + 1),
           p.type \in {"ECDH_INIT", "ECDH_REPLY"} => p.x = 1,
           UNCHANGED <<in_ctr, recv_seq, got>>
    PROVE  /\ Link(e)' /\ Link(Peer(e))'
           /\ Len(tried'[e]) = Len(tried[e]) + 1 /\ tried'[Peer(e)] = tried[Peer(e)]
           /\ out_ctr'[e] = IF p.key = NOKEY THEN out_ctr[e] ELSE out_ctr[e] + Blocks(p)
           /\ out_ctr'[Peer(e)] = out_ctr[Peer(e)]
<1>1. /\ wire \in [Ends -> Seq(Packets)] /\ tried \in [Ends -> Seq(Packets)]
      /\ send_seq \in [Ends -> Nat] /\ Peer(e) \in Ends /\ Peer(e) # e /\ Taken(e) \in Nat
      /\ wire[e] \in Seq(Packets) /\ tried[e] \in Seq(Packets)
  BY PeerFacts, ChannelTyped DEF TypeOK
<1>2. Sent(e, p)
  <2>1. faults \in Nat /\ faults + 1 # faults
    BY DEF TypeOK
  <2> QED
    BY <2>1, Zenon DEF Put, Unsent
<1>3. /\ tried'[e] = Append(tried[e], p) /\ tried'[Peer(e)] = tried[Peer(e)]
      /\ out_ctr'[e] = IF p.key = NOKEY THEN out_ctr[e] ELSE out_ctr[e] + Blocks(p)
      /\ out_ctr'[Peer(e)] = out_ctr[Peer(e)]
  BY <1>1, PutTried
<1>4. wire'[e] = Append(wire[e], p) /\ wire'[Peer(e)] = wire[Peer(e)]
  BY <1>1, <1>2 DEF Sent
<1>5. send_seq'[e] = (send_seq[e] + 1) % SEQ /\ send_seq'[Peer(e)] = send_seq[Peer(e)]
  BY <1>1, <1>2 DEF Sent
<1>6. Link(Peer(e))'
  BY <1>1, <1>3, <1>4, <1>5, LinkKeep
<1>7. Len(tried[e]) \in Nat /\ Len(wire[e]) \in Nat /\ Len(tried'[e]) = Len(tried[e]) + 1
      /\ Len(wire'[e]) = Len(wire[e]) + 1
  BY <1>1, <1>3, <1>4, AppendOf
<1>8. Len(tried[e]) = Taken(e) + Len(wire[e])
      /\ Linked(e, wire[e], Taken(e), recv_seq[Peer(e)], send_seq[e], in_ctr[Peer(e)], out_ctr[e])
  BY DEF Link
<1>9. Taken(e)' = Taken(e)
  BY DEF Taken
<1>10. Linked(e, wire'[e], Taken(e), recv_seq[Peer(e)], send_seq'[e], in_ctr[Peer(e)], out_ctr'[e])
  <2> DEFINE od == IF p.key = NOKEY THEN out_ctr[e] ELSE out_ctr[e] + Blocks(p)
  <2>1. Len(tried[e]) + 1 = Taken(e) + Len(wire[e]) + 1
    BY <1>8
  <2>2. Linked(e, Append(wire[e], p), Taken(e), recv_seq[Peer(e)], (send_seq[e] + 1) % SEQ,
               in_ctr[Peer(e)], od)
    BY <1>1, <1>8, <2>1, LinkedPut, Zenon
  <2>3. out_ctr'[e] = od
    BY <1>3
  <2> QED
    BY <1>4, <1>5, <2>2, <2>3, Zenon
<1>11. Len(tried'[e]) = Taken(e) + Len(wire'[e])
  BY <1>1, <1>7, <1>8
<1>12. Link(e)'
  BY <1>9, <1>10, <1>11 DEF Link
<1> QED
  BY <1>3, <1>6, <1>7, <1>12

\* A packet is taken.
LEMMA LinksTake ==
    ASSUME TypeOK, NEW e \in Ends, Link(e), Link(Peer(e)), Take(e), UNCHANGED <<out_ctr, tried>>,
           in_ctr'[e] = IF First(e).key = NOKEY THEN in_ctr[e] ELSE in_ctr[e] + Blocks(First(e)),
           in_ctr'[Peer(e)] = in_ctr[Peer(e)]
    PROVE  Link(e)' /\ Link(Peer(e))' /\ Len(got'[e]) = Len(got[e]) + 1 /\ got'[Peer(e)] = got[Peer(e)]
<1> DEFINE d == Peer(e)
<1>1. /\ wire \in [Ends -> Seq(Packets)] /\ got \in [Ends -> Seq(Payloads)]
      /\ recv_seq \in [Ends -> Nat] /\ d \in Ends /\ d # e /\ Peer(d) = e /\ Taken(d) \in Nat
      /\ got[e] \in Seq(Payloads)
  BY PeerFacts, ChannelTyped DEF TypeOK
<1>2. /\ wire[d] # <<>> /\ First(e) = wire[d][1] /\ First(e) \in Packets
  BY TakeTyped DEF Take, Incoming
<1>3. /\ wire'[d] = Tail(wire[d]) /\ wire'[e] = wire[e] /\ UNCHANGED send_seq
      /\ recv_seq'[e] = (recv_seq[e] + 1) % SEQ /\ recv_seq'[d] = recv_seq[d]
  BY <1>1 DEF Take
<1>4. got'[e] = Append(got[e], Payload(First(e))) /\ got'[d] = got[d]
  BY <1>1 DEF Take
<1>5. Len(got[e]) \in Nat /\ Len(got'[e]) = Len(got[e]) + 1 /\ Payload(First(e)) \in Payloads
  <2>1. Payload(First(e)) \in Payloads
    BY <1>2, PayloadTyped
  <2> QED
    BY <1>1, <1>4, <2>1, AppendOf
<1> HIDE DEF d
<1>6. Link(e)'
  BY <1>1, <1>3, <1>4, LinkKeep DEF d
<1>7. Taken(d)' = Taken(d) + 1
  BY <1>1, <1>5 DEF Taken
<1>8. Len(tried[d]) = Taken(d) + Len(wire[d])
      /\ Linked(d, wire[d], Taken(d), recv_seq[e], send_seq[d], in_ctr[e], out_ctr[d])
  BY <1>1 DEF Link, d
<1>9. Linked(d, wire'[d], Taken(d) + 1, recv_seq'[e], send_seq[d], in_ctr'[e], out_ctr[d])
  <2> DEFINE ic == IF wire[d][1].key = NOKEY THEN in_ctr[e] ELSE in_ctr[e] + Blocks(wire[d][1])
  <2>1. wire[d] \in Seq(Packets)
    BY <1>1
  <2>2. Linked(d, Tail(wire[d]), Taken(d) + 1, (recv_seq[e] + 1) % SEQ, send_seq[d], ic, out_ctr[d])
    BY <1>1, <1>2, <1>8, <2>1, LinkedTake, Zenon
  <2>3. in_ctr'[e] = ic
    BY <1>2
  <2> QED
    BY <1>3, <2>2, <2>3, Zenon
<1>10. Len(tried[d]) = Taken(d) + 1 + Len(wire'[d])
  <2>1. wire[d] \in Seq(Packets) /\ wire[d] # <<>>
    BY <1>1, <1>2
  <2>2. Len(wire[d]) \in Nat /\ Len(wire'[d]) = Len(wire[d]) - 1
    BY <1>3, <2>1, TailOf
  <2> QED
    BY <1>1, <1>8, <2>2
<1>11. Link(d)'
  <2>1. Link(d)' <=> /\ Linked(d, wire'[d], Taken(d)', recv_seq'[e], send_seq'[d], in_ctr'[e], out_ctr'[d])
                     /\ Len(tried'[d]) = Taken(d)' + Len(wire'[d])
    BY <1>1 DEF Link
  <2> QED
    BY <1>3, <1>7, <1>9, <1>10, <2>1
<1> QED
  BY <1>4, <1>5, <1>6, <1>11 DEF d

\* Where the secret is known, before the keys are used.
Agreed == {"reply", "newkeys", "nkwait"}

LEMMA ProgressSends ==
    ASSUME NEW k \in SendKinds, NEW s, NEW n, <<k[2], s, n>> \in Progress(k[1])
    PROVE  /\ s \in {0, 1, 2} /\ k[3] = Script(k[1], s + 1)
           /\ <<k[4], s + 1, n>> \in Progress(k[1]) /\ (k[4] \in Agreed <=> k[2] \in Agreed)
           /\ k[3] = "ECDH_INIT" => k[2] \notin Agreed
           /\ k[3] = "ECDH_REPLY" => k[2] \in Agreed
BY DEF SendKinds, Progress, Script, Agreed

LEMMA CalmSends ==
    ASSUME TypeOK, CalmInv, Calm, faults' = faults, rekeys' = rekeys,
           NEW k \in SendKinds, KexSend(k), NEW d \in Ends
    PROVE  Link(d)' /\ Place(d)'
<1> DEFINE e == k[1]
           s == Len(tried[e])
           n == Len(got[e])
<1>1. PICK p \in Packets :
         /\ e \in Ends /\ pc[e] = k[2] /\ Put(e, p) /\ p.type = k[3]
         /\ p.key = out_key[e] /\ p.ctr = out_ctr[e] /\ p.whole = TRUE
         /\ p.x = SendX(e, k[3]) /\ p.seq = send_seq[e] /\ pc'[Peer(e)] = pc[Peer(e)]
         /\ UNCHANGED <<foreign, out_key, in_key, shared, session_id, in_ctr, recv_seq, got>>
  BY KexSendFacts
<1>2. Link(e) /\ Link(Peer(e)) /\ Place(e) /\ Place(Peer(e)) /\ Peer(e) \in Ends
  BY <1>1, PeerFacts DEF CalmInv
<1>3. pc'[e] = k[4]
  <2>1. Goto(e, k[4])
    <3>1. faults + 1 # faults
      BY DEF TypeOK
    <3> QED
      BY <3>1, KexSendTyped, Zenon
  <2> QED
    BY <1>1, <2>1 DEF Goto, TypeOK
<1>4. k[2] \notin {"data", "closed"}
  <2>1. rekeys + 1 # rekeys
    BY DEF TypeOK
  <2>2. k[2] # "data"
    BY <2>1 DEF KexSend
  <2>3. k[2] # "closed"
    BY DEF SendKinds
  <2> QED
    BY <2>2, <2>3
<1>5. /\ <<k[2], s, n>> \in Progress(e)
      /\ in_key[e] = NOKEY /\ out_key[e] = NOKEY /\ in_ctr[e] = 0 /\ out_ctr[e] = 0
      /\ shared[e] = (IF k[2] \in Agreed THEN 1 ELSE 0) /\ session_id[e] = shared[e]
  BY <1>1, <1>2, <1>4 DEF Place, Agreed
<1>6. /\ s \in {0, 1, 2} /\ k[3] = Script(e, s + 1)
      /\ <<k[4], s + 1, n>> \in Progress(e) /\ (k[4] \in Agreed <=> k[2] \in Agreed)
      /\ k[3] = "ECDH_INIT" => k[2] \notin Agreed
      /\ k[3] = "ECDH_REPLY" => k[2] \in Agreed
  BY <1>5, ProgressSends
<1>7. p.type \in {"ECDH_INIT", "ECDH_REPLY"} => p.x = 1
  BY <1>1, <1>5, <1>6 DEF SendX
<1>8. p.key = KeyOf(s + 1)
  <2>1. s \in {0, 1, 2}
    BY <1>6
  <2> HIDE DEF s
  <2>2. s + 1 <= 3
    BY <2>1
  <2> QED
    BY <1>1, <1>5, <2>2, Zenon DEF KeyOf
<1>9. /\ Link(e)' /\ Link(Peer(e))'
      /\ Len(tried'[e]) = s + 1 /\ tried'[Peer(e)] = tried[Peer(e)]
      /\ out_ctr'[e] = out_ctr[e] /\ out_ctr'[Peer(e)] = out_ctr[Peer(e)]
  BY <1>1, <1>2, <1>5, <1>6, <1>7, <1>8, LinksPut, ZenonT(30)
<1>10. Place(Peer(e))'
  BY <1>1, <1>2, <1>9, PlaceKeep
<1>11. Place(e)'
  <2>1. <<pc'[e], Len(tried'[e]), Len(got'[e])>> \in Progress(e)
    BY <1>1, <1>3, <1>6, <1>9
  <2>2. shared'[e] = (IF pc'[e] \in Agreed THEN 1 ELSE 0)
    BY <1>1, <1>3, <1>5, <1>6
  <2> QED
    BY <1>1, <1>5, <1>9, <2>1, <2>2 DEF Place, Agreed, Progress
<1> QED
  BY <1>1, <1>9, <1>10, <1>11, PeerFacts

LEMMA CalmData ==
    ASSUME TypeOK, CalmInv, Calm, faults' = faults, NEW e \in Ends, SendData(e), NEW d \in Ends
    PROVE  Link(d)' /\ Place(d)'
<1>1. PICK m \in Messages :
            /\ m.type = "DATA" /\ pc[e] = "data"
            /\ Packet(e, m) \in Packets /\ Put(e, Packet(e, m))
            /\ UNCHANGED control \/ (Goto(e, "failed") /\ faults' = faults + 1)
            /\ UNCHANGED <<foreign, crypto, in_ctr, recv_seq, got, rekeys>>
  BY SendDataTyped, Zenon
<1> DEFINE p == Packet(e, m)
<1>2. /\ p.type = "DATA" /\ p.key = out_key[e] /\ p.ctr = out_ctr[e] /\ p.whole = TRUE
      /\ p.seq = send_seq[e]
  BY <1>1, PacketTyped
<1>3. UNCHANGED pc
  <2>1. faults + 1 # faults
    BY DEF TypeOK
  <2> QED
    BY <1>1, <2>1 DEF control
<1> HIDE DEF p
<1>4. /\ Link(e) /\ Link(Peer(e)) /\ Place(e) /\ Place(Peer(e)) /\ Peer(e) \in Ends
      /\ Len(tried[e]) \in Nat
  BY PeerFacts, ChannelTyped DEF CalmInv
<1>5. /\ Len(tried[e]) >= 3 /\ Len(got[e]) >= 3 /\ in_key[e] = FirstKey /\ out_key[e] = FirstKey
  BY <1>1, <1>4 DEF Place, Progress
<1>6. p.type = Script(e, Len(tried[e]) + 1) /\ p.key = KeyOf(Len(tried[e]) + 1)
  BY <1>2, <1>4, <1>5 DEF Script, KeyOf
<1>7. /\ Link(e)' /\ Link(Peer(e))'
      /\ Len(tried'[e]) = Len(tried[e]) + 1 /\ tried'[Peer(e)] = tried[Peer(e)]
      /\ out_ctr'[Peer(e)] = out_ctr[Peer(e)]
  <2>1. p \in Packets /\ Put(e, p) /\ UNCHANGED <<in_ctr, recv_seq, got>>
        /\ ~(p.type \in {"ECDH_INIT", "ECDH_REPLY"})
    BY <1>1, <1>2 DEF p
  <2> QED
    BY <1>2, <1>4, <1>6, <2>1, LinksPut
<1>8. UNCHANGED <<out_key, in_key, shared, session_id, in_ctr, got>>
  BY <1>1 DEF crypto
<1>9. Place(Peer(e))'
  BY <1>3, <1>4, <1>7, <1>8, PlaceKeep
<1>10. Place(e)'
  <2>1. Len(tried'[e]) >= 3
    BY <1>4, <1>5, <1>7
  <2> QED
    BY <1>1, <1>3, <1>5, <1>8, <2>1 DEF Place
<1> QED
  BY <1>7, <1>9, <1>10, PeerFacts

\* The packet to be taken next is the one the script has.
LEMMA CalmFirst ==
    ASSUME TypeOK, CalmInv, Calm, NEW e \in Ends, Incoming(e)
    PROVE  LET n == Len(got[e])
           IN  /\ n \in Nat /\ First(e) = wire[Peer(e)][1] /\ First(e) \in Packets
               /\ First(e).whole = TRUE /\ First(e).type = Script(Peer(e), n + 1)
               /\ First(e).key = KeyOf(n + 1)
               /\ First(e).type \in {"ECDH_INIT", "ECDH_REPLY"} => First(e).x = 1
               /\ First(e).seq = recv_seq[e] /\ First(e).ctr = in_ctr[e]
<1> DEFINE d == Peer(e)
           W == wire[d]
           n == Len(got[e])
<1>1. d \in Ends /\ Peer(d) = e
  BY PeerFacts
<1>2. W \in Seq(Packets) /\ n \in Nat /\ W # <<>> /\ Taken(d) = n
  BY <1>1, ChannelTyped DEF Taken, Incoming
<1>3. First(e) = W[1] /\ First(e) \in Packets
  BY TakeTyped
<1>4. Linked(d, W, n, recv_seq[e], send_seq[d], in_ctr[e], out_ctr[d])
  BY <1>1, <1>2 DEF CalmInv, Link
<1> HIDE DEF W, n
<1>5. /\ W[1].whole = TRUE /\ W[1].type = Script(d, n + 1) /\ W[1].key = KeyOf(n + 1)
      /\ W[1].type \in {"ECDH_INIT", "ECDH_REPLY"} => W[1].x = 1
      /\ W[1].seq = recv_seq[e] /\ W[1].ctr = in_ctr[e]
  <2>1. 1 \in DOMAIN W
    BY <1>2, TailOf
  <2> QED
    BY <1>4, <2>1 DEF Linked, SeqFrom, CtrFrom
<1> QED
  BY <1>2, <1>3, <1>5 DEF W, n

LEMMA CalmAccepts ==
    ASSUME TypeOK, CalmInv, Calm, NEW e \in Ends, Accepts(e), NEW d \in Ends
    PROVE  Link(d)' /\ Place(d)'
<1> DEFINE n == Len(got[e])
<1>1. /\ Take(e) /\ Incoming(e) /\ Authentic(e, First(e)) /\ Consume(e, First(e))
      /\ UNCHANGED <<out_ctr, out_key, in_key, tried>>
  BY AcceptsForm
<1>2. /\ Link(e) /\ Link(Peer(e)) /\ Place(e) /\ Place(Peer(e))
      /\ Peer(e) \in Ends /\ Peer(e) # e /\ Peer(Peer(e)) = e
      /\ pc \in [Ends -> ClientPCs \cup ServerPCs] /\ shared \in [Ends -> Nat]
      /\ session_id \in [Ends -> Nat] /\ in_ctr \in [Ends -> Nat]
  BY PeerFacts DEF CalmInv, TypeOK
<1>3. /\ n \in Nat /\ First(e) \in Packets /\ First(e).type = Script(Peer(e), n + 1)
      /\ First(e).type \in {"ECDH_INIT", "ECDH_REPLY"} => First(e).x = 1
  BY <1>1, CalmFirst
<1>4. First(e).key = in_key[e]
  BY <1>1 DEF Authentic
<1>5. /\ in_ctr'[e] = IF First(e).key = NOKEY THEN in_ctr[e] ELSE in_ctr[e] + Blocks(First(e))
      /\ in_ctr'[Peer(e)] = in_ctr[Peer(e)]
  BY <1>1, <1>2, <1>3, <1>4, ConsumeTyped
<1>6. Link(e)' /\ Link(Peer(e))' /\ Len(got'[e]) = n + 1 /\ got'[Peer(e)] = got[Peer(e)]
  BY <1>1, <1>2, <1>5, LinksTake
<1>7. /\ pc'[Peer(e)] = pc[Peer(e)] /\ shared'[Peer(e)] = shared[Peer(e)]
      /\ session_id'[Peer(e)] = session_id[Peer(e)]
  <2>1. pc'[Peer(e)] = pc[Peer(e)]
    BY AcceptsGoto
  <2>2. /\ shared' \in {shared, [shared EXCEPT ![e] = First(e).x]}
        /\ session_id' \in {session_id, [session_id EXCEPT ![e] = First(e).x]}
    <3>1. e = "client" \/ e = "server"
      BY DEF Ends
    <3> QED
      BY <3>1, Zenon DEF Accepts, ClientKexinit, ClientReply, ClientData, ClientNewkeys,
         ServerKexinit, ServerEcdh, ServerData, ForeignKexinit, ForeignEcdh, ForeignOther, ServerNewkeys, Agree
  <2> QED
    BY <1>2, <2>1, <2>2
<1>8. Place(Peer(e))'
  BY <1>1, <1>2, <1>5, <1>6, <1>7, PlaceKeep
<1>9. CASE pc[e] = "data"
  <2>1. Len(tried[e]) >= 3 /\ n >= 3 /\ in_key[e] = FirstKey /\ out_key[e] = FirstKey
    BY <1>2, <1>9 DEF Place, Progress
  <2>2. First(e).type = "DATA"
    BY <1>3, <2>1 DEF Script
  <2>3. pc'[e] = "data"
    <3>1. CASE e = "client"
      <4>1. ClientData
        BY <1>9, <3>1 DEF Accepts, ClientKexinit, ClientReply, ClientNewkeys
      <4> QED
        BY <1>2, <2>2, <3>1, <4>1 DEF ClientData, Goto
    <3>2. CASE e = "server"
      <4>1. ServerData
        BY <1>9, <3>2 DEF Accepts, ServerKexinit, ServerEcdh, ForeignKexinit, ForeignEcdh,
           ForeignOther, ServerNewkeys
      <4> QED
        BY <1>2, <2>2, <3>2, <4>1 DEF ServerData, Goto
    <3> QED
      BY <3>1, <3>2 DEF Ends
  <2>4. Len(got'[e]) >= 3
    BY <1>3, <1>6, <2>1
  <2> QED
    BY <1>1, <1>6, <1>8, <2>1, <2>3, <2>4, PeerFacts DEF Place
<1>10. CASE pc[e] # "data"
  <2>1. pc[e] # "closed"
    BY AcceptsForm DEF Receiving
  <2>2. /\ <<pc[e], Len(tried[e]), n>> \in Progress(e)
        /\ in_key[e] = NOKEY /\ out_key[e] = NOKEY /\ in_ctr[e] = 0 /\ out_ctr[e] = 0
        /\ shared[e] = (IF pc[e] \in Agreed THEN 1 ELSE 0) /\ session_id[e] = shared[e]
    BY <1>2, <1>10, <2>1 DEF Place, Agreed
  <2> DEFINE Goal == /\ <<pc'[e], Len(tried[e]), n + 1>> \in Progress(e)
                     /\ shared'[e] = (IF pc'[e] \in Agreed THEN 1 ELSE 0)
                     /\ session_id'[e] = shared'[e]
  <2>3. ASSUME e = "client" PROVE Goal
    <3>0. First(e).type = Script("server", n + 1)
      BY <1>3, <2>3 DEF Peer
    <3>1. CASE ClientKexinit
      <4>1. pc[e] = "kexwait" /\ Len(tried[e]) = 1 /\ n = 0
        BY <2>2, <2>3, <3>1 DEF ClientKexinit, Progress
      <4>2. First(e).type = "KEXINIT"
        BY <3>0, <4>1 DEF Script
      <4>3. pc'[e] = "ecdh" /\ UNCHANGED <<shared, session_id>>
        BY <1>2, <2>3, <3>1, <4>2 DEF ClientKexinit, Goto
      <4> QED
        BY <2>2, <2>3, <4>1, <4>3 DEF Progress, Agreed
    <3>2. CASE ClientReply
      <4>1. pc[e] = "replywait" /\ Len(tried[e]) = 2 /\ n = 1
        BY <2>2, <2>3, <3>2 DEF ClientReply, Progress
      <4>2. First(e).type = "ECDH_REPLY" /\ First(e).x = 1
        <5>1. First(e).type = "ECDH_REPLY"
          BY <3>0, <4>1 DEF Script
        <5> QED
          BY <1>3, <5>1
      <4>3. pc'[e] = "newkeys" /\ shared'[e] = 1 /\ session_id'[e] = 1
        BY <1>2, <2>3, <3>2, <4>2 DEF ClientReply, Goto, Agree
      <4> QED
        BY <2>3, <4>1, <4>3 DEF Progress, Agreed
    <3>3. CASE ClientNewkeys /\ ~(First(e).type = "NEWKEYS")
      <4>1. n = 2
        BY <2>2, <2>3, <3>3 DEF ClientNewkeys, Progress
      <4> QED
        BY <3>0, <3>3, <4>1 DEF Script
    <3> QED
      BY <1>10, <2>3, <3>1, <3>2, <3>3 DEF Accepts, ClientData, Established
  <2>4. ASSUME e = "server" PROVE Goal
    <3>0. First(e).type = Script("client", n + 1)
      BY <1>3, <2>4 DEF Peer
    <3>1. CASE ServerKexinit
      <4>1. pc[e] = "kexinit" /\ Len(tried[e]) = 0 /\ n = 0
        BY <2>2, <2>4, <3>1 DEF ServerKexinit, Progress
      <4>2. First(e).type = "KEXINIT"
        BY <3>0, <4>1 DEF Script
      <4>3. pc'[e] = "kexreply" /\ UNCHANGED <<shared, session_id>>
        BY <1>2, <2>4, <3>1, <4>2 DEF ServerKexinit, Goto
      <4> QED
        BY <2>2, <2>4, <4>1, <4>3 DEF Progress, Agreed
    <3>2. CASE ServerEcdh
      <4>1. pc[e] = "ecdh" /\ Len(tried[e]) = 1 /\ n = 1
        BY <2>2, <2>4, <3>2 DEF ServerEcdh, Progress
      <4>2. First(e).type = "ECDH_INIT" /\ First(e).x = 1
        <5>1. First(e).type = "ECDH_INIT"
          BY <3>0, <4>1 DEF Script
        <5> QED
          BY <1>3, <5>1
      <4>3. pc'[e] = "reply" /\ shared'[e] = 1 /\ session_id'[e] = 1
        BY <1>2, <2>4, <3>2, <4>2 DEF ServerEcdh, Goto, Agree
      <4> QED
        BY <2>4, <4>1, <4>3 DEF Progress, Agreed
    <3>3. CASE ServerNewkeys /\ ~(First(e).type = "NEWKEYS")
      <4>1. n = 2
        BY <2>2, <2>4, <3>3 DEF ServerNewkeys, Progress
      <4> QED
        BY <3>0, <3>3, <4>1 DEF Script
    <3>4. CASE ForeignKexinit \/ ForeignEcdh \/ ForeignOther
      BY <2>2, <2>4, <3>4 DEF ForeignKexinit, ForeignEcdh, ForeignOther, Progress
    <3> QED
      BY <1>10, <2>4, <3>1, <3>2, <3>3, <3>4 DEF Accepts, ServerData, Established
  <2>5. Goal
    BY <2>3, <2>4 DEF Ends
  <2>6. Place(e)'
    BY <1>1, <1>4, <1>5, <1>6, <2>2, <2>5 DEF Place, Agreed, Progress
  <2> QED
    BY <1>6, <1>8, <2>6, PeerFacts
<1> QED
  BY <1>9, <1>10

LEMMA CalmSwitches ==
    ASSUME TypeOK, CalmInv, Calm, NEW e \in Ends, Switches(e), NEW d \in Ends
    PROVE  Link(d)' /\ Place(d)'
<1>1. /\ Take(e) /\ Authentic(e, First(e)) /\ pc[e] \in {"nkwait", "x_nkwait"} /\ Goto(e, "data")
      /\ in_key' = [in_key EXCEPT ![e] = in_key'[e]] /\ in_ctr' = [in_ctr EXCEPT ![e] = 0]
      /\ \/ /\ pc[e] = "nkwait" /\ out_key' = [out_key EXCEPT ![e] = KeyBlock(e)]
            /\ in_key'[e] = KeyBlock(e) /\ out_ctr' = [out_ctr EXCEPT ![e] = 0]
         \/ pc[e] = "x_nkwait" /\ UNCHANGED <<out_key, out_ctr>>
      /\ UNCHANGED <<shared, session_id, tried>>
  BY SwitchesForm, Zenon
<1>2. /\ Link(e) /\ Link(Peer(e)) /\ Place(e) /\ Place(Peer(e)) /\ e \in {"client", "server"}
      /\ Peer(e) \in Ends /\ Peer(e) # e
      /\ pc \in [Ends -> ClientPCs \cup ServerPCs] /\ in_key \in [Ends -> KeySet]
      /\ out_key \in [Ends -> KeySet] /\ in_ctr \in [Ends -> Nat] /\ out_ctr \in [Ends -> Nat]
  BY PeerFacts DEF CalmInv, TypeOK, Ends
<1>3. /\ pc[e] = "nkwait" /\ Len(tried[e]) = 3 /\ Len(got[e]) = 2
      /\ in_key[e] = NOKEY /\ in_ctr[e] = 0 /\ out_ctr[e] = 0
      /\ shared[e] = 1 /\ session_id[e] = 1
  BY <1>1, <1>2 DEF Place, Progress
<1>4. KeyBlock(e) = FirstKey
  BY <1>3 DEF KeyBlock, FirstKey
<1>5. /\ pc'[e] = "data" /\ pc'[Peer(e)] = pc[Peer(e)]
      /\ in_key'[e] = FirstKey /\ out_key'[e] = FirstKey
      /\ in_key'[Peer(e)] = in_key[Peer(e)] /\ out_key'[Peer(e)] = out_key[Peer(e)]
  BY <1>1, <1>2, <1>3, <1>4 DEF Goto
<1>6. in_ctr' = in_ctr /\ out_ctr' = out_ctr
  <2>1. in_ctr' = [in_ctr EXCEPT ![e] = 0] /\ out_ctr' = [out_ctr EXCEPT ![e] = 0]
    BY <1>1, <1>3
  <2>2. \A f \in [Ends -> Nat] : f[e] = 0 => [f EXCEPT ![e] = 0] = f
    OBVIOUS
  <2> QED
    BY <1>2, <1>3, <2>1, <2>2
<1>7. First(e).key = NOKEY
  BY <1>1, <1>3 DEF Authentic
<1>8. Link(e)' /\ Link(Peer(e))' /\ Len(got'[e]) = Len(got[e]) + 1 /\ got'[Peer(e)] = got[Peer(e)]
  BY <1>1, <1>2, <1>6, <1>7, LinksTake
<1>9. Place(Peer(e))'
  BY <1>1, <1>2, <1>5, <1>6, <1>8, PlaceKeep
<1>10. Place(e)'
  <2>1. Len(tried'[e]) >= 3 /\ Len(got'[e]) >= 3
    BY <1>1, <1>3, <1>8
  <2> QED
    BY <1>5, <2>1 DEF Place
<1> QED
  BY <1>8, <1>9, <1>10, PeerFacts

\* Nothing is refused.
LEMMA CalmNoReject ==
    ASSUME TypeOK, CalmInv, Calm, NEW e \in Ends, Reject(e)
    PROVE  FALSE
<1> DEFINE n == Len(got[e])
<1>1. Receiving(e) /\ Incoming(e) /\ ~Authentic(e, First(e)) /\ Place(e)
  BY DEF Reject, CalmInv
<1>2. /\ n \in Nat /\ First(e).whole = TRUE /\ First(e).key = KeyOf(n + 1)
      /\ First(e).seq = recv_seq[e] /\ First(e).ctr = in_ctr[e]
  BY <1>1, CalmFirst
<1>3. pc[e] # "closed"
  BY <1>1 DEF Receiving
<1>4. CASE pc[e] = "data"
  <2>1. n >= 3 /\ in_key[e] = FirstKey
    BY <1>1, <1>4 DEF Place, Progress
  <2>2. ~(n + 1 <= 3)
    BY <1>2, <2>1
  <2> QED
    BY <1>1, <1>2, <2>1, <2>2 DEF Authentic, KeyOf
<1>5. CASE pc[e] # "data"
  <2>1. <<pc[e], Len(tried[e]), n>> \in Progress(e) /\ in_key[e] = NOKEY
    BY <1>1, <1>3, <1>5 DEF Place
  <2>2. n + 1 <= 3
    BY <2>1 DEF Progress
  <2> QED
    BY <1>1, <1>2, <2>1, <2>2 DEF Authentic, KeyOf
<1> QED
  BY <1>4, <1>5

LEMMA CalmStep == TypeOK /\ CalmInv /\ [Next]_vars => CalmInv'
<1> SUFFICES ASSUME TypeOK, CalmInv, [Next]_vars, Calm'
             PROVE  ~rekeying' /\ \A e \in Ends : Link(e)' /\ Place(e)'
  BY DEF CalmInv
<1>0. /\ Calm /\ faults' = faults /\ rekeys' = rekeys /\ rekeys \in Nat
      /\ ~rekeying
  BY CalmBack DEF CalmInv, TypeOK, Calm, vars
<1>9. ~rekeying'
  <2>1. rekeys + 1 # rekeys
    BY <1>0
  <2> QED
    BY <1>0, <2>1, RekeyBegins
<1> SUFFICES ASSUME NEW d \in Ends PROVE Link(d)' /\ Place(d)'
  BY <1>9
<1>1. CASE UNCHANGED vars
  <2>1. /\ UNCHANGED <<pc, shared, session_id, out_key, in_key, out_ctr, in_ctr, send_seq, recv_seq>>
        /\ UNCHANGED <<wire, tried, got, faults, rekeys>>
    BY <1>1 DEF vars, control, crypto, counters
  <2>2. Link(d) /\ Place(d)
    BY <1>0 DEF CalmInv
  <2> QED
    BY <2>1, <2>2, LinkKeep, PlaceKeep
<1>2. CASE Next
  <2>0. /\ Calm /\ faults' = faults /\ rekeys' = rekeys
        /\ faults + 1 # faults /\ rekeys + 1 # rekeys
    <3>1. faults \in Nat /\ rekeys \in Nat
      BY DEF TypeOK
    <3>2. faults + 1 # faults /\ rekeys + 1 # rekeys
      BY <3>1
    <3> QED
      BY <1>2, <3>2, CalmBack
  <2>1. ASSUME NEW k \in SendKinds, KexSend(k) PROVE Link(d)' /\ Place(d)'
    BY <2>0, <2>1, CalmSends
  <2>2. ASSUME NEW e \in Ends, SendData(e) PROVE Link(d)' /\ Place(d)'
    BY <2>0, <2>2, CalmData
  <2>3. ASSUME NEW e \in Ends, Accepts(e) PROVE Link(d)' /\ Place(d)'
    BY <2>0, <2>3, CalmAccepts
  <2>4. ASSUME NEW e \in Ends, Switches(e) PROVE Link(d)' /\ Place(d)'
    BY <2>0, <2>4, CalmSwitches
  <2>5. ASSUME NEW e \in Ends, Moves(e) PROVE Link(d)' /\ Place(d)'
    <3>1. Goto(e, "closed") /\ UNCHANGED <<crypto, counters, wire, tried, got>>
      BY <1>0, <2>0, <2>5, MovesForm
    <3>2. /\ UNCHANGED <<shared, session_id, out_key, in_key, out_ctr, in_ctr, send_seq, recv_seq>>
          /\ UNCHANGED <<wire, tried, got>>
      BY <3>1 DEF crypto, counters
    <3>3. Link(d) /\ Place(d)
      BY <2>0 DEF CalmInv
    <3>4. Link(d)'
      BY <3>2, <3>3, LinkKeep
    <3>5. CASE d = e
      <4>1. pc'[d] = "closed"
        BY <3>1, <3>5 DEF Goto, TypeOK
      <4> QED
        BY <3>4, <4>1 DEF Place
    <3>6. CASE d # e
      <4>1. pc'[d] = pc[d]
        BY <3>1, <3>6 DEF Goto, TypeOK
      <4> QED
        BY <3>2, <3>3, <3>4, <4>1, PlaceKeep
    <3> QED
      BY <3>5, <3>6
  <2>6. ASSUME NEW e \in Ends, Reject(e) PROVE FALSE
    BY <2>0, <2>6, CalmNoReject
  <2>7. ASSUME ForeignSwitchesOut PROVE FALSE
    <3>1. pc["server"] = "x_switch" /\ "server" \in Ends
      BY <2>7 DEF ForeignSwitchesOut, Ends
    <3> QED
      BY <2>0, <3>1 DEF CalmInv, Place, Progress
  <2> QED
    BY <1>2, <2>1, <2>2, <2>3, <2>4, <2>5, <2>6, <2>7, StepForms, KexSendForm
<1> QED
  BY <1>1, <1>2

LEMMA CalmInit == Init => CalmInv
<1> SUFFICES ASSUME Init, NEW e \in Ends PROVE Link(e) /\ Place(e)
  BY DEF CalmInv, Init
<1>1. /\ wire[e] = <<>> /\ tried[e] = <<>> /\ got[e] = <<>> /\ got[Peer(e)] = <<>>
      /\ recv_seq[Peer(e)] = 0 /\ send_seq[e] = 0 /\ in_ctr[Peer(e)] = 0 /\ out_ctr[e] = 0
      /\ in_ctr[e] = 0 /\ in_key[e] = NOKEY /\ out_key[e] = NOKEY /\ pc[e] = "kexinit"
      /\ shared[e] = 0 /\ session_id[e] = 0
  BY PeerFacts DEF Init
<1>2. Linked(e, <<>>, 0, 0, 0, 0, 0)
  BY DEF Linked, SeqFrom, CtrFrom
<1>3. Link(e)
  BY <1>1, <1>2 DEF Link, Taken
<1>4. Place(e)
  BY <1>1 DEF Place, Progress
<1> QED
  BY <1>3, <1>4

\* As long as send() and recv() work and keys are exchanged once, no packet is
\* refused, for any payloads and any number of them: padding, counters, sequence
\* numbers with their wrap-around and the change of keys agree at both ends.
THEOREM NothingRefused == Spec => []NoSpuriousDrop
<1>1. CalmInv => NoSpuriousDrop
  BY DEF CalmInv, Calm, Place, Progress, NoSpuriousDrop
<1>2. Spec => []CalmInv
  BY CalmInit, CalmStep, TransportTypeCorrect, PTL DEF Spec
<1> QED
  BY <1>1, <1>2, PTL
=============================================================================
