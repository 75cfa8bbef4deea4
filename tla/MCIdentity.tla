----------------------------- MODULE MCIdentity -----------------------------
(* Three invocations of noxsshd and three clients, two-byte seeds, one power *)
(* loss and one append that goes wrong: one invocation creates the seed, one *)
(* reads it before it is durable, one comes after the loss and makes         *)
(* another; the clients meet both keys, together or one after the other.     *)
EXTENDS HostTrust, TLC

Symmetric == Permutations(Invocations) \cup Permutations(Clients)
=============================================================================
