-------------------------- MODULE HostTrustProofs ---------------------------
(***************************************************************************)
(* The host identity and the clients' trust in it, for any number of       *)
(* invocations and clients, any seed length and any number of power        *)
(* losses.  First the seed: the creator of the file owns its name, an      *)
(* identity created with success lasts, what is returned is complete, and  *)
(* a synced seed is retained.  Then the known_hosts file and both          *)
(* together: the first record stays, a key is seen for the first time      *)
(* once, and a host whose keys were made with success raises no false      *)
(* alarm.                                                                  *)
(***************************************************************************)
EXTENDS HostTrust, TLAPS, WellFoundedInduction

(* The seed.                                                               *)

\* Invocation k is past its O_EXCL open.  An invocation never goes back, so
\* an inode that somebody can name or has open has a creator of this kind.
Made(k) ==
    \/ pc[k] \in {"write", "sync", "dirsync", "remove", "failed", "unsynced", "killed"}
    \/ pc[k] = "ok" /\ seed[k] = k

NamedAreMade ==
    /\ entry # NONE => Made(entry)
    /\ diskEntry # NONE => Made(diskEntry)
    /\ \A p \in Invocations : /\ fd[p] # NONE => Made(fd[p])
                              /\ pc[p] = "ok" => Made(seed[p])

\* An invocation reads through a descriptor it opened, and while it creates
\* the file the seed in its buffer is its own.
BufferMatchesPlace ==
    \A p \in Invocations :
        /\ pc[p] = "read" => fd[p] # NONE
        /\ pc[p] \in {"create", "write", "sync", "dirsync"} => seed[p] = p

\* The data is whole before it is synced, and synced before its directory.
SyncOrder ==
    \A p \in Invocations :
        /\ pc[p] \in {"sync", "dirsync"} => size[p] = LEN
        /\ pc[p] = "dirsync" => disk[p] = LEN

\* The inductive invariant.
SeedInv ==
    /\ TypeOK /\ CreatorOwnsName /\ CreatedIsDurable /\ ReturnedIsComplete
    /\ NamedAreMade /\ BufferMatchesPlace /\ SyncOrder

USE HostSeedAssumption

LEMMA InitSeedInv == Init => SeedInv
BY DEF Init, SeedInv, TypeOK, CreatorOwnsName, CreatedIsDurable, ReturnedIsComplete,
       NamedAreMade, Made, BufferMatchesPlace, SyncOrder, PCs, Returned

\* Nobody is unmade: a step of an invocation only adds to the makers.
LEMMA MadeStable ==
    ASSUME SeedInv, Next, NEW k \in Invocations, Made(k)
    PROVE  Made(k)'
<1> USE DEF SeedInv, TypeOK, BufferMatchesPlace, Made, Goto, files
<1>1. ASSUME NEW p \in Invocations, Invocation(p)
      PROVE  Made(k)'
  <2>1. CASE Start(p) \/ Fails(p) \/ OpenExisting(p) \/ OpenMissing(p)
    BY <2>1 DEF Start, Fails, OpenExisting, OpenMissing
  <2>2. CASE Create(p) \/ CreateExists(p) \/ Write(p) \/ WriteFails(p)
    BY <2>2 DEF Create, CreateExists, Write, WriteFails
  <2>3. CASE Sync(p) \/ SyncFails(p) \/ Remove(p)
    BY <2>3 DEF Sync, SyncFails, Remove
  <2>4. CASE DirSync(p) \/ DirSyncFails(p) \/ Reopen(p) \/ Read(p)
    BY <2>4 DEF DirSync, DirSyncFails, Reopen, Read
  <2> QED
    BY <1>1, <2>1, <2>2, <2>3, <2>4 DEF Invocation
<1>2. ASSUME NEW p \in Invocations, Kill(p)
      PROVE  Made(k)'
  BY <1>2 DEF Kill
<1>3. CASE PowerLoss
  BY <1>3 DEF PowerLoss, Running, Returned
<1> QED
  BY <1>1, <1>2, <1>3 DEF Next

\* The name and the descriptors stand for inodes that were created, and
\* so does every seed that is returned.
LEMMA NamedStep ==
    ASSUME SeedInv, Next
    PROVE  NamedAreMade'
<1>1. \A k \in Invocations : Made(k) => Made(k)'
  BY MadeStable
<1> USE DEF SeedInv, TypeOK, NamedAreMade
<1>2. \A q \in Invocations : pc[q] = "ok" => seed[q] \in Invocations
  BY DEF ReturnedIsComplete
<1>3. ASSUME NEW p \in Invocations, Invocation(p)
      PROVE  NamedAreMade'
  <2>1. CASE Create(p)
    <3>1. Made(p)'
      BY <2>1 DEF Create, Made, Goto
    <3> QED
      BY <1>1, <2>1, <3>1, <1>2 DEF Create, Made, Goto
  <2>2. CASE ~Create(p)
    <3>1. entry' \in {entry, NONE} /\ diskEntry' \in {diskEntry, entry}
      BY <1>3, <2>2 DEF Invocation, Start, Fails, OpenExisting, OpenMissing, CreateExists,
           Write, WriteFails, Sync, SyncFails, Remove, DirSync, DirSyncFails, Reopen,
           Read, files
    <3>2. \A q \in Invocations : fd'[q] \in {fd[q], entry}
      BY <1>3, <2>2 DEF Invocation, Start, Fails, OpenExisting, OpenMissing, CreateExists,
           Write, WriteFails, Sync, SyncFails, Remove, DirSync, DirSyncFails, Reopen,
           Read, files
    <3>3. \A q \in Invocations : pc'[q] = "ok" =>
             \/ seed'[q] = q
             \/ seed'[q] = seed[q] /\ pc[q] = "ok"
             \/ seed'[q] = fd[q] /\ fd[q] # NONE
      BY <1>3, <2>2 DEF Invocation, Start, Fails, OpenExisting, OpenMissing, CreateExists,
           Write, WriteFails, Sync, SyncFails, Remove, DirSync, DirSyncFails, Reopen,
           Read, Goto, BufferMatchesPlace
    <3>4. \A q \in Invocations : pc'[q] = "ok" /\ seed'[q] = q => Made(q)'
      BY DEF Made
    <3>5. \A q \in Invocations : (pc[q] = "ok" => Made(seed[q]))'
      BY <1>1, <3>3, <3>4, <1>2 DEF Made
    <3> QED
      BY <1>1, <3>1, <3>2, <3>5 DEF Made
  <2> QED
    BY <2>1, <2>2
<1>4. ASSUME NEW p \in Invocations, Kill(p)
      PROVE  NamedAreMade'
  BY <1>1, <1>4, <1>2 DEF Kill, Running, Goto, files, Made
<1>5. CASE PowerLoss
  BY <1>1, <1>5, <1>2 DEF PowerLoss, Running, Made
<1> QED
  BY <1>3, <1>4, <1>5 DEF Next

LEMMA NextSeedInv ==
    ASSUME SeedInv, [Next]_vars
    PROVE  SeedInv'
<1> USE DEF SeedInv, TypeOK, CreatorOwnsName, CreatedIsDurable, ReturnedIsComplete,
            BufferMatchesPlace, SyncOrder, PCs, Returned, Goto, files
<1>1. ASSUME NEW p \in Invocations, Invocation(p)
      PROVE  SeedInv'
  <2>0. NamedAreMade'
    BY <1>1, NamedStep DEF Next
  <2>1. CASE Start(p)
    BY <2>0, <2>1 DEF Start
  <2>2. CASE Fails(p)
    BY <2>0, <2>2 DEF Fails
  <2>3. CASE OpenExisting(p)
    BY <2>0, <2>3 DEF OpenExisting
  <2>4. CASE OpenMissing(p)
    BY <2>0, <2>4 DEF OpenMissing
  <2>5. CASE Create(p)
    BY <2>0, <2>5 DEF Create
  <2>6. CASE CreateExists(p)
    BY <2>0, <2>6 DEF CreateExists
  <2>7. CASE Write(p)
    <3>1. PICK n \in 1..(LEN - size[p]) : size' = [size EXCEPT ![p] = @ + n]
      BY <2>7 DEF Write
    <3>2. size'[p] \in 0..LEN /\ size'[p] > size[p]
      BY <3>1
    <3> QED
      BY <2>0, <2>7, <3>1, <3>2 DEF Write
  <2>8. CASE WriteFails(p)
    BY <2>0, <2>8 DEF WriteFails
  <2>9. CASE Sync(p)
    BY <2>0, <2>9 DEF Sync
  <2>10. CASE SyncFails(p)
    BY <2>0, <2>10 DEF SyncFails
  <2>11. CASE Remove(p)
    BY <2>0, <2>11 DEF Remove
  <2>12. CASE DirSync(p)
    BY <2>0, <2>12 DEF DirSync
  <2>13. CASE DirSyncFails(p)
    BY <2>0, <2>13 DEF DirSyncFails
  <2>14. CASE Reopen(p)
    BY <2>0, <2>14 DEF Reopen
  <2>15. CASE Read(p)
    \* What p reads it did not make, for it is not past its own O_EXCL open.
    <3>1. fd[p] \in Invocations /\ fd[p] # p
      BY <2>15 DEF Read, NamedAreMade, Made
    <3> QED
      BY <2>0, <2>15, <3>1 DEF Read
  <2> QED
    BY <1>1, <2>1, <2>2, <2>3, <2>4, <2>5, <2>6, <2>7, <2>8, <2>9, <2>10, <2>11, <2>12,
       <2>13, <2>14, <2>15 DEF Invocation
<1>2. ASSUME NEW p \in Invocations, Kill(p)
      PROVE  SeedInv'
  BY <1>2, NamedStep DEF Kill, Running, Next
<1>3. CASE PowerLoss
  <2>1. NamedAreMade'
    BY <1>3, NamedStep DEF Next
  <2>2. \A p \in Invocations : /\ pc'[p] \in Returned \cup {"idle", "killed"}
                               /\ pc'[p] \in Returned => pc'[p] = pc[p]
    BY <1>3 DEF PowerLoss, Running
  <2>3. PICK n \in [Invocations -> 0..LEN] :
           /\ \A p \in Invocations : n[p] \in disk[p]..size[p]
           /\ size' = n
           /\ disk' = n
    BY <1>3 DEF PowerLoss
  <2>4. TypeOK'
    BY <1>3, <2>2, <2>3 DEF PowerLoss
  <2>5. CreatedIsDurable'
    BY <1>3, <2>2, <2>3 DEF PowerLoss
  <2>6. ReturnedIsComplete'
    BY <1>3, <2>2 DEF PowerLoss
  <2> QED
    BY <2>1, <2>2, <2>4, <2>5, <2>6
<1>4. CASE UNCHANGED vars
  BY <1>4 DEF vars, NamedAreMade, Made
<1> QED
  BY <1>1, <1>2, <1>3, <1>4 DEF Next

\* The inductive invariant holds through failing calls, kills and power losses
\* of any number of host_seed() calls that run at once.
THEOREM SeedInvariant == Spec => []SeedInv
BY InitSeedInv, NextSeedInv, PTL DEF Spec

\* Types, and nothing on the disk that was not written.
THEOREM TypeCorrect == Spec => []TypeOK
<1>1. SeedInv => TypeOK
  BY DEF SeedInv
<1> QED
  BY <1>1, SeedInvariant, PTL

\* The unlinkat() of a failed creation goes by name; it never removes a seed
\* that another invocation made.
THEOREM NameOwned == Spec => []CreatorOwnsName
<1>1. SeedInv => CreatorOwnsName
  BY DEF SeedInv
<1> QED
  BY <1>1, SeedInvariant, PTL

\* An identity created with success outlives failures, kills and power losses.
THEOREM IdentityDurable == Spec => []CreatedIsDurable
<1>1. SeedInv => CreatedIsDurable
  BY DEF SeedInv
<1> QED
  BY <1>1, SeedInvariant, PTL

\* Two invocations never both create an identity with success.
OneIdentity ==
    \A p, q \in Invocations :
        pc[p] = "ok" /\ seed[p] = p /\ pc[q] = "ok" /\ seed[q] = q => p = q

\* At most one identity is created with success, however many invocations run
\* host_seed() at once and whatever fails.
THEOREM IdentityUnique == Spec => []OneIdentity
<1>1. SeedInv => OneIdentity
  BY DEF SeedInv, CreatedIsDurable, OneIdentity
<1> QED
  BY <1>1, SeedInvariant, PTL

\* What host_seed() returned with success is complete until a power loss.
THEOREM SeedComplete == Spec => []ReturnedIsComplete
<1>1. SeedInv => ReturnedIsComplete
  BY DEF SeedInv
<1> QED
  BY <1>1, SeedInvariant, PTL

\* A seed whose data was synced stays when its directory cannot be.
LEMMA RetainedStep ==
    ASSUME SeedInv, [Next]_vars, NEW p \in Invocations,
           pc[p] \in {"dirsync", "unsynced"}, entry = p, losses' = losses
    PROVE  entry' = p
<1> USE DEF SeedInv, TypeOK, CreatorOwnsName, files
<1>1. ASSUME NEW q \in Invocations, Invocation(q)
      PROVE  entry' = p
  BY <1>1 DEF Invocation, Start, Fails, OpenExisting, OpenMissing, Create, CreateExists,
       Write, WriteFails, Sync, SyncFails, Remove, DirSync, DirSyncFails, Reopen, Read
<1>2. ASSUME NEW q \in Invocations, Kill(q)
      PROVE  entry' = p
  BY <1>2 DEF Kill
<1>3. CASE PowerLoss
  BY <1>3 DEF PowerLoss
<1>4. CASE UNCHANGED vars
  BY <1>4 DEF vars
<1> QED
  BY <1>1, <1>2, <1>3, <1>4 DEF Next

\* docs/server.md: nothing short of a power loss removes a complete seed whose
\* directory sync failed, so that the host does not change its identity.
THEOREM SeedStays == Spec => SeedRetained
<1>1. SeedInv /\ [Next]_vars
        => [\A p \in Invocations :
              /\ pc[p] \in {"dirsync", "unsynced"} /\ entry = p
              /\ losses' = losses
              => entry' = p]_vars
  BY RetainedStep
<1> QED
  BY <1>1, SeedInvariant, PTL DEF Spec, SeedRetained

----------------------------------------------------------------------------
(* The known_hosts file, and both together.                               *)

Lines == Keys \cup {JUNK, GARBLED}

KHTypeOK ==
    /\ known_hosts \in Seq(Lines)
    /\ unended \in BOOLEAN
    /\ unended => known_hosts # <<>>
    /\ verdict \in [Clients -> Verdicts]
    /\ shown \in [Clients -> Keys \cup {NOKEY}]
    /\ witnesses \in [Clients -> SUBSET Clients]
    /\ torn \in 0..MaxTorn

\* A client beyond "idle" was shown a key.
ShownKey == \A c \in Clients : verdict[c] # "idle" => shown[c] \in Keys

\* A key in the file is one that some client saved, and a client that saved
\* left a record behind.
LinesSaved ==
    /\ \A i \in 1..Len(known_hosts) : known_hosts[i] \in Keys =>
         \E d \in Clients : verdict[d] = "saved" /\ shown[d] = known_hosts[i]
    /\ Saved # {} => Record(known_hosts) # NOKEY

\* A client that saw the record of another decided by it, at once.
WitnessesDecide ==
    \A c \in Clients :
        /\ \A d \in witnesses[c] : verdict[d] = "saved"
        /\ witnesses[c] # {} => verdict[c] \in {"matched", "forced", "alarmed"}

\* The record that alarmed a client is still there, and still another key.
AlarmStands ==
    \A c \in Clients :
        verdict[c] = "alarmed" => Record(known_hosts) \notin {NOKEY, shown[c]}

\* The inductive invariant of the clients and their file.
TrustInv ==
    /\ KHTypeOK /\ ShownKey /\ LinesSaved /\ WitnessesDecide /\ AlarmStands
    /\ FirstUseBinds

----------------------------------------------------------------------------
(* The record of a file.                                                   *)

\* A set of indexes that is not empty has a least one.
LEMMA LeastIndex ==
    ASSUME NEW S \in SUBSET Nat, S # {}
    PROVE  /\ Min(S) \in S
           /\ \A j \in S : Min(S) <= j
<1> DEFINE Less == OpToRel(<, Nat)
<1>1. \A a, b \in Nat : a < b => <<a, b>> \in Less
  BY Zenon DEF OpToRel
<1>2. IsWellFoundedOn(Less, Nat)
  BY NatLessThanWellFounded
<1> HIDE DEF Less
<1>3. PICK x \in S : \A y \in S : ~(<<y, x>> \in Less)
  BY <1>2, WFMin
<1>4. ASSUME NEW y \in S
      PROVE  x <= y
  <2>1. x \in Nat /\ y \in Nat
    OBVIOUS
  <2>2. ~(y < x)
    BY <1>1, <1>3, <2>1, Zenon
  <2> QED
    BY <2>1, <2>2
<1> QED
  BY <1>4 DEF Min

\* When there is a record it is a line, the first that is not junk.
LEMMA RecordIsLine ==
    ASSUME NEW lines \in Seq(Lines)
    PROVE  /\ Record(lines) # NOKEY <=> \E i \in 1..Len(lines) : lines[i] # JUNK
           /\ Record(lines) # NOKEY =>
                \E i \in 1..Len(lines) :
                    /\ lines[i] # JUNK /\ Record(lines) = lines[i]
                    /\ \A j \in 1..(i - 1) : lines[j] = JUNK
<1> USE KnownHostsAssumption DEF Lines
<1> DEFINE R == Records(lines)
<1>1. R \in SUBSET Nat /\ R = {i \in 1..Len(lines) : lines[i] # JUNK}
  BY DEF Records
<1> HIDE DEF R
<1>2. CASE R = {}
  BY <1>1, <1>2 DEF Record, R
<1>3. CASE R # {}
  <2>1. Min(R) \in R /\ \A j \in R : Min(R) <= j
    BY <1>1, <1>3, LeastIndex
  <2>2. Record(lines) = lines[Min(R)]
    BY <1>3 DEF Record, R
  <2>3. \A j \in 1..(Min(R) - 1) : lines[j] = JUNK
    BY <1>1, <2>1
  <2>4. Min(R) \in 1..Len(lines) /\ lines[Min(R)] # JUNK
    BY <1>1, <2>1
  <2>5. lines[Min(R)] # NOKEY
    BY <2>4
  <2> QED
    BY <2>2, <2>3, <2>4, <2>5
<1> QED
  BY <1>2, <1>3

\* Two files with the same lines up to the first record of one have the same
\* record.
LEMMA SameRecord ==
    ASSUME NEW old \in Seq(Lines), NEW new \in Seq(Lines),
           Record(old) # NOKEY, Len(old) <= Len(new),
           \A i \in 1..Len(old) : old[i] # JUNK => new[i] = old[i],
           \A i \in 1..(Len(old) - 1) : new[i] = old[i]
    PROVE  Record(new) = Record(old)
<1>1. PICK i \in 1..Len(old) : /\ old[i] # JUNK /\ Record(old) = old[i]
                               /\ \A j \in 1..(i - 1) : old[j] = JUNK
  BY RecordIsLine
<1>2. new[i] = old[i] /\ \A j \in 1..(i - 1) : new[j] = JUNK
  BY <1>1
<1>3. Record(new) # NOKEY
  BY <1>1, <1>2, RecordIsLine
<1>4. PICK k \in 1..Len(new) : /\ new[k] # JUNK /\ Record(new) = new[k]
                               /\ \A j \in 1..(k - 1) : new[j] = JUNK
  BY <1>3, RecordIsLine
<1>5. k = i
  BY <1>1, <1>2, <1>4
<1> QED
  BY <1>1, <1>2, <1>4, <1>5

----------------------------------------------------------------------------
(* The file: what a client's append does to it.                            *)

\* The new file keeps the old lines, but for a junk one at the end.
Extends(old, new) ==
    /\ new \in Seq(Lines)
    /\ Len(old) <= Len(new)
    /\ \A i \in 1..Len(old) : old[i] # JUNK => new[i] = old[i]
    /\ \A i \in 1..(Len(old) - 1) : new[i] = old[i]

\* A line added behind the others.
LEMMA AppendExtends ==
    ASSUME NEW old \in Seq(Lines), NEW line \in Lines
    PROVE  Extends(old, Append(old, line))
BY DEF Extends

\* A last line continued by the next record.
LEMMA ContinueExtends ==
    ASSUME NEW old \in Seq(Lines), old # <<>>, NEW line \in Continued(old[Len(old)])
    PROVE  /\ Extends(old, [old EXCEPT ![Len(old)] = line])
           /\ \A i \in 1..Len(old) : [old EXCEPT ![Len(old)] = line][i] \in Keys
                => [old EXCEPT ![Len(old)] = line][i] = old[i]
<1> DEFINE new == [old EXCEPT ![Len(old)] = line]
<1>1. Len(old) \in 1..Len(old) /\ line \in Lines
  BY DEF Continued, Lines
<1>2. new \in Seq(Lines) /\ Len(new) = Len(old)
  BY <1>1
<1>3. \A i \in 1..Len(old) : new[i] = IF i = Len(old) THEN line ELSE old[i]
  BY <1>1
<1>4. line = old[Len(old)] \/ (old[Len(old)] = JUNK /\ line \notin Keys)
  BY KnownHostsAssumption DEF Continued
<1> HIDE DEF new
<1>5. Extends(old, new)
  BY <1>1, <1>2, <1>3, <1>4 DEF Extends
<1>6. \A i \in 1..Len(old) : new[i] \in Keys => new[i] = old[i]
  BY <1>1, <1>3, <1>4
<1> QED
  BY <1>5, <1>6 DEF new

\* A step of a client extends the file; a key that it adds is its own, and then
\* it counts as saved.
LEMMA FileStep ==
    ASSUME KHTypeOK, ShownKey, NEW c \in Clients, Verify(c)
    PROVE  /\ Extends(known_hosts, known_hosts')
           /\ shown' = shown
           /\ \A i \in 1..Len(known_hosts') : known_hosts'[i] \in Keys =>
                \/ i \in 1..Len(known_hosts) /\ known_hosts'[i] = known_hosts[i]
                \/ verdict'[c] = "saved" /\ known_hosts'[i] = shown[c]
           /\ verdict'[c] = "saved" => Record(known_hosts') # NOKEY
<1> USE KnownHostsAssumption DEF KHTypeOK, ShownKey, Verdicts, Trusted
<1>1. CASE UNCHANGED <<known_hosts, shown>> /\ verdict'[c] # "saved"
  BY <1>1 DEF Extends
<1>2. CASE Pinned(c) \/ Lookup(c) \/ LookupUnreadable(c) \/ Answer(c) \/ AppendFails(c)
           \/ AppendLost(c)
  BY <1>1, <1>2 DEF Pinned, Lookup, LookupUnreadable, Answer, AppendFails, AppendLost,
                    Decide, Known, Unknown, Modes
<1>3. ASSUME unended, shown' = shown, verdict'[c] # "saved",
             NEW line \in Continued(known_hosts[Len(known_hosts)]),
             known_hosts' = [known_hosts EXCEPT ![Len(known_hosts)] = line]
      PROVE  /\ Extends(known_hosts, known_hosts')
             /\ \A i \in 1..Len(known_hosts') : known_hosts'[i] \in Keys =>
                  i \in 1..Len(known_hosts) /\ known_hosts'[i] = known_hosts[i]
  <2>1. Len(known_hosts') = Len(known_hosts)
    BY <1>3
  <2> DEFINE new == [known_hosts EXCEPT ![Len(known_hosts)] = line]
  <2>2. /\ Extends(known_hosts, new)
        /\ \A i \in 1..Len(known_hosts) : new[i] \in Keys => new[i] = known_hosts[i]
    BY <1>3, ContinueExtends
  <2>3. known_hosts' = new
    BY <1>3
  <2> HIDE DEF new
  <2> QED
    BY <2>1, <2>2, <2>3
<1>4. ASSUME NEW line \in Lines, known_hosts' = Append(known_hosts, line),
             line \in Keys => verdict'[c] = "saved" /\ line = shown[c],
             verdict'[c] = "saved" => line = shown[c], shown[c] \in Keys
      PROVE  /\ Extends(known_hosts, known_hosts')
             /\ \A i \in 1..Len(known_hosts') : known_hosts'[i] \in Keys =>
                  \/ i \in 1..Len(known_hosts) /\ known_hosts'[i] = known_hosts[i]
                  \/ verdict'[c] = "saved" /\ known_hosts'[i] = shown[c]
             /\ verdict'[c] = "saved" => Record(known_hosts') # NOKEY
  <2>1. Extends(known_hosts, known_hosts')
    BY <1>4, AppendExtends
  <2>2. /\ Len(known_hosts') = Len(known_hosts) + 1
        /\ \A i \in 1..Len(known_hosts) : known_hosts'[i] = known_hosts[i]
        /\ known_hosts'[Len(known_hosts) + 1] = line
    BY <1>4
  <2>3. verdict'[c] = "saved" => Record(known_hosts') # NOKEY
    <3>1. line \in Keys => line # JUNK
      OBVIOUS
    <3>2. known_hosts' \in Seq(Lines)
      BY <2>1 DEF Extends
    <3>3. Len(known_hosts) + 1 \in 1..Len(known_hosts')
      BY <2>2
    <3> QED
      BY <1>4, <2>2, <3>1, <3>2, <3>3, RecordIsLine
  <2> QED
    BY <1>4, <2>1, <2>2, <2>3
<1>5. CASE AppendRecord(c)
  <2>1. CASE unended
    BY <1>3, <1>5, <2>1 DEF AppendRecord, Decide
  <2>2. CASE ~unended
    <3>1. shown[c] \in Keys
      BY <1>5 DEF AppendRecord
    <3>2. verdict'[c] = "saved"
      BY <1>5, <2>2 DEF AppendRecord, Decide
    <3> QED
      BY <1>4, <1>5, <2>2, <3>1, <3>2 DEF AppendRecord, Lines
  <2> QED
    BY <2>1, <2>2
<1>6. CASE AppendTorn(c)
  <2>1. CASE unended
    BY <1>3, <1>6, <2>1 DEF AppendTorn, Decide
  <2>2. CASE ~unended
    <3>1. PICK line \in {JUNK, GARBLED, shown[c]} :
             /\ known_hosts' = Append(known_hosts, line)
             /\ Decide(c, IF line = shown[c] THEN "saved" ELSE "unsaved")
      BY <1>6, <2>2 DEF AppendTorn
    <3>2. shown[c] \in Keys /\ line \in Lines
      BY <1>6 DEF AppendTorn, Lines
    <3>3. verdict'[c] = IF line = shown[c] THEN "saved" ELSE "unsaved"
      BY <3>1 DEF Decide
    <3> QED
      BY <1>4, <1>6, <3>1, <3>2, <3>3 DEF AppendTorn
  <2> QED
    BY <2>1, <2>2
<1> QED
  BY <1>2, <1>5, <1>6 DEF Verify

\* The record outlives every step of a client.
LEMMA RecordKept ==
    ASSUME KHTypeOK, ShownKey, NEW c \in Clients, Verify(c), Record(known_hosts) # NOKEY
    PROVE  Record(known_hosts') = Record(known_hosts)
<1>1. Extends(known_hosts, known_hosts')
  BY FileStep
<1>2. known_hosts \in Seq(Lines)
  BY DEF KHTypeOK
<1> QED
  BY <1>1, <1>2, SameRecord DEF Extends

----------------------------------------------------------------------------
(* The invariant of the clients.                                           *)

LEMMA InitTrustInv == KHInit => TrustInv
<1> SUFFICES ASSUME KHInit PROVE TrustInv
  OBVIOUS
<1> USE KnownHostsAssumption DEF KHInit
<1>1. KHTypeOK
  <2>1. known_hosts \in Seq(Lines) /\ torn \in 0..MaxTorn
    OBVIOUS
  <2>2. verdict \in [Clients -> Verdicts] /\ shown \in [Clients -> Keys \cup {NOKEY}]
    BY DEF Verdicts
  <2> QED
    BY <2>1, <2>2 DEF KHTypeOK
<1>2. ShownKey /\ WitnessesDecide /\ AlarmStands /\ FirstUseBinds
  BY DEF ShownKey, WitnessesDecide, AlarmStands, FirstUseBinds
<1>3. LinesSaved
  BY DEF LinesSaved, Saved
<1> QED
  BY <1>1, <1>2, <1>3 DEF TrustInv

LEMMA ConnectTrustInv ==
    ASSUME TrustInv, NEW c \in Clients, NEW k \in Keys, Connect(c, k)
    PROVE  TrustInv'
<1> USE DEF TrustInv, Connect, Decide
<1>1. KHTypeOK'
  BY DEF KHTypeOK, Verdicts
<1>2. ShownKey' /\ WitnessesDecide' /\ AlarmStands'
  BY DEF KHTypeOK, ShownKey, WitnessesDecide, AlarmStands
<1>3. LinesSaved'
  BY DEF KHTypeOK, LinesSaved, Saved
<1>4. FirstUseBinds'
  BY DEF KHTypeOK, FirstUseBinds, WitnessesDecide
<1> QED
  BY <1>1, <1>2, <1>3, <1>4

LEMMA VerifyTrustInv ==
    ASSUME TrustInv, NEW c \in Clients, Verify(c)
    PROVE  TrustInv'
<1> USE DEF TrustInv
<1> USE KnownHostsAssumption
<1>1. /\ Extends(known_hosts, known_hosts')
      /\ shown' = shown
      /\ \A i \in 1..Len(known_hosts') : known_hosts'[i] \in Keys =>
           \/ i \in 1..Len(known_hosts) /\ known_hosts'[i] = known_hosts[i]
           \/ verdict'[c] = "saved" /\ known_hosts'[i] = shown[c]
      /\ verdict'[c] = "saved" => Record(known_hosts') # NOKEY
  BY FileStep
<1>2. Record(known_hosts) # NOKEY => Record(known_hosts') = Record(known_hosts)
  BY RecordKept
\* Only the one client moves, and not once it has decided.
<1>3. /\ verdict' \in [Clients -> Verdicts]
      /\ verdict[c] \in {"verify", "ask", "append"}
      /\ \A d \in Clients \ {c} : verdict'[d] = verdict[d] /\ witnesses'[d] = witnesses[d]
      /\ verdict'[c] # "idle"
  BY DEF Verify, Pinned, Lookup, LookupUnreadable, Answer, AppendFails, AppendRecord,
         AppendTorn, AppendLost, Decide, KHTypeOK, Verdicts, Trusted, Known, Unknown, Modes
<1>4. witnesses' \in [Clients -> SUBSET Clients]
  BY DEF Verify, Pinned, Lookup, LookupUnreadable, Answer, AppendFails, AppendRecord,
         AppendTorn, AppendLost, KHTypeOK, Saved
<1>5. KHTypeOK'
  <2>0. unended' \in BOOLEAN
    BY Zenon DEF Verify, Pinned, Lookup, LookupUnreadable, Answer, AppendFails, AppendRecord,
           AppendTorn, AppendLost, KHTypeOK
  <2>1. torn' \in 0..MaxTorn
    BY SMT DEF Verify, Pinned, Lookup, LookupUnreadable, Answer, AppendFails, AppendRecord,
           AppendTorn, AppendLost, KHTypeOK
  <2>2. unended' => known_hosts' # <<>>
    <3>1. CASE unended
      BY <1>1, <3>1 DEF Extends, KHTypeOK
    <3>2. CASE ~unended /\ unended'
      <4>1. AppendTorn(c)
        BY <3>2 DEF Verify, Pinned, Lookup, LookupUnreadable, Answer, AppendFails,
             AppendRecord, AppendLost
      <4> QED
        BY <3>2, <4>1 DEF AppendTorn, KHTypeOK
    <3> QED
      BY <3>1, <3>2
  <2> QED
    BY <1>1, <1>3, <1>4, <2>0, <2>1, <2>2 DEF KHTypeOK, Extends
<1>6. ShownKey'
  BY <1>1, <1>3 DEF ShownKey
<1>7. Saved' \subseteq Saved \cup {c} /\ Saved \subseteq Saved'
  BY <1>3 DEF Saved
<1>8. LinesSaved'
  <2>1. ASSUME NEW i \in 1..Len(known_hosts'), known_hosts'[i] \in Keys
        PROVE  \E d \in Clients : verdict'[d] = "saved" /\ shown'[d] = known_hosts'[i]
    BY <1>1, <1>3, <2>1 DEF LinesSaved
  <2>2. Saved' # {} => Record(known_hosts') # NOKEY
    BY <1>1, <1>2, <1>3, <1>7 DEF LinesSaved, Saved
  <2> QED
    BY <2>1, <2>2 DEF LinesSaved
\* A look-up that finds others' records ends in a decision made by the first.
<1>9. ASSUME witnesses'[c] # witnesses[c]
      PROVE  /\ witnesses'[c] = Saved
             /\ verdict'[c] \in {"matched", "forced", "alarmed"}
             /\ verdict'[c] = "matched" => Record(known_hosts) = shown[c]
  <2>1. Lookup(c) /\ witnesses'[c] = Saved
    BY <1>9 DEF Verify, Pinned, Lookup, LookupUnreadable, Answer, AppendFails, AppendRecord,
         AppendTorn, AppendLost, KHTypeOK
  <2>2. witnesses[c] = {}
    BY <1>3 DEF WitnessesDecide
  <2>3. Record(known_hosts) # NOKEY
    BY <1>9, <2>1, <2>2 DEF LinesSaved
  <2> QED
    BY <1>3, <2>1, <2>3 DEF Lookup, Decide, Known, KHTypeOK
<1>10. WitnessesDecide'
  <2>1. ASSUME NEW e \in Clients, NEW d \in witnesses'[e]
        PROVE  verdict'[d] = "saved"
    <3>1. d \in witnesses[e] \/ d \in Saved
      BY <1>3, <1>9
    <3>2. verdict[d] = "saved" /\ d \in Clients
      BY <3>1 DEF WitnessesDecide, Saved, KHTypeOK
    <3> QED
      BY <1>3, <3>2
  <2>2. ASSUME NEW e \in Clients, witnesses'[e] # {}
        PROVE  verdict'[e] \in {"matched", "forced", "alarmed"}
    BY <1>3, <1>9, <2>2 DEF WitnessesDecide
  <2> QED
    BY <2>1, <2>2 DEF WitnessesDecide
<1>11. AlarmStands'
  <2>1. ASSUME verdict'[c] = "alarmed"
        PROVE  Record(known_hosts) \notin {NOKEY, shown[c]}
    <3>1. Lookup(c)
      BY <2>1, <1>3 DEF Verify, Pinned, LookupUnreadable, Answer, AppendFails,
           AppendRecord, AppendTorn, AppendLost, Decide, KHTypeOK, Unknown, Modes
    <3> QED
      BY <2>1, <3>1 DEF Lookup, Decide, Known, Unknown, Modes, KHTypeOK
  <2> QED
    BY <1>1, <1>2, <1>3, <2>1 DEF AlarmStands
<1>12. FirstUseBinds'
  <2>1. ASSUME NEW e \in Clients, e # c
        PROVE  (verdict[e] \in {"matched", "saved", "unsaved"} /\ witnesses[e] # {}
                  => \E d \in witnesses[e] : shown[d] = shown[e])'
    BY <1>1, <1>3, <2>1 DEF FirstUseBinds
  <2>2. (verdict[c] \in {"matched", "saved", "unsaved"} /\ witnesses[c] # {}
                  => \E d \in witnesses[c] : shown[d] = shown[c])'
    <3>1. CASE witnesses'[c] = witnesses[c]
      BY <1>3, <3>1 DEF WitnessesDecide
    <3>2. CASE witnesses'[c] # witnesses[c] /\ verdict'[c] = "matched"
      <4>1. Record(known_hosts) = shown[c] /\ shown[c] \in Keys
        BY <1>3, <1>9, <3>2 DEF ShownKey
      <4>2. PICK i \in 1..Len(known_hosts) : known_hosts[i] = shown[c]
        BY <4>1, RecordIsLine DEF KHTypeOK
      <4>3. PICK d \in Clients : verdict[d] = "saved" /\ shown[d] = shown[c]
        BY <4>1, <4>2 DEF LinesSaved
      <4> QED
        BY <1>1, <1>9, <3>2, <4>3 DEF Saved
    <3> QED
      BY <1>9, <3>1, <3>2
  <2> QED
    BY <2>1, <2>2 DEF FirstUseBinds
<1> QED
  BY <1>5, <1>6, <1>8, <1>10, <1>11, <1>12

----------------------------------------------------------------------------
(* Invocations and clients together.                                       *)

\* Only invocations that returned a seed serve, so that every key a client was
\* shown belongs to a seed that some invocation made.
ShownAreMade ==
    /\ serving \subseteq {p \in Invocations : pc[p] = "ok"}
    /\ \A c \in Clients : shown[c] \in Keys => Made(shown[c])

\* The inductive invariant of the composition.
HTInv == SeedInv /\ TrustInv /\ ShownAreMade

LEMMA InitHTInv == HTInit => HTInv
<1> SUFFICES ASSUME HTInit PROVE ShownAreMade
  BY InitSeedInv, InitTrustInv DEF HTInit, HTInv
<1> QED
  BY KnownHostsAssumption DEF HTInit, KHInit, ShownAreMade

\* An invocation that returned success stays so.
LEMMA OkStable ==
    ASSUME SeedInv, Next, NEW p \in Invocations, pc[p] = "ok"
    PROVE  pc'[p] = "ok"
<1> USE DEF SeedInv, TypeOK, Goto
<1>1. ASSUME NEW q \in Invocations, Invocation(q)
      PROVE  pc'[p] = "ok"
  BY <1>1 DEF Invocation, Start, Fails, OpenExisting, OpenMissing, Create, CreateExists,
       Write, WriteFails, Sync, SyncFails, Remove, DirSync, DirSyncFails, Reopen, Read
<1>2. ASSUME NEW q \in Invocations, Kill(q)
      PROVE  pc'[p] = "ok"
  BY <1>2 DEF Kill, Running, Returned
<1>3. CASE PowerLoss
  BY <1>3 DEF PowerLoss, Running, Returned
<1> QED
  BY <1>1, <1>2, <1>3 DEF Next

LEMMA NextHTInv ==
    ASSUME HTInv, [HTNext]_htVars
    PROVE  HTInv'
<1>1. CASE Identity
  <2>1. SeedInv'
    BY <1>1, NextSeedInv DEF Identity, HTInv
  <2>2. TrustInv'
    BY <1>1 DEF Identity, HTInv, TrustInv, khVars, KHTypeOK, ShownKey, LinesSaved, Saved,
         WitnessesDecide, AlarmStands, FirstUseBinds
  <2>3. serving' \subseteq {p \in Invocations : pc'[p] = "ok"}
    BY <1>1, OkStable DEF Identity, HTInv, ShownAreMade
  <2>4. \A k \in Invocations : Made(k) => Made(k)'
    BY <1>1, MadeStable DEF Identity, HTInv
  <2>5. shown' = shown
    BY <1>1 DEF Identity, khVars
  <2>6. \A c \in Clients : (shown[c] \in Keys => Made(shown[c]))'
    BY <2>4, <2>5, HostTrustAssumption DEF Made, HTInv, ShownAreMade
  <2> QED
    BY <2>1, <2>2, <2>3, <2>6 DEF HTInv, ShownAreMade
<1>2. ASSUME NEW c \in Clients, Meet(c)
      PROVE  HTInv'
  <2>1. PICK p \in serving : Connect(c, seed[p])
    BY <1>2 DEF Meet
  <2>2. UNCHANGED <<vars, serving>>
    BY <1>2 DEF Meet
  <2>3. seed[p] \in Keys /\ Made(seed[p])
    BY HostTrustAssumption
       DEF HTInv, SeedInv, TypeOK, NamedAreMade, ReturnedIsComplete, ShownAreMade
  <2>4. SeedInv'
    BY <2>2, NextSeedInv DEF HTInv
  <2>5. TrustInv'
    BY <2>1, <2>3, ConnectTrustInv DEF HTInv
  <2>6. ShownAreMade'
    BY <2>1, <2>2, <2>3 DEF Connect, vars, HTInv, TrustInv, KHTypeOK, ShownAreMade, Made
  <2> QED
    BY <2>4, <2>5, <2>6 DEF HTInv
<1>3. ASSUME NEW c \in Clients, Trust(c)
      PROVE  HTInv'
  <2>1. SeedInv'
    BY <1>3, NextSeedInv DEF Trust, HTInv
  <2>2. TrustInv' /\ shown' = shown
    BY <1>3, VerifyTrustInv, FileStep DEF Trust, HTInv, TrustInv
  <2>3. ShownAreMade'
    BY <1>3, <2>2 DEF Trust, vars, HTInv, ShownAreMade, Made
  <2> QED
    BY <2>1, <2>2, <2>3 DEF HTInv
<1>4. CASE UNCHANGED htVars
  <2>1. SeedInv'
    BY <1>4, NextSeedInv DEF htVars, HTInv
  <2>2. TrustInv'
    BY <1>4 DEF htVars, khVars, HTInv, TrustInv, KHTypeOK, ShownKey, LinesSaved, Saved,
         WitnessesDecide, AlarmStands, FirstUseBinds
  <2>3. ShownAreMade'
    BY <1>4 DEF htVars, vars, khVars, HTInv, ShownAreMade, Made
  <2> QED
    BY <2>1, <2>2, <2>3 DEF HTInv
<1> QED
  BY <1>1, <1>2, <1>3, <1>4 DEF HTNext

\* The inductive invariant of noxsshd's seeds, of the file known_hosts and of the
\* clients that look it up and append to it.
THEOREM TrustInvariant == HTSpec => []HTInv
BY InitHTInv, NextHTInv, PTL DEF HTSpec

\* Clients never disturb the identity: the composition runs host_seed() as
\* HostSeed specifies it, so what is proved of Spec holds of HTSpec.
THEOREM IdentityIsHostSeed == HTSpec => Spec
<1>1. HTInit => Init
  BY DEF HTInit
<1>2. [HTNext]_htVars => [Next]_vars
  BY DEF HTNext, htVars, Identity, Meet, Trust
<1> QED
  BY <1>1, <1>2, PTL DEF HTSpec, Spec

\* What clients and server are promised together, from the theorems on HostSeed.
THEOREM IdentityTrusted ==
    HTSpec => /\ []CreatorOwnsName
              /\ []CreatedIsDurable
              /\ []ReturnedIsComplete
              /\ SeedRetained
BY IdentityIsHostSeed, NameOwned, IdentityDurable, SeedComplete, SeedStays, PTL

\* The first record of a host stays, whatever appends at the same time and
\* wherever a line is torn.
THEOREM RecordStays == HTSpec => RecordStable
<1>1. HTInv /\ [HTNext]_htVars =>
        [Record(known_hosts) # NOKEY => Record(known_hosts') = Record(known_hosts)]_khVars
  <2> SUFFICES ASSUME HTInv, [HTNext]_htVars, Record(known_hosts) # NOKEY
               PROVE  Record(known_hosts') = Record(known_hosts)
    OBVIOUS
  <2>1. ASSUME NEW c \in Clients, Trust(c)
        PROVE  Record(known_hosts') = Record(known_hosts)
    BY <2>1, RecordKept DEF Trust, HTInv, TrustInv
  <2>2. CASE Identity \/ UNCHANGED htVars \/ \E c \in Clients : Meet(c)
    BY <2>2 DEF Identity, htVars, khVars, Meet, Connect
  <2> QED
    BY <2>1, <2>2 DEF HTNext
<1> QED
  BY <1>1, TrustInvariant, PTL DEF HTSpec, RecordStable

\* A key is seen for the first time once, whatever clients run together.
THEOREM FirstUseOnce == HTSpec => []FirstUseBinds
<1>1. HTInv => FirstUseBinds
  BY DEF HTInv, TrustInv
<1> QED
  BY <1>1, TrustInvariant, PTL

\* An alarm over two keys that were both made with success would need two
\* identities under one name.
LEMMA AlarmHasCause == HTInv => NoFalseAlarm
<1> SUFFICES ASSUME HTInv, NEW c \in Clients, verdict[c] = "alarmed",
                    Record(known_hosts) # GARBLED
             PROVE  \E k \in {Record(known_hosts), shown[c]} : pc[k] # "ok"
  BY DEF NoFalseAlarm
<1> USE KnownHostsAssumption, HostTrustAssumption DEF HTInv, TrustInv
<1>1. Record(known_hosts) \notin {NOKEY, shown[c]}
  BY DEF AlarmStands
<1>2. PICK i \in 1..Len(known_hosts) :
         known_hosts[i] # JUNK /\ Record(known_hosts) = known_hosts[i]
  BY <1>1, RecordIsLine DEF KHTypeOK
<1>3. known_hosts[i] \in Keys
  BY <1>2 DEF KHTypeOK, Lines
<1>4. PICK d \in Clients : shown[d] = known_hosts[i]
  BY <1>3 DEF LinesSaved
<1>5. shown[c] \in Keys /\ Made(shown[c]) /\ Made(shown[d])
  BY <1>3, <1>4 DEF ShownKey, ShownAreMade
<1>6. ASSUME pc[shown[c]] = "ok", pc[shown[d]] = "ok"
      PROVE  FALSE
  <2>1. seed[shown[c]] = shown[c] /\ seed[shown[d]] = shown[d]
    BY <1>5, <1>6 DEF Made
  <2>2. entry = shown[c] /\ entry = shown[d]
    BY <1>3, <1>4, <1>5, <1>6, <2>1 DEF SeedInv, CreatedIsDurable
  <2> QED
    BY <1>1, <1>2, <1>4, <2>2
<1> QED
  BY <1>2, <1>4, <1>6

\* Whenever a client is told that the host has changed, a torn line or an
\* invocation that did not report success is behind it.
THEOREM AlarmsJustified == HTSpec => []NoFalseAlarm
BY AlarmHasCause, TrustInvariant, PTL
=============================================================================
