------------------------------ MODULE HostSeed ------------------------------
(***************************************************************************)
(* host_seed() of server/main.c: the persistent host identity of noxsshd.  *)
(* Several invocations (the daemon, --print-host-public-key, a restart)    *)
(* may run at once in the same directory; each is one process that calls   *)
(* host_seed() once.  Any system call may fail, a process may be killed    *)
(* between two calls, and power may be lost.                               *)
(*                                                                         *)
(* A seed is named after the invocation that made it, and so is the inode  *)
(* that it created with O_EXCL.  What has been written but not fsync()ed   *)
(* may be lost, from the end, in a power loss; a directory entry added or  *)
(* removed since the last fsync() of the directory may survive or not.     *)
(* The directory descriptor is validated once, before "open", and symbolic *)
(* links, owners and modes are refused there: they are not modelled.       *)
(***************************************************************************)
EXTENDS Naturals

CONSTANTS Invocations,  \* the processes, each calling host_seed() once
          NONE,         \* no inode, no seed
          LEN,          \* length of a seed: 32
          MaxLosses     \* bound on the power losses

ASSUME HostSeedAssumption ==
    /\ NONE \notin Invocations
    /\ LEN \in Nat \ {0}
    /\ MaxLosses \in Nat

VARIABLES
    pc,        \* where each invocation is
    entry,     \* the inode the seed's name stands for, or NONE
    size,      \* size of each inode
    disk,      \* bytes of each inode that are on stable storage
    diskEntry, \* directory entry on stable storage
    fd,        \* inode each invocation has open for reading
    seed,      \* the seed in each invocation's buffer
    losses     \* power losses so far

vars == <<pc, entry, size, disk, diskEntry, fd, seed, losses>>
files == <<entry, size, disk, diskEntry>>

\* "unsynced": returned failure because the directory could not be synced.
Returned == {"ok", "failed", "unsynced"}
PCs == {"idle", "open", "create", "write", "sync", "dirsync", "reopen", "read",
        "remove", "killed"} \cup Returned

Init ==
    /\ pc = [p \in Invocations |-> "idle"]
    /\ entry = NONE /\ diskEntry = NONE
    /\ size = [p \in Invocations |-> 0]
    /\ disk = [p \in Invocations |-> 0]
    /\ fd = [p \in Invocations |-> NONE]
    /\ seed = [p \in Invocations |-> NONE]
    /\ losses = 0

Goto(p, where) == pc' = [pc EXCEPT ![p] = where]

\* open(parent), fstat() and the tests of the directory.
Start(p) ==
    /\ pc[p] = "idle"
    /\ Goto(p, "open")
    /\ UNCHANGED <<files, fd, seed, losses>>

\* A call of invocation p fails where failure means: return -1.
Fails(p) ==
    /\ pc[p] \in {"open", "create", "reopen", "read"}
    /\ Goto(p, "failed")
    /\ seed' = [seed EXCEPT ![p] = NONE]
    /\ UNCHANGED <<files, fd, losses>>

\* openat(O_RDONLY): the file, or ENOENT and then getrandom().
OpenExisting(p) ==
    /\ pc[p] = "open"
    /\ entry # NONE
    /\ fd' = [fd EXCEPT ![p] = entry]
    /\ Goto(p, "read")
    /\ UNCHANGED <<files, seed, losses>>

OpenMissing(p) ==
    /\ pc[p] = "open"
    /\ entry = NONE
    /\ seed' = [seed EXCEPT ![p] = p]
    /\ Goto(p, "create")
    /\ UNCHANGED <<files, fd, losses>>

\* Mutation: the file is created without O_EXCL, as a new inode.
CreateAnyway(p) ==
    /\ pc[p] = "create"
    /\ entry' = p
    /\ Goto(p, "write")
    /\ UNCHANGED <<size, disk, diskEntry, fd, seed, losses>>

\* openat(O_CREAT | O_EXCL), and the fstat() of the new file.
Create(p) ==
    /\ pc[p] = "create"
    /\ entry = NONE
    /\ entry' = p
    /\ \E ok \in BOOLEAN : Goto(p, IF ok THEN "write" ELSE "remove")
    /\ UNCHANGED <<size, disk, diskEntry, fd, seed, losses>>

\* EEXIST: another invocation was first; go and read its file.
CreateExists(p) ==
    /\ pc[p] = "create"
    /\ entry # NONE
    /\ Goto(p, "reopen")
    /\ UNCHANGED <<files, fd, seed, losses>>

\* One write() of the loop, or the failure of one.
Write(p) ==
    /\ pc[p] = "write"
    /\ size[p] < LEN
    /\ \E n \in 1..(LEN - size[p]) : size' = [size EXCEPT ![p] = @ + n]
    /\ Goto(p, IF size'[p] = LEN THEN "sync" ELSE "write")
    /\ UNCHANGED <<entry, disk, diskEntry, fd, seed, losses>>

WriteFails(p) ==
    /\ pc[p] = "write"
    /\ Goto(p, "remove")
    /\ UNCHANGED <<files, fd, seed, losses>>

\* Mutation: the directory is synced before the data.
SyncSkipped(p) ==
    /\ pc[p] = "sync"
    /\ Goto(p, "dirsync")
    /\ UNCHANGED <<files, fd, seed, losses>>

\* fsync(fd) and close(fd) succeed.
Sync(p) ==
    /\ pc[p] = "sync"
    /\ disk' = [disk EXCEPT ![p] = size[p]]
    /\ Goto(p, "dirsync")
    /\ UNCHANGED <<entry, size, diskEntry, fd, seed, losses>>

\* fsync(fd) or close(fd) fails; some or all of the data may be stored.
SyncFails(p) ==
    /\ pc[p] = "sync"
    /\ \E n \in disk[p]..size[p] : disk' = [disk EXCEPT ![p] = n]
    /\ Goto(p, "remove")
    /\ UNCHANGED <<entry, size, diskEntry, fd, seed, losses>>

\* remove_created: unlinkat() by name; its result is not looked at.
Remove(p) ==
    /\ pc[p] = "remove"
    /\ entry' \in {entry, NONE}
    /\ Goto(p, "failed")
    /\ seed' = [seed EXCEPT ![p] = NONE]
    /\ UNCHANGED <<size, disk, diskEntry, fd, losses>>

\* fsync(parent_fd) succeeds: the identity is durable.
DirSync(p) ==
    /\ pc[p] = "dirsync"
    /\ diskEntry' = entry
    /\ Goto(p, "ok")
    /\ UNCHANGED <<entry, size, disk, fd, seed, losses>>

\* Mutation: a failed directory sync removes the seed.
DirSyncFailRemoves(p) ==
    /\ pc[p] = "dirsync"
    /\ entry' = NONE
    /\ Goto(p, "unsynced")
    /\ seed' = [seed EXCEPT ![p] = NONE]
    /\ UNCHANGED <<size, disk, diskEntry, fd, losses>>

\* It fails, or close(parent_fd) fails behind it: so does the invocation, and
\* the complete seed stays.
DirSyncFails(p) ==
    /\ pc[p] = "dirsync"
    /\ diskEntry' \in {diskEntry, entry}
    /\ Goto(p, "unsynced")
    /\ seed' = [seed EXCEPT ![p] = NONE]
    /\ UNCHANGED <<entry, size, disk, fd, losses>>

\* The second openat(O_RDONLY), after EEXIST.
Reopen(p) ==
    /\ pc[p] = "reopen"
    /\ IF entry # NONE
       THEN fd' = [fd EXCEPT ![p] = entry] /\ Goto(p, "read") /\ UNCHANGED seed
       ELSE /\ Goto(p, "failed")
            /\ seed' = [seed EXCEPT ![p] = NONE]
            /\ UNCHANGED fd
    /\ UNCHANGED <<files, losses>>

\* Mutation: the size of the file is not tested.
ReadAnySize(p) ==
    /\ pc[p] = "read"
    /\ seed' = [seed EXCEPT ![p] = fd[p]]
    /\ Goto(p, "ok")
    /\ UNCHANGED <<files, fd, losses>>

\* fstat(), the size test, 32 bytes and the read() that must find the end.
Read(p) ==
    /\ pc[p] = "read"
    /\ size[fd[p]] = LEN
    /\ seed' = [seed EXCEPT ![p] = fd[p]]
    /\ Goto(p, "ok")
    /\ UNCHANGED <<files, fd, losses>>

----------------------------------------------------------------------------
(* The world.                                                              *)

Running(p) == pc[p] \notin Returned \cup {"idle", "killed"}

\* SIGKILL, or the process dies, between two system calls.
Kill(p) ==
    /\ Running(p)
    /\ Goto(p, "killed")
    /\ UNCHANGED <<files, fd, seed, losses>>

\* Power is lost: every running invocation dies, and what was not synced is
\* kept or lost.  Invocations that have returned keep what they returned.
PowerLoss ==
    /\ losses < MaxLosses
    /\ losses' = losses + 1
    /\ pc' = [p \in Invocations |-> IF Running(p) THEN "killed" ELSE pc[p]]
    /\ \E n \in [Invocations -> 0..LEN] :
         /\ \A p \in Invocations : n[p] \in disk[p]..size[p]
         /\ size' = n
         /\ disk' = n
    /\ entry' \in {entry, diskEntry}
    /\ diskEntry' = entry'
    /\ UNCHANGED <<fd, seed>>

Invocation(p) ==
    \/ Start(p) \/ Fails(p) \/ OpenExisting(p) \/ OpenMissing(p)
    \/ Create(p) \/ CreateExists(p) \/ Write(p) \/ WriteFails(p)
    \/ Sync(p) \/ SyncFails(p) \/ Remove(p) \/ DirSync(p) \/ DirSyncFails(p)
    \/ Reopen(p) \/ Read(p)

Next == (\E p \in Invocations : Invocation(p) \/ Kill(p)) \/ PowerLoss

Spec == Init /\ [][Next]_vars

----------------------------------------------------------------------------
\* Types; what is on the disk was written.
TypeOK ==
    /\ pc \in [Invocations -> PCs]
    /\ entry \in Invocations \cup {NONE}
    /\ diskEntry \in Invocations \cup {NONE}
    /\ size \in [Invocations -> 0..LEN]
    /\ disk \in [Invocations -> 0..LEN]
    /\ fd \in [Invocations -> Invocations \cup {NONE}]
    /\ seed \in [Invocations -> Invocations \cup {NONE}]
    /\ losses \in 0..MaxLosses
    /\ \A p \in Invocations : disk[p] <= size[p]

\* The invocation that creates the file owns the name until it is done: two
\* never write at once, and the unlinkat() of remove_created, which goes by
\* name, never removes a seed that another invocation made.
CreatorOwnsName ==
    \A p \in Invocations :
        pc[p] \in {"write", "sync", "dirsync", "remove"} => entry = p

\* An invocation that made a seed and returned success has made it durable:
\* it outlives every later failure, kill and power loss, so at most one
\* identity is ever created with success.
CreatedIsDurable ==
    \A p \in Invocations :
        pc[p] = "ok" /\ seed[p] = p
            => entry = p /\ diskEntry = p /\ disk[p] = LEN

\* Without a power loss, every seed returned is a complete one, even when it
\* was read while its creator was still at work or was about to remove it.
ReturnedIsComplete ==
    \A p \in Invocations :
        pc[p] = "ok" => /\ seed[p] # NONE
                        /\ losses = 0 => size[seed[p]] = LEN

\* docs/server.md: "A directory-fsync failure returns failure while retaining
\* the complete seed; a later invocation reuses it rather than silently
\* changing host identity": once the data is synced, whatever becomes of the
\* directory sync, nothing short of a power loss removes it.
SeedRetained ==
    [][\A p \in Invocations :
          /\ pc[p] \in {"dirsync", "unsynced"} /\ entry = p
          /\ losses' = losses
          => entry' = p]_vars
=============================================================================
