# A TLA+ verification of noxssh and noxsshd

noxssh is an SSH-2 client and noxsshd an SSH-2 server, both in C over the
noxtls library. This directory models the parts of the two programs whose
correctness depends on the order of events: processes, signals, time-outs,
failing system calls, and packets that a peer sends when it likes. TLC checks
the models on small instances; TLAPS proves the safety properties of the
server, of the host identity and the trust in it, of the packet layer, of the
client and of client and server together for every value of their parameters.

Paths such as `common/noxssh_server.c` are relative to `src/`.

## 1. The system

| part | code | state it keeps | operations |
|---|---|---|---|
| listener | `server/daemon_runtime.c` | the counter `active`, the listen queue, the forked processes | accept, refuse at four, fork, reap (`waitpid`), SIGCHLD |
| connection | `common/noxssh_server.c`, `netnox_ssh_server_serve_one()` | services, authentication, the number of attempts, the one channel, `close_deadline_ms`, handshake deadline, traffic counters | identification, key exchange, each SSH message |
| session | `common/noxssh_server.c`, `srv_run_session_unix()` | the child, the pipe or pty to it, both channel windows, `output_eof`, `peer_closed` | poll loop, packet dispatch, output, exit, completion, teardown |
| host identity | `server/main.c`, `host_seed()` | a 32-byte file in a private directory | read, create, write, sync, remove |
| client | `client/main.c`, `main()`, and the client half of `common/noxssh_common.c` | where the login is, credentials, exit status, keepalive counters | connect, key exchange, authenticate, channel, receive, keepalive, rekey |
| host key trust | `client/main.c` 1159-1332 | `known_hosts` | look up, ask, append |
| packet layer and key exchange | both files of `common/` | keys, `session_id`, cipher counters, sequence numbers | framing, padding, encrypt, MAC, receive; KEXINIT, ECDH, NEWKEYS, re-exchange |
| account and keys | `server/auth_posix.c` | none | look an account up, match a key |
| configuration | `client/main.c` 691-1030, 1936-2450, 2564-2616 | the options, the block of `~/.ssh/config` that is active | read arguments, read lines, merge, choose the private key |

How they interact. The listener forks one process per TCP connection; after
that the two share nothing but the exit of the child and its SIGCHLD, whose
handler (installed without `SA_RESTART`) the connection process inherits. The
connection runs the handshake and a loop over packets; `exec` or `shell` enters
the session, which forks once more and returns to the loop with a close wait
running. Client and server meet on the wire only; what is left of a meeting is
the fingerprint a client keeps in `known_hosts`, which ties its later runs to
the seed that `host_seed()` made.

What is hard here:

- **Processes and signals.** The listener counts children that die at any
  point of its loop. SIGCHLD makes a sleeping `accept()`, `recv()` or `send()`
  fail, and is lost everywhere else.
- **The end of a session.** Exit of the child, end of its output (which a
  descendant can hold open), the last bytes, the peer's EOF or CLOSE, and a
  broken transport come in any order.
- **Flow control.** Windows are debited in one function, refilled in another,
  and adjusts arrive at any moment, some before anybody listens for them.
- **Deadlines.** 30 seconds for the handshake, 10 seconds for the close wait,
  30 minutes for an idle session, 10 seconds for each blocked receive or send,
  keepalives on the client's side: each is looked at in particular places only.
- **Crashes.** The host identity must survive a kill or a power loss between
  any two system calls, and concurrent invocations.
- **Files without locks.** Clients look `known_hosts` up and append to it with
  others in between, and look at no result of the append.
- **Two counters and a sequence number** for each direction have to agree at
  both ends after sends that fail half-way, some of which either end ignores,
  after a rekey that a client in a shell gives up half-way, and over the moment
  at which each end changes keys.
- **Nesting.** A KEXINIT that arrives inside any wait of the client starts a
  key exchange inside that wait, which waits with the same function.

## 2. The modules

| module | what it is |
|---|---|
| `SessionPool` | abstract: every client is answered once, at most `MaxSessions` at a time |
| `Daemon` | the listener; implements `SessionPool` |
| `DaemonProofs` | theorems about `Daemon` |
| `Session` | one command or shell, with its child process |
| `ChannelWire` | abstract: the order of the channel messages the server sends |
| `Connection` | one connection, extends `Session`; any packet may arrive; implements `ChannelWire` |
| `ConnectionProofs` | theorems about `Connection` |
| `HostSeed` | concurrent invocations of `host_seed()`, failures, kills, power losses |
| `KnownHosts` | `noxssh_verify_host_key()`: clients that share a `known_hosts` file |
| `HostTrust` | `HostSeed` and `KnownHosts` joined: the identity of a host as its clients see it |
| `HostTrustProofs` | theorems about `HostSeed`, `KnownHosts` and `HostTrust` |
| `Transport` | packet layer and key exchange of a client and a server |
| `TransportProofs` | types of `Transport`, and that no cipher block is used twice |
| `DeliveryProofs` | what `Transport` delivers, and that it refuses nothing; extends `TransportProofs` |
| `ClientConfig` | arguments, `~/.ssh/config`, their merge and the private key |
| `ConfigProofs` | theorems about `ClientConfig` |
| `Client` | the client; any packet may arrive |
| `ClientProofs` | theorems about `Client` |
| `ExecSystem` | `Connection` and an instance of `Client` joined by two queues |
| `ExecProofs` | theorems about `ExecSystem`, extends `ConnectionProofs` |
| `MC*` | the modules TLC runs; `MC*Strict` add statements of the documentation that the code does not keep |

State and actions keep the names of the C code where TLA+ allows
(`local_window_size`, `close_deadline`, `srv_maybe_window_adjust`,
`srv_handle_channel_end`). `pc` stands for the place in the code; a step ends
where another process, a signal, a time-out or a failure can come in between,
that is at each system call that sleeps or is observed by somebody else.
`PROJECT.json` gives the source lines of each definition.

**Daemon.** One action per step of the `for(;;)` of `noxsshd_listen_posix()`:
`ReapOne` and `ReapDone` are the `waitpid()` loop, `EnterAccept` the call of
`accept()` from which on SIGCHLD has an effect, then `AcceptClient`,
`AcceptInterrupted`, `AcceptError`, and `Refuse`, `Fork` or `ForkFails`. `Count`
(`active++`) is apart from `Fork` because the child may be dead by then.

**Session.** `pc` runs through one iteration of the poll loop: `poll`, `recv`,
`output`, `sendout`, `reap`, and on completion `status`, `eof`, `close`; every
exit of the loop goes to `teardown`, `wait`, `kill`. Bytes are counted, not
stored. The transport is `up` or `down`; when it is down any send may fail.
`intr` records that SIGCHLD came while the process slept in `recv()` or
`send()`. The child may fork, close its output before it exits, or leave its
output to a descendant, and may ignore SIGTERM.

**Connection.** The handshake is `ident` (with `discard` for the inner loop
that swallows the rest of an overlong line), `kexinit`, `ecdh`, `newkeys`; then
`serve` reads one packet per step. Which packet comes is arbitrary; a packet
the code rejects ends the connection as it does in the code. Signature checks
and `authorized_keys` are one Boolean choice.

**HostSeed.** One invocation per element of `Invocations`, one action per
system call. What was written and not `fsync()`ed may be lost from the end; a
directory entry changed since the last `fsync()` of the directory may be the
old or the new one after a power loss. The descriptor of the directory is
validated before the modelled steps; owners, modes and links are left out.

**KnownHosts.** The file is the sequence of its lines that concern one host and
port: a key, a torn line that is no record (`JUNK`), or one that is a record of
no key (`GARBLED`). `Connect` is the end of the key exchange; then each mode of
`--strict-host-key-checking` in batch mode or not, or a pin. Look-up and append
are two steps with a prompt between them. An append may fail and be noticed
(`AppendFails`), or be lost or torn behind the back of a client that reports the
key as saved, since the results of `fprintf()` and `fclose()` are not used
(`AppendLost`, `AppendTorn`); the next record then continues the torn line.

**HostTrust.** A key is named after the invocation that made its seed. An
invocation whose `host_seed()` succeeded listens until power is lost, and shows
its seed to any client. `Identity`, `Meet` and `Trust` are the steps of the two
modules.

**Transport.** A packet records under which key, counter and sequence number it
was made, and its lengths; `Authentic` compares the first three with those of
the receiver, which is what decryption and MAC come to. A key is the triple of
secret, exchange hash and session identifier. `Sent` and `Unsent` are the two
outcomes of `send_all()`; the cipher counter has moved in both, the sequence
number in the first only. In the first exchange a failure ends the connection.
Afterwards either end may go on after a failed send (`SendData`): noxsshd looks at
no result of some, and in a shell session `noxssh_drain_shell_output()` makes 0 of
the -1 of a keepalive that could not be sent. For the same reason a rekey of the
client that fails at any step, in a send, a receive, a packet it refuses or one that
is no KEXINIT, may bring the client back to its session with the keys it had, the
secret and `session_id` of the exchange perhaps taken already (`GoesOn`, `GivesUp`;
`rekeying` tells such a rekey from the first exchange and from one the server
began, in which a failure is the end in every mode). The server is noxsshd, which
passes over a KEXINIT once it has keys, or another server that follows RFC 4253
in a re-exchange (the `Foreign` actions). Nested exchanges are in `Client`.

**ClientConfig.** Arguments and lines are supplied one at a time, and `main()`
takes each as the code does; tables (`Numeric`, `Text`, `Hex`, `Flags`,
`FileNumeric`, `FileText`) hold the options, their bounds and their keys in the
file. A word stands for what the code makes of it (`Number`, `Parts`, `Size`);
host names and patterns alone are spelled out, because the matching of one
against the other is modelled. The private key is chosen by the outcomes of
`noxssh_load_ed25519_seed_file()`.

**Client.** `main()` from the TCP connection on. `stack` holds the calls that
wait for a nested key exchange. `sent` is what the last step put on the wire,
which is all that `ExecSystem` needs. `LongLine` enters `discard`, the loop of
`netnox_ssh_recv_line()` that swallows an overlong line; only an LF or a failure
leaves it. `recv` is `netnox_ssh_client_recv_data()`, which reads on after a packet
that is no data, without `select()` and keepalives. Receiving a packet has one action for each
thing the code does with it; all ways to fail while receiving are `Broken`.

**ExecSystem.** The client's `sent` is appended to `c2s`, the server's messages
are read off what its step changed in the history variables (`Emitted`) or
follow from the packet it answers. When the server closes its socket with
packets unread the client may get a reset instead of the rest.

## 3. The runs

Passing runs (TLC explores the whole state space):

| run | checks | bounds |
|---|---|---|
| `daemon` | `CounterExact`: `active` equals the unreaped children at every point but one. `EveryClientAnswered`. `InterruptReaps`: an exit during `accept()` is reaped without another connection. `PoolRefined`: at most `MaxSessions` at a time, one answer for each connection. | 4 clients, limit 2, queue 2: the limit is reached with one client to refuse and one waiting. |
| `connection` | Flow control both ways (`LocalWindowBand`, `WindowRespected`), `OutputComplete` (all output precedes the exit status), `NoOrphan`, `OneChannelOneClose`, `DrainIsFinal`, `SessionAuthorised`, the order of messages (`WireRefined`); `HandshakeBounded`, `DrainBounded`, `CompletionNoticed`, `OverLimitCloses` | Threshold 2, refill 3, largest packet 2, 32-bit maximum 5: one packet makes a refill necessary, and one adjust too many overflows. Two bytes of output in chunks of one: an iteration between two chunks, and one that ends with output left. Peer windows 0 and 3: both a stalled and a sufficient one. Two attempts: failure, then success or the limit. |
| `identity` | Of the seed: `CreatorOwnsName` (nobody removes or writes another's), `CreatedIsDurable`, `ReturnedIsComplete`, `SeedRetained`. Of the clients: `RecordStable` (the record of a host is the one its first client left, whatever is appended at the same time or torn), `FirstUseBinds` (who reads the file after others have saved trusts a key one of them saved). Of both: `NoFalseAlarm` (a client is told that the host key changed only if a record was torn, or one of the two keys comes from an invocation that died or failed while others served its seed). | 3 invocations (creator, concurrent reader, a later start), seeds of 2 bytes (empty, short, complete), 1 power loss; 3 clients (two that append at once, one that comes later), 1 append that goes wrong. |
| `transport` | `Faithful`: what an end takes for received is a prefix of what the other has sent, not a packet left out, even after a send that failed and that its end ignored, and after a rekey that the client gave up. `KeystreamFresh`: no cipher block of a key serves two packets. `NoSpuriousDrop`: without faults, framing, counters and the change of keys agree. `KexCompletes`. | data of 24 bytes, whose 3 bytes to the block are too few and make a padding of 19 (the messages of the exchange have shorter ones), 3 data packets from each end, 2 re-exchanges (one that is given up, one behind it), 2 faults (one that is ignored, one behind it); sequence numbers modulo 4 wrap within a run. |
| `config` | `EffectiveOptions`: an option has the value of the command line, else of the first valid line in the blocks that select the host, else its default, by a definition that has no order of reading and matches patterns by cutting up the host's name; the key is the named one or the run ends. `CommandLineWins`. `CommandVerbatim`: the command is every word behind the target, options included, as long as they fit. | 5 words and lines together, out of 13 words and 10 lines: numbers at a port's limit and past it, a block that applies, one that does not, negated patterns; a buffer of 5 that a command fills to the last byte. |
| `client` | `TypeOK` (key exchanges nest), `ExitMirrorsStatus`; `LoginEnds`: with `--io-timeout` the login ends, or is in `discard` for ever; `DeadServerDropped`: when the server falls silent a command ends, by keepalives where the client waits for output, by `--io-timeout` in `recv_data()` and in a key exchange. Against a server that sends anything | waits of 2 packets, 2 nested exchanges, 2 banner lines, 1 connect retry, keepalive every 2 ticks with 1 unanswered allowed, buffer 2 with data of 0 and 3 bytes (empty, and cut off), statuses 3 and 258 (the second does not fit a byte), 2 bytes printed; every combination of batch mode, command, PTY and `--io-timeout`. |
| `exec` | `OutputIntact`: a client that got the status printed every byte and exits with it. `ClientAcceptable`: the client never sends what the server drops it for. `CommandEndsClient`, `ClientEndsServer` | 3 bytes of output in chunks of 2, windows of 4, close wait of 1 tick, keepalives on. |

`CHECK_DEADLOCK FALSE` is set where the modelled processes return (connection,
client, `host_seed()`, the configuration), where all clients have been served,
or where both ends of a transport may wait for input that need not come.

Each property has a mutation in its module, a definition named `Mutation` in its
comment, with which TLC finds it violated: an added `SA_RESTART`,
a dropped reset, a guard with the wrong comparison and the like.

Runs that show a disagreement between a document and the code:

| run | document | what the code does |
|---|---|---|
| `session_exit` | docs/SERVER_EMBEDDED.md:34-35 "exit-status forwarding" | SIGCHLD of the command's own exit interrupts `recv()` in the middle of a packet; the session takes that for a lost connection and sends no status. |
| `client_batch` | README.md:106 "missing credentials fail fast in this mode" | With neither key nor password the client skips the session and exits with 0. |
| `exec_window` | README.md:86 and 105, run a command and mirror its exit status | The client never grants more than its first window; with more output the server waits until its idle limit, and the client exits with 0 and part of the output. |
| `exec_alive` | README.md:97 "Drop dead idle sessions" | Keepalives are never answered, so a live server whose command is silent is dropped. |
| `rekey` | README.md:110-111 "Use `--rekey-interval` to trigger periodic key re-exchange [...] Server-initiated `SSH_MSG_KEXINIT` rekey events are also handled during active sessions." | Each exchange overwrites `session_id`, which the key derivation uses for exchange hash and session identifier: with a server that keeps the first identifier the two ends hold different keys after the re-exchange. |

Six facts that the models reach and that no run is about:

- A session that ended after the last `waitpid()` is still counted when the next
  connection is tested against the limit (`Daemon`): that connection is refused
  although a slot is free.
- After the command closed its output the poll time-out is 50 ms and does not
  count as idle (`Session`): a command that keeps running holds its session for
  as long as the peer is silent.
- A `known_hosts` file that cannot be opened is taken for one without records
  (`LookupUnreadable`), although the comment at `client/main.c:1157` has -1 for a
  read error: in mode accept-new a changed key is then trusted.
- Words of a command that no longer fit its buffer are read as options of the
  client (`JoinCommand`, `TakeWord`).
- A server that sends a line without an end holds the client's login for ever
  (`LongLine`): the limit on banner lines counts whole lines, and each byte has the
  whole of `--io-timeout`. `LoginEnds` leaves that line out by name.
- A server that dies behind a packet that is no data, or within a key exchange, is
  noticed by `--io-timeout` alone (`ReadsOn`), which the example of README.md:97 for
  keepalives does not set. Without that option `DeadServerDropped` speaks of the
  wait for output only, and says so.

`session_exit` and `exec_window` use a `HealthySpec` that removes every other
cause of failure: a transport that breaks, a peer that misbehaves, in
`exec_window` also the interrupted receive. With a window that holds all the
output `CommandReported` holds in that specification.

## 4. Fairness

No specification assumes anything of a peer, of a user or of what a command
does.

- `Daemon`: the listener runs when it can, and `accept()` does not fail for
  ever while connections wait (strong fairness of `AcceptClient`; its errors
  are transient). Nothing forces `AcceptError` or `ForkFails` to happen.
- `Connection`: the server process runs, its waits end (`SO_RCVTIMEO` and
  `SO_SNDTIMEO` of 10 seconds set by the listener, 30 minutes in `poll()`),
  the child gets to `setsid()`, and clocks go on (`HandshakeExpire`,
  `CloseWaitTick`). Leaving `discard` is not assumed: the loop that swallows an
  overlong line tests no deadline, and a peer that keeps sending keeps it
  going. `HandshakeBounded` says so.
- `Client`: `main()` runs and keepalive slices pass. A receive returns, with a packet
  or without, if `--io-timeout` was given (`opts.io_timeout`); without it a receive may
  take for ever, and so may `discard` with it. The user need not answer a prompt.
- `Transport`: each process takes the steps of a key exchange that it can take
  (weak fairness of `ClientExchange` and of `ServerExchange`). `KexCompletes`
  excludes failing sends and receives; nothing forces either end to send data,
  to close or to exchange keys again.
- `HostTrust` and `ClientConfig` state no liveness and assume no fairness.
- `ExecSystem`: both processes run, the close wait runs out, the child gets to
  `setsid()`.

## 5. Proofs

**DaemonProofs**, for every finite set of clients, every limit and backlog
greater than 0 (`DaemonAssumption`). `CounterExact` is not inductive: that the
counter never exceeds the limit needs `ForkBelowLimit` (it counts a fork whose
`active++` is still to come), and that an accepted connection gets one answer
needs `AdmitFresh` (the connection in the variable `client` is neither queued,
refused nor forked for). `DaemonInv` is their conjunction with `TypeOK`,
`CounterExact` and `AnsweredOnce`; one lemma per action that touches processes
or the queue, with the cardinality facts from `FiniteSetTheorems`. From it:
`DaemonTypeOK`, `DaemonCounterExact`, `DaemonSessionLimit`, `DaemonAnsweredOnce`
and `DaemonRefinesPool`, the refinement of `SessionPool`: `Fork` is `Admit`,
`Refuse` and `ForkFails` are `TurnAway`, `ChildExit` is `Finish`, and the rest
stutters.

**ConnectionProofs**, for every window, chunk size, number of attempts, banner
limit and peer, from `SessionAssumption` and `ConnectionAssumption`. Of the
sizes only this is assumed: the largest packet fits the window (35000 < 65536),
the refill exceeds the threshold (262144 > 65536), and their sum fits 32 bits.
The inductive invariant `IndInv` has seven parts:

- `TypeOK`;
- `HandshakeInv`: nothing is granted before the handshake is over;
- `ChannelInv`: one channel, tied to authentication, to the CLOSE sent for it
  and to the close wait. Without "a channel that was opened and is not open
  means close wait or teardown" a second channel could open;
- `ChildInv`: a child exists exactly where `srv_run_session_unix()` is;
- `WindowInv`: the receive window's band, and credit held + bytes sent at most
  what was granted;
- `OutputInv`: in the loop each byte written is sent, in the chunk, or in the
  pipe; once the end of the output is seen the pipe is empty for good. This is
  what makes `OutputComplete` inductive;
- `WireInv`: which messages of the completion have been sent at which place.

One lemma per action, combined by `NextInv`. From it: `ConnectionTypeOK`, the
seven safety properties of the run `connection`, and `ConnectionRefinesWire`.

`DaemonSessionLimit` and `DaemonAnsweredOnce` state properties that no run lists
by itself; `PoolRefined`, which the run `daemon` checks, implies both.

**HostTrustProofs**, first of the seed, for every set of invocations, every length of
a seed greater than 0 and every number of power losses (`HostSeedAssumption`). `SeedInv` adds to
`TypeOK` and the three invariants of the run:

- `NamedAreMade`: an inode with a name, on the disk or in memory, or with an open
  descriptor was made by an invocation that is past its `O_EXCL` open. This is
  what keeps a later creator from owning an inode that somebody still holds;
- `BufferMatchesPlace`: a creator's buffer holds its own seed;
- `SyncOrder`: the data is complete before its `fsync()`, and on the disk before
  that of the directory. `CreatedIsDurable` follows from it at the last step only.

From it `NameOwned`, `IdentityDurable`, `SeedComplete`, `SeedStays`
(`SeedRetained`), and `IdentityUnique`, which no run lists by itself: at most one
invocation creates an identity with success.

Then of the trust in it, for every set of clients and of invocations, with no bound
on the lines of the file. Of the constants only this is assumed: keys are
named after the invocations that made them (`HostTrustAssumption`), and the
lines that are no key differ from keys (`KnownHostsAssumption`). The argument has two
halves. `Record`, which the code finds by reading lines from the first one on,
depends on the first record alone, and every step only extends the file behind
it or continues an unended line that is no record (`Extends`, `RecordKept`); this is
`RecordStays`. Then `TrustInv`: every key in the file was saved by a client
(`LinesSaved`), a client that read others' records has decided by them
(`WitnessesDecide`), and the record that alarmed a client is still there
(`AlarmStands`); `FirstUseOnce` follows. `HTInv` adds `SeedInv` and `ShownAreMade` (a
key that a client was shown has a maker), from which `AlarmsJustified`: if neither
of the two keys of an alarm had a maker that died or failed, both were made with
success, and by `CreatedIsDurable` they are one. `IdentityIsHostSeed` shows that
`HostTrust` implements `HostSeed`, so that what is proved of the seed holds of the
composition (`IdentityTrusted`).

**ClientProofs**, for all limits, lengths and statuses (`ClientAssumption`), against a
server that sends anything. `TypeOK` contains `KexNests`, that the stack of
interrupted waits is one the code can return through; the lemmas about the
stack (`Push` and its converse) carry it. `ExitMirrorsStatus` is not inductive: a
status must not be known before the output is awaited, nor survive into another
place (`StatusInSession`). `ClientTypeCorrect` and `StatusMirrored` are the results.

**TransportProofs**, for all lengths, moduli of the sequence number and numbers of
packets, re-exchanges and faults (`TransportAssumption`). `KeystreamUsedOnce` needs
that the counter is past every block used under the present key (`CounterPast`),
that an end never goes back to an earlier key (`KeysGrow`), and for that, since the
number of an exchange travels in its packets, `OneExchange`. A client that leaves a
rekey leaves its messages on the wire, and may begin another one; so the argument is
not where each end is but whose turn it is: the turn goes from the server's KEXINIT to
ECDH_INIT, ECDH_REPLY and the client's NEWKEYS, is at one place at a time or lost
(`OneTurn`), and tells which end is one exchange ahead (`SecretsAgree`).

**DeliveryProofs**, from the same assumptions.

- `ReceivedIsSent` (`Faithful`). `DeliveryInv` relates four sequences for each
  direction: given to `send()`, on the wire, received, and to come. In the clear
  nothing is missing, because an end whose send fails is done (`Plain`). Under a key
  the packets carry rising counters (`History`), and of those to come only the next
  can have the receiver's counter (`CounterNext`): a packet behind a torn one is
  refused although its sequence number fits. In between, the NEWKEYS is the last
  packet under its key (`NewkeysLast`, `PlainNewkeys`), and the receiver's key is the
  one of the last exchange or the one before (`InKeys`, `ReplyFirst`). A client that
  left a rekey behind the ECDH_REPLY is the exception to both: it has a secret whose
  keys it will never use (`Lost`). It sends on under the old key behind its NEWKEYS, and
  it takes no KEXINIT any more, because those of the server are under the new key
  (`ServerKey`).
- `NothingRefused` (`NoSpuriousDrop`). `CalmInv` says, as long as nothing fails and
  keys are exchanged once, which packet has which number (`Script`), that sequence
  numbers and counters on the wire lead from the receiver's to the sender's
  (`Linked`, with the wrap-around), and where each end is by the packets it has sent
  and received (`Progress`).

**ExecProofs**, for every window, chunk size, amount of output and exit status.
`ExecAssumption` says what the two programs have in common: a chunk of the server
fits the client's buffer (both `NETNOX_SSH_MAX_DATA_LEN`), the client's window is
one the server may be sent, the server allows at least three attempts (six), and no
`--rekey-interval` is given, as in all of `ExecSystem`. `ExecInv` has `IndInv` of
`Connection` as its first part (`ExecIsConnection`: the server of the composition is
a `Connection`) and then

- `Talk`: while both run, each place of the client fixes the two queues and the
  stage of the server (`Lockstep`), except that the client's NEWKEYS, and the
  SERVICE_REQUEST behind it, may be unread while the client is already past the host
  key. When one process is gone only what the other may still read is fixed
  (`Inbox`, `Acceptable`);
- `Tries`: at most three requests for authentication (the key, the key again after
  the prompt, the password), so that the limit of the server is never met;
- `Counted`: from the bytes printed, the DATA packets under way lead to the bytes
  sent, and have led there where the exit status is. The sum is a function that
  exists (`Account`), not a recursive one: taking a packet off the head and putting
  one at the end each give the next function, without induction;
- `StatusLast`: a status that came is the command's, and only empty packets follow.

`ExecOutputIntact` adds `OutputComplete` of the server to `StatusLast`.
`ExecClientAcceptable` follows from `Talk`: in each branch of the dispatch the test
that would end the connection is false.

`ExecIsClient` shows that the client of the composition is a `Client`: each packet that
it reads is one that `Client` lets a server send (`ReadsAnyPacket`, from `Talk`). It
needs that the lengths and statuses of the two modules agree (`StreamAssumption`). With
`ExecIsConnection`, what is proved of either side alone holds of the two together.

**ConfigProofs**, for all words, lines and patterns and every length of the command
(`ConfigAssumption` gives the types of the parsed words and lines, nothing else).

- `PatternMatchCorrect`: the matcher, in which each `*` tries every rest of the host,
  accepts what `Covers` says, a cut of the host into pieces. TLA+ defines the matcher
  as some function that solves its recursive equation. `SolutionExists` takes `CoversFrom`
  (the rest of the pattern covers the rest of the host) and shows with `CoverEnd` and
  `CoverStep` that it is a solution; `SolutionRight` shows that every solution agrees
  with it, from the end of the pattern backwards. `ListMatchCorrect` adds the lists with
  their negated patterns.
- Induction over data is done without an induction rule: a set of exceptions that is
  not empty has a least one (`LeastNumber`, by the well-foundedness of the naturals), and
  the step refutes it (`Induction`). The length of a command is treated likewise: the
  function that counts exists, is unique, and grows by each word (`CountExists`,
  `CountUnique`, `LengthAppend`).
- `ConfigInv`. `EffectiveOptions` speaks of the end only, so each stage needs its part of
  it: while lines are read, `active` says whether the last Host line selects the host and
  each option of the file has the value of the first line that offers one (`FileRead`); an
  option nobody set has its default up to the merge (`DefaultsKept`), since the merge
  leaves it where the file is silent; after it each open option has its final value
  (`OptionsMerged`), then the key follows (`KeyChosen`). The host is never set by an
  option, and the user only by the target (`TargetOpen`). `CommandVerbatim` needs
  `CommandGrows`: the loop that joins the words returns to the options only when what
  was typed has filled the buffer; before that the command is all of it.

From it `ConfigEffectiveOptions`, `ConfigCommandVerbatim` and `ConfigCommandLineWins`.

TLC checked each of these inductive invariants on the constants of the runs
before it was proved.

**Only model-checked**: the properties with fairness, since TLAPS cannot prove
liveness or `ENABLED` here. Every invariant and every action property of the passing
runs is stated by a theorem.

## 6. What is not modelled

- **Cryptography.** Equal keys, counters and sequence numbers decrypt and
  authenticate, anything else does not. noxtls is outside this repository. The
  negotiation of algorithm names, of which both ends support one set, is left
  out.
- **Packets that break the framing.** `Transport` has the packets that
  `send_packet()` makes, whole or cut off; in `Connection` and `Client` a packet
  is received or the receive fails.
- **authorized_keys** and the decoding of OpenSSH key files: parsers without
  state; their verdicts are free choices of `Connection`, `Client` and
  `ClientConfig`.
- **Texts** of the configuration: white space, comments, case and `~` are read
  away by the code before anything is decided.
- **Windows and embedded variants.** They share no code with the POSIX loops;
  the Windows listener serves one connection at a time.
- **The 256 MiB counter** is the flag `over`, which may become true at any time;
  the places that test it are modelled.
- **Unbounded quantities** are bounded in the guards: output (`MaxOut`), grants
  of the peer (`MaxGrant`), printed bytes (`MaxPrinted`), power losses
  (`MaxLosses`), appends that go wrong (`MaxTorn`), data packets, re-exchanges and
  faults of a transport (`MaxData`, `MaxRekeys`, `MaxFaults`), words and lines
  (`MaxInput`), nested exchanges (`MAXDEPTH`, beyond which the client dies as it
  does when its stack is used up).

## 7. Plan

Done: the listener, the session, the connection, the host identity and the
trust in it, the packet layer and the key exchange, the configuration, the
client and the composition, each with its run; the proofs for the server, the
host identity, `known_hosts`, the packet layer, the client, the configuration and the
composition.

Left: the liveness properties, whose fairness arguments TLAPS cannot carry here.
