----------------------------- MODULE KnownHosts -----------------------------
(***************************************************************************)
(* noxssh_verify_host_key() of client/main.c: clients that share one       *)
(* known_hosts file decide whether to trust the key a server shows.  Only  *)
(* the lines that can concern one host and port are kept.  The file has no *)
(* lock: between a client's look-up and its append others come in.         *)
(*                                                                         *)
(* The results of fprintf() and fclose() are ignored, so an append may be  *)
(* lost or torn, and the next record continues a torn line.  What such a   *)
(* line means to sscanf() depends on where it is torn: nothing for this    *)
(* host, or this host with a piece of text for its fingerprint.            *)
(***************************************************************************)
EXTENDS Naturals, Sequences, FiniteSetsExt

CONSTANTS Clients,   \* invocations of the client
          Keys,      \* fingerprints of host keys
          NOKEY,     \* no key, no record
          MaxTorn    \* bound on the appends that go wrong

VARIABLES known_hosts,  \* lines of the file: a key, GARBLED or JUNK
          unended,      \* the last line has no newline
          verdict,      \* where each client is, or what it decided
          shown,        \* the key its server showed
          witnesses,    \* history: clients that had saved when it looked up
          torn

khVars == <<known_hosts, unended, verdict, shown, witnesses, torn>>

JUNK == "junk"        \* no record of this host
GARBLED == "garbled"  \* a record of this host with a fingerprint of no key

ASSUME KnownHostsAssumption ==
    /\ Keys \cap {NOKEY, JUNK, GARBLED} = {}
    /\ NOKEY \notin {JUNK, GARBLED}
    /\ MaxTorn \in Nat

\* "saved" and "unsaved" clients both said that the key was saved.
Trusted == {"matched", "pinned", "forced", "saved", "unsaved"}
Verdicts == Trusted \cup {"idle", "verify", "ask", "append", "alarmed", "rejected"}

KHInit ==
    /\ known_hosts = <<>> /\ unended = FALSE
    /\ verdict = [c \in Clients |-> "idle"]
    /\ shown = [c \in Clients |-> NOKEY]
    /\ witnesses = [c \in Clients |-> {}]
    /\ torn = 0

Decide(c, what) == verdict' = [verdict EXCEPT ![c] = what]

\* The key exchange is over and the server has shown key k.
Connect(c, k) ==
    /\ verdict[c] = "idle"
    /\ shown' = [shown EXCEPT ![c] = k]
    /\ Decide(c, "verify")
    /\ UNCHANGED <<known_hosts, unended, witnesses, torn>>

\* --host-key-pin: the file is not looked at.
Pinned(c) ==
    /\ verdict[c] = "verify"
    /\ \E pin \in Keys : Decide(c, IF shown[c] = pin THEN "pinned" ELSE "rejected")
    /\ UNCHANGED <<known_hosts, unended, shown, witnesses, torn>>

\* The lines that are records of the host.
Records(lines) == {i \in DOMAIN lines : lines[i] # JUNK}

\* Mutation: the last record of the host is taken.
LastRecord(lines) ==
    IF Records(lines) = {} THEN NOKEY ELSE lines[Max(Records(lines))]

\* noxssh_lookup_known_host(): the first record of the host.
Record(lines) ==
    IF Records(lines) = {} THEN NOKEY ELSE lines[Min(Records(lines))]

\* What becomes of a host without a record in each mode; "ask" is not asked in
\* batch mode.
Unknown(mode, batch) ==
    CASE mode = "yes" -> "rejected"
      [] mode = "no" -> "forced"
      [] mode = "accept-new" -> "append"
      [] mode = "ask" -> IF batch THEN "rejected" ELSE "ask"

Modes == {"yes", "no", "accept-new", "ask"}

\* Mutation: a key that does not match the record is taken for a new one.
KnownAsUnknown(c, rec, mode) ==
    IF rec = shown[c] THEN "matched" ELSE Unknown(mode, FALSE)

\* What becomes of a host whose record is rec.
Known(c, rec, mode) ==
    IF rec = shown[c] THEN "matched" ELSE IF mode = "no" THEN "forced" ELSE "alarmed"

Saved == {c \in Clients : verdict[c] = "saved"}

Lookup(c) ==
    /\ verdict[c] = "verify"
    /\ \E mode \in Modes, batch \in BOOLEAN :
         LET rec == Record(known_hosts)
         IN  Decide(c, IF rec = NOKEY THEN Unknown(mode, batch) ELSE Known(c, rec, mode))
    /\ witnesses' = [witnesses EXCEPT ![c] = Saved]
    /\ UNCHANGED <<known_hosts, unended, shown, torn>>

\* fopen() of the file fails: taken for a file without a record.
LookupUnreadable(c) ==
    /\ verdict[c] = "verify"
    /\ known_hosts # <<>>
    /\ \E mode \in Modes, batch \in BOOLEAN : Decide(c, Unknown(mode, batch))
    /\ UNCHANGED <<known_hosts, unended, shown, witnesses, torn>>

\* The user types "yes", or anything else.
Answer(c) ==
    /\ verdict[c] = "ask"
    /\ Decide(c, "append") \/ Decide(c, "rejected")
    /\ UNCHANGED <<known_hosts, unended, shown, witnesses, torn>>

\* The directory or the file cannot be made or opened.
AppendFails(c) ==
    /\ verdict[c] = "append"
    /\ Decide(c, "rejected")
    /\ UNCHANGED <<known_hosts, unended, shown, witnesses, torn>>

\* What can follow a line that has no newline: a key stays readable, since 64
\* characters of fingerprint are taken; a torn one is junk or garbled.
Continued(line) ==
    IF line = JUNK THEN {JUNK, GARBLED} ELSE {line}

\* noxssh_append_known_host(): one line, in one write.
AppendRecord(c) ==
    /\ verdict[c] = "append"
    /\ IF unended
       THEN /\ \E line \in Continued(known_hosts[Len(known_hosts)]) :
                 known_hosts' = [known_hosts EXCEPT ![Len(known_hosts)] = line]
            /\ Decide(c, "unsaved")
       ELSE /\ known_hosts' = Append(known_hosts, shown[c])
            /\ Decide(c, "saved")
    /\ unended' = FALSE
    /\ UNCHANGED <<shown, witnesses, torn>>

\* The disk is full: a piece of the line, or all but its newline, is written,
\* and the result is not looked at.
AppendTorn(c) ==
    /\ verdict[c] = "append"
    /\ torn < MaxTorn
    /\ torn' = torn + 1
    /\ IF unended
       THEN /\ \E line \in Continued(known_hosts[Len(known_hosts)]) :
                 known_hosts' = [known_hosts EXCEPT ![Len(known_hosts)] = line]
            /\ Decide(c, "unsaved")
       ELSE \E line \in {JUNK, GARBLED, shown[c]} :
                 /\ known_hosts' = Append(known_hosts, line)
                 /\ Decide(c, IF line = shown[c] THEN "saved" ELSE "unsaved")
    /\ unended' = TRUE
    /\ UNCHANGED <<shown, witnesses>>

\* Nothing of the line is written, and the result is not looked at.
AppendLost(c) ==
    /\ verdict[c] = "append"
    /\ torn < MaxTorn
    /\ torn' = torn + 1
    /\ Decide(c, "unsaved")
    /\ UNCHANGED <<known_hosts, unended, shown, witnesses>>

Verify(c) ==
    \/ Pinned(c) \/ Lookup(c) \/ LookupUnreadable(c) \/ Answer(c)
    \/ AppendFails(c) \/ AppendRecord(c) \/ AppendTorn(c) \/ AppendLost(c)

----------------------------------------------------------------------------
\* The record of a host is the one its first client left: neither a client
\* that trusted another key at the same time nor a torn line replaces it.
RecordStable ==
    [][Record(known_hosts) # NOKEY => Record(known_hosts') = Record(known_hosts)]_khVars

\* README.md: "Auto-trust first-seen host keys, reject changed keys".  A key is
\* seen for the first time once: a client that trusts without being forced,
\* and that read the file after others had saved, trusts a key one of them
\* saved.  (A file that cannot be opened counts for an empty one.)
FirstUseBinds ==
    \A c \in Clients :
        verdict[c] \in {"matched", "saved", "unsaved"} /\ witnesses[c] # {}
            => \E d \in witnesses[c] : shown[d] = shown[c]
=============================================================================
