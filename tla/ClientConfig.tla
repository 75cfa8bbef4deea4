---------------------------- MODULE ClientConfig ----------------------------
(***************************************************************************)
(* What noxssh works with: main() of client/main.c reads its arguments,    *)
(* the part of ~/.ssh/config that applies to the host, merges the two and  *)
(* chooses the private key.  Arguments and lines are supplied one by one.  *)
(*                                                                         *)
(* A word is what the code makes of it: a number, a target, the name of a  *)
(* mode, or text.  Case is folded, white space, comments and malformed     *)
(* lines of the file are skipped by the code and left out, and an ~ that   *)
(* is expanded leaves the same path.  Host names and patterns are spelled  *)
(* out, since the matching of one against the other is modelled.           *)
(***************************************************************************)
EXTENDS Integers, Sequences, FiniteSetsExt

CONSTANTS Words,     \* words of the command line and values in the file
          Number,    \* what strtoul() makes of each, UNSET if it is no number
          Parts,     \* a word as a target: [user, host, text], UNSET if invalid
          Size,      \* its length; empty arguments are left out
          HexKeys,   \* words of 64 hexadecimal digits
          Dashed,    \* words that begin with '-' and are no option
          Lines,     \* lines of the file: [key, val], val a word or patterns
          UNSET,     \* not set
          ROOM,      \* NOXSSH_MAX_COMMAND_LEN
          MaxInput   \* bound on the arguments and lines together

ASSUME ConfigAssumption ==
    /\ \A w \in Words :
         /\ Number[w] \in Nat \cup {UNSET} /\ Size[w] \in Nat \ {0}
         /\ Parts[w] # UNSET => Parts[w].text \in Seq(STRING)
    /\ \A l \in Lines :
         l.key = "Host" => l.val \in Seq([negate : BOOLEAN, text : Seq(STRING)])
    /\ ROOM \in Nat \ {0} /\ MaxInput \in Nat

VARIABLES stage,     \* where main() is
          argv,      \* arguments read so far
          pending,   \* the option whose value is the next argument
          value,     \* the local variables that options set
          cli,       \* options set on the command line: the _set_cli flags
          target, start, command,  \* start: index of the command in argv
          lines,     \* lines read so far
          active,    \* active_block
          cfg,       \* noxssh_ssh_config_t
          key        \* source of the private key

vars == <<stage, argv, pending, value, cli, target, start, command, lines, active, cfg, key>>
argVars == <<argv, pending, cli, target, start, command>>
fileVars == <<lines, active, cfg>>

----------------------------------------------------------------------------
(* Tables: which word sets which option, and what it accepts.              *)

\* Options with a number, and the bounds of the number.
Numeric ==
    [w \in {"-p", "--connect-retries", "--connect-timeout", "--io-timeout",
            "--server-alive-interval", "--server-alive-count-max", "--rekey-interval"} |->
        CASE w = "-p" -> [o |-> "port", lo |-> 1, hi |-> 65535]
          [] w = "--connect-retries" -> [o |-> "retries", lo |-> 0, hi |-> 100]
          [] w = "--connect-timeout" -> [o |-> "connect_timeout", lo |-> 0, hi |-> 600000]
          [] w = "--io-timeout" -> [o |-> "io_timeout", lo |-> 0, hi |-> 600000]
          [] w = "--server-alive-interval" -> [o |-> "alive_interval", lo |-> 0, hi |-> 3600]
          [] w = "--server-alive-count-max" -> [o |-> "alive_count", lo |-> 0, hi |-> 100]
          [] w = "--rekey-interval" -> [o |-> "rekey", lo |-> 0, hi |-> 86400]]

\* Options with any text, and options with a hexadecimal key.
Text ==
    [w \in {"-i", "-w", "--known-hosts-file"} |->
        CASE w = "-i" -> "identity" [] w = "-w" -> "password" [] OTHER -> "known_hosts"]
Hex ==
    [w \in {"--ed25519-key", "--host-key-pin"} |-> IF w = "--ed25519-key" THEN "seed" ELSE "pin"]

\* Options without a value.
Flags ==
    [w \in {"-d", "-dd", "-ddd", "-T", "--batch", "--strict-host-key"} |->
        CASE w = "-d" -> [o |-> "debug", v |-> 1]
          [] w = "-dd" -> [o |-> "debug", v |-> 2]
          [] w = "-ddd" -> [o |-> "debug", v |-> 3]
          [] w = "-T" -> [o |-> "pty", v |-> FALSE]
          [] w = "--batch" -> [o |-> "batch", v |-> TRUE]
          [] w = "--strict-host-key" -> [o |-> "strict", v |-> "yes"]]

StrictMode == "--strict-host-key-checking"
Help == {"-h", "--help"}
WithValue == DOMAIN Numeric \cup DOMAIN Text \cup DOMAIN Hex \cup {StrictMode}
IsOption(w) == w \in WithValue \cup DOMAIN Flags \cup Help \cup Dashed

\* noxssh_parse_strict_host_key_mode().
Mode(w) ==
    CASE w \in {"yes", "true"} -> "yes"
      [] w \in {"no", "off", "false"} -> "no"
      [] w \in {"accept-new", "ask"} -> w
      [] OTHER -> UNSET

\* A number within bounds, times scale.
Bounded(w, lo, hi, scale) ==
    IF Number[w] # UNSET /\ Number[w] \in lo..hi THEN Number[w] * scale ELSE UNSET

\* The option that word w sets with the next word v, and the value; UNSET is
\* an error.
OptionOf(w) ==
    CASE w \in DOMAIN Numeric -> Numeric[w].o
      [] w \in DOMAIN Text -> Text[w]
      [] w \in DOMAIN Hex -> Hex[w]
      [] w = StrictMode -> "strict"

ValueOf(w, v) ==
    CASE w \in DOMAIN Numeric -> Bounded(v, Numeric[w].lo, Numeric[w].hi, 1)
      [] w \in DOMAIN Text -> v
      [] w \in DOMAIN Hex -> IF v \in HexKeys THEN v ELSE UNSET
      [] w = StrictMode -> Mode(v)

\* Keys of the file: the option each sets and the value, UNSET is ignored.
FileNumeric ==
    [Port |-> [o |-> "port", lo |-> 1, hi |-> 65535, scale |-> 1],
     ConnectTimeout |-> [o |-> "connect_timeout", lo |-> 0, hi |-> 600, scale |-> 1000],
     ServerAliveInterval |-> [o |-> "alive_interval", lo |-> 0, hi |-> 3600, scale |-> 1],
     ServerAliveCountMax |-> [o |-> "alive_count", lo |-> 0, hi |-> 100, scale |-> 1],
     RekeyInterval |-> [o |-> "rekey", lo |-> 0, hi |-> 86400, scale |-> 1]]

FileText ==
    [HostName |-> "host", User |-> "user", IdentityFile |-> "identity",
     UserKnownHostsFile |-> "known_hosts", StrictHostKeyChecking |-> "strict",
     BatchMode |-> "batch"]

FileOption(k) == IF k \in DOMAIN FileNumeric THEN FileNumeric[k].o ELSE FileText[k]

FileValue(k, v) ==
    CASE k \in DOMAIN FileNumeric ->
            Bounded(v, FileNumeric[k].lo, FileNumeric[k].hi, FileNumeric[k].scale)
      [] k = "StrictHostKeyChecking" -> Mode(v)
      [] k = "BatchMode" -> (v = "yes")
      [] OTHER -> v

Options ==
    {Numeric[w].o : w \in DOMAIN Numeric} \cup {Flags[w].o : w \in DOMAIN Flags}
    \cup {Text[w] : w \in DOMAIN Text} \cup {Hex[w] : w \in DOMAIN Hex} \cup {"user", "host"}

\* The initial values of the local variables.
Default ==
    [o \in Options |->
        CASE o = "port" -> 22
          [] o = "alive_count" -> 3
          [] o \in {"retries", "connect_timeout", "io_timeout", "alive_interval", "rekey", "debug"} -> 0
          [] o = "strict" -> "ask"
          [] o = "batch" -> FALSE
          [] o = "pty" -> TRUE
          [] o = "user" -> "user"
          [] OTHER -> UNSET]

Init ==
    /\ stage = "args" /\ argv = <<>> /\ pending = UNSET
    /\ value = Default /\ cli = {}
    /\ target = UNSET /\ start = 0 /\ command = <<>>
    /\ lines = <<>> /\ active = FALSE
    /\ cfg = [o \in Options |-> UNSET]
    /\ key = UNSET

----------------------------------------------------------------------------
(* The arguments.                                                          *)

Set(o, v) == value' = [value EXCEPT ![o] = v] /\ cli' = cli \cup {o}
Fail == stage' = "exit" /\ UNCHANGED <<value, cli>>

\* The word that an option has been waiting for.
TakeValue(w) ==
    /\ pending # UNSET
    /\ pending' = UNSET
    /\ LET v == ValueOf(pending, w)
       IN  IF v = UNSET THEN Fail ELSE Set(OptionOf(pending), v) /\ stage' = "args"
    /\ UNCHANGED <<target, start, command>>

TakeOption(w) ==
    /\ pending = UNSET
    /\ w \in WithValue
    /\ pending' = w
    /\ stage' = "args"
    /\ UNCHANGED <<value, cli, target, start, command>>

TakeFlag(w) ==
    /\ pending = UNSET
    /\ w \in DOMAIN Flags
    /\ Set(Flags[w].o, Flags[w].v)
    /\ stage' = "args"
    /\ UNCHANGED <<pending, target, start, command>>

\* -h, or a word that begins with '-' and is no option.
TakeLast(w) ==
    /\ pending = UNSET
    /\ w \in Help \cup Dashed
    /\ Fail
    /\ UNCHANGED <<pending, target, start, command>>

TakeTarget(w) ==
    /\ pending = UNSET
    /\ ~IsOption(w)
    /\ target = UNSET
    /\ target' = w
    /\ stage' = "args"
    /\ UNCHANGED <<pending, value, cli, start, command>>

\* Length of a command: its words and a space between two.
Length(words) ==
    LET total[k \in 0..Len(words)] == IF k = 0 THEN 0 ELSE total[k - 1] + Size[words[k]]
    IN  total[Len(words)] + Len(words) - 1

\* Mutation: the space before the word is not counted.
FitsWithoutSpace(w) == Length(command) + Size[w] <= ROOM

\* The word and the space before it have room; one unit would not do.
Fits(w) == ROOM - Length(command) >= 2 /\ Size[w] + 1 <= ROOM - Length(command)

\* The first word of the command; strncpy() cuts it at the end of the buffer.
TakeCommand(w) ==
    /\ pending = UNSET
    /\ ~IsOption(w)
    /\ target # UNSET /\ start = 0
    /\ start' = Len(argv) + 1
    /\ command' = <<w>>
    /\ stage' = IF Size[w] < ROOM THEN "command" ELSE "args"
    /\ UNCHANGED <<pending, value, cli, target>>

\* A word that is no option behind a command that is full: ignored.
SkipWord(w) ==
    /\ pending = UNSET
    /\ ~IsOption(w)
    /\ start # 0
    /\ stage' = "args"
    /\ UNCHANGED <<pending, value, cli, target, start, command>>

TakeWord(w) ==
    \/ TakeValue(w) \/ TakeOption(w) \/ TakeFlag(w) \/ TakeLast(w)
    \/ TakeTarget(w) \/ TakeCommand(w) \/ SkipWord(w)

\* The inner loop: words join the command while they fit; the first that does
\* not is taken like any other argument, and so are those behind it.
JoinCommand(w) ==
    IF Fits(w)
    THEN /\ command' = Append(command, w)
         /\ UNCHANGED <<stage, pending, value, cli, target, start>>
    ELSE TakeWord(w)

NextArgument ==
    /\ Len(argv) < MaxInput
    /\ \E w \in Words :
         /\ argv' = Append(argv, w)
         /\ \/ stage = "args" /\ TakeWord(w)
            \/ stage = "command" /\ JoinCommand(w)
    /\ UNCHANGED <<fileVars, key>>

\* The end of the arguments: an option without a value, or an invalid target,
\* ends the run; user@ counts as set on the command line.
Arguments ==
    /\ stage \in {"args", "command"}
    /\ IF pending # UNSET \/ target = UNSET
       THEN Fail
       ELSE IF Parts[target] = UNSET
       THEN Fail
       ELSE /\ stage' = "config"
            /\ IF Parts[target].user # UNSET THEN Set("user", Parts[target].user)
               ELSE UNCHANGED <<value, cli>>
    /\ UNCHANGED <<argv, pending, target, start, command, fileVars, key>>

----------------------------------------------------------------------------
(* The file.                                                               *)

\* noxssh_host_pattern_match(): m[i][j] matches the pattern from i on against
\* the host from j on.
HostPatternMatch(p, h) ==
    LET m[i \in 1..(Len(p) + 1)] ==
          [j \in 1..(Len(h) + 1) |->
              IF i > Len(p) THEN j > Len(h)
              ELSE IF p[i] = "*" THEN \E k \in j..(Len(h) + 1) : m[i + 1][k]
              ELSE j <= Len(h) /\ p[i] \in {"?", h[j]} /\ m[i + 1][j + 1]]
    IN  m[1][1]

\* Mutation: a pattern that matches decides, though a negated one follows it.
FirstPatternDecides(patterns, h) ==
    LET hits == {k \in 1..Len(patterns) : HostPatternMatch(patterns[k].text, h)}
    IN  hits # {} /\ ~patterns[Min(hits)].negate

\* noxssh_host_list_matches(): a negated pattern that matches is final, and one
\* that is not negated must match.
HostListMatches(patterns, h) ==
    LET hits == {k \in 1..Len(patterns) : HostPatternMatch(patterns[k].text, h)}
    IN  hits # {} /\ \A k \in hits : ~patterns[k].negate

HostLine(l) ==
    /\ l.key = "Host"
    /\ active' = HostListMatches(l.val, Parts[target].text)
    /\ UNCHANGED cfg

\* In a block that applies, the first valid line of a key wins.
OptionLine(l) ==
    /\ l.key # "Host"
    /\ LET o == FileOption(l.key)
       IN  cfg' = IF active /\ cfg[o] = UNSET
                  THEN [cfg EXCEPT ![o] = FileValue(l.key, l.val)] ELSE cfg
    /\ UNCHANGED active

NextLine ==
    /\ stage = "config"
    /\ Len(argv) + Len(lines) < MaxInput
    /\ \E l \in Lines :
         /\ lines' = Append(lines, l)
         /\ HostLine(l) \/ OptionLine(l)
    /\ UNCHANGED <<stage, argVars, value, key>>

\* Mutation: the file is not asked whether the command line came first.
AlwaysFromFile(o) == o = "identity" => "seed" \notin cli

\* Whether an option takes its value from the file.
FromFile(o) == o \notin cli /\ (o = "identity" => "seed" \notin cli)

\* The end of the file, or none: the merge.  The host is its alias unless the
\* file names another.
Merge ==
    /\ stage = "config"
    /\ stage' = "identity"
    /\ LET read == [value EXCEPT !["host"] = Parts[target].host]
       IN  value' = [o \in Options |->
                        IF FromFile(o) /\ cfg[o] # UNSET THEN cfg[o] ELSE read[o]]
    /\ UNCHANGED <<argVars, fileVars, key>>

----------------------------------------------------------------------------
(* The private key, after the connection is made and the host is trusted.  *)

\* noxssh_load_ed25519_seed_file() by what is in the file: 64 hexadecimal
\* digits with any other text between them, or an OpenSSH key.
Contents == {"missing", "openssh", "encrypted", "hex", "overlong", "other"}
LoadSeedFile(what) ==
    CASE what \in {"openssh", "hex"} -> "success"
      [] what = "encrypted" -> "encrypted"
      [] OTHER -> "failed"

DefaultPaths == <<".ssh/id_ed25519", ".ssh/id_ed25519.seed", ".noxssh/id_ed25519.seed">>

\* noxssh_try_load_default_identity(): the first that loads, unless an
\* encrypted one comes first.
TryLoadDefaultIdentity(what) ==
    LET found == {k \in 1..Len(DefaultPaths) : LoadSeedFile(what[k]) # "failed"}
    IN  IF found # {} /\ LoadSeedFile(what[Min(found)]) = "success"
        THEN DefaultPaths[Min(found)] ELSE UNSET

\* -i or IdentityFile: replaces the seed of --ed25519-key, and must load.
NamedIdentity ==
    /\ stage = "identity"
    /\ value["identity"] # UNSET
    /\ \E what \in Contents :
         IF LoadSeedFile(what) = "success"
         THEN key' = value["identity"] /\ stage' = "ready"
         ELSE stage' = "exit" /\ UNCHANGED key
    /\ UNCHANGED <<argVars, fileVars, value>>

GivenSeed ==
    /\ stage = "identity"
    /\ value["identity"] = UNSET
    /\ value["seed"] # UNSET
    /\ key' = value["seed"]
    /\ stage' = "ready"
    /\ UNCHANGED <<argVars, fileVars, value>>

DefaultIdentity ==
    /\ stage = "identity"
    /\ value["identity"] = UNSET
    /\ value["seed"] = UNSET
    /\ \E what \in [1..Len(DefaultPaths) -> {"missing", "encrypted", "openssh"}] :
         key' = TryLoadDefaultIdentity(what)
    /\ stage' = "ready"
    /\ UNCHANGED <<argVars, fileVars, value>>

Next ==
    \/ NextArgument \/ Arguments \/ NextLine \/ Merge
    \/ NamedIdentity \/ GivenSeed \/ DefaultIdentity

Spec == Init /\ [][Next]_vars

----------------------------------------------------------------------------
\* What a pattern means, without an order of matching: the host can be cut
\* into as many pieces as the pattern has characters, each fitting its own.
Covers(p, h) ==
    \E cut \in [0..Len(p) -> 0..Len(h)] :
        /\ cut[0] = 0 /\ cut[Len(p)] = Len(h)
        /\ \A i \in 1..Len(p) :
             IF p[i] = "*" THEN cut[i] >= cut[i - 1]
             ELSE cut[i] = cut[i - 1] + 1 /\ p[i] \in {"?", h[cut[i]]}

Selects(patterns) ==
    LET hit(k) == Covers(patterns[k].text, Parts[target].text)
    IN  /\ \E k \in 1..Len(patterns) : ~patterns[k].negate /\ hit(k)
        /\ \A k \in 1..Len(patterns) : patterns[k].negate => ~hit(k)

\* Line i is in a block whose Host line selects the target.
Governs(i) ==
    \E b \in 1..(i - 1) :
        /\ lines[b].key = "Host" /\ Selects(lines[b].val)
        /\ \A k \in (b + 1)..i : lines[k].key # "Host"

\* Lines that have a valid value for option o and apply.
Offers(o) ==
    {i \in 1..Len(lines) :
        /\ lines[i].key # "Host" /\ Governs(i)
        /\ FileOption(lines[i].key) = o /\ FileValue(lines[i].key, lines[i].val) # UNSET}

Expected(o) ==
    IF Offers(o) # {}
    THEN FileValue(lines[Min(Offers(o))].key, lines[Min(Offers(o))].val)
    ELSE IF o = "host" THEN Parts[target].host ELSE Default[o]

\* An option that the command line leaves open has the value of the first valid
\* line, in the blocks whose patterns select the host, or its default; a seed
\* on the command line closes the identity.  The key is the one so named, or
\* the run ends: a named key that does not load is never replaced by another.
EffectiveOptions ==
    /\ stage \in {"identity", "ready"} =>
         \A o \in Options \ cli :
            value[o] = IF o = "identity" /\ "seed" \in cli THEN UNSET ELSE Expected(o)
    /\ stage = "ready" =>
         CASE value["identity"] # UNSET -> key = value["identity"]
           [] value["identity"] = UNSET /\ value["seed"] # UNSET -> key = value["seed"]
           [] OTHER -> key \in {UNSET} \cup {DefaultPaths[k] : k \in 1..Len(DefaultPaths)}

\* README.md: "CLI flags still take precedence": neither the words of a command
\* nor the file nor the merge changes what an option has set.  (The words of
\* a command that no longer fit its buffer are options again.)
CommandLineWins ==
    [][stage # "args" /\ stage' # "args" => \A o \in cli : value'[o] = value[o]]_vars

\* The command is every word behind the target's, options included, as long as
\* they fit; and it never runs over its buffer.
CommandVerbatim ==
    start # 0 =>
        LET words == SubSeq(argv, start, Len(argv))
        IN  /\ Length(words) <= ROOM => command = words
            /\ Len(command) > 1 => Length(command) <= ROOM
=============================================================================
