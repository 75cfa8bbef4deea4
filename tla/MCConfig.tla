------------------------------ MODULE MCConfig ------------------------------
(* Up to five arguments and lines together, enough for two options with a    *)
(* value and a target, for an option, a target and a block of the file, and  *)
(* for a command that fills its buffer with an option behind it.  The        *)
(* numbers are at the limit of a port and past it.                           *)
EXTENDS ClientConfig

MCWords == {"-p", "-i", "--ed25519-key", "--strict-host-key-checking", "--batch", "-x",
            "65535", "65536", "hex", "no", "ab", "me@ab", "@"}

MCNumber == [w \in MCWords |-> CASE w = "65535" -> 65535 [] w = "65536" -> 65536 [] OTHER -> UNSET]

MCParts ==
    [w \in MCWords |->
        CASE w = "@" -> UNSET
          [] w = "me@ab" -> [user |-> "me", host |-> "ab", text |-> <<"a", "b">>]
          [] OTHER -> [user |-> UNSET, host |-> w, text |-> <<"a", "b">>]]

MCSize ==
    [w \in MCWords |-> CASE w \in {"-p", "-i", "-x", "ab", "@"} -> 2 [] w = "no" -> 3 [] OTHER -> 5]

Pattern(text) == [negate |-> FALSE, text |-> text]
Not(text) == [negate |-> TRUE, text |-> text]

MCLines ==
    {[key |-> "Host", val |-> v] :
        v \in {<<Pattern(<<"a", "*">>)>>, <<Pattern(<<"*">>), Not(<<"a", "b">>)>>,
               <<Not(<<"b">>)>>, <<Pattern(<<"*", "?", "b">>), Not(<<"?">>)>>}}
    \cup {[key |-> "Port", val |-> v] : v \in {"65535", "65536"}}
    \cup {[key |-> "BatchMode", val |-> "no"], [key |-> "IdentityFile", val |-> "ab"],
          [key |-> "HostName", val |-> "hex"], [key |-> "StrictHostKeyChecking", val |-> "no"]}
=============================================================================
