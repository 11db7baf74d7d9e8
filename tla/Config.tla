------------------------------- MODULE Config -------------------------------
(***************************************************************************)
(* internal/config: how the server and the agent get their options from    *)
(* the environment, the command line, a JSON file and built-in defaults.   *)
(*                                                                         *)
(* A configuration is a record of options; "", 0 and FALSE are the zero    *)
(* values mergo takes for absent.  A source s of configuration has         *)
(*   s.env   the options given by environment variables (env.Parse passes  *)
(*           over an empty variable), CONFIG under "c"                     *)
(*   s.args  the flags in order, as pairs <<option, value>>, -c and        *)
(*           -config as "c"                                                *)
(*   s.extra whether there are arguments after the flags                   *)
(*   s.files the JSON files by path, each a record of the options it gives,*)
(*           durations in milliseconds, or Bad when it is not JSON.        *)
(* Flags and variables of the wrong type end the process and are left out. *)
(***************************************************************************)
EXTENDS Integers, Sequences, FiniteSetsExt

CONSTANTS Bad,     \* text that does not parse
          NoConfig \* an error in place of a configuration

ServerZero == [address |-> "", key |-> "", interval |-> 0, file |-> "", restore |-> FALSE,
               dsn |-> "", limit |-> 0, auditFile |-> "", auditURL |-> "", crypto |-> "",
               subnet |-> "", grpc |-> ""]

serverDefaults == [ServerZero EXCEPT !.address = "localhost:8080", !.limit = 5,
                                     !.interval = 300, !.file = "metrics-db.json"]

AgentZero == [address |-> "", poll |-> 0, report |-> 0, key |-> "", limit |-> 0,
              crypto |-> "", grpc |-> ""]

agentDefaults == [AgentZero EXCEPT !.address = "localhost:8080", !.poll = 2,
                                   !.report = 10, !.limit = 5]

Durations == {"interval", "poll", "report"}

(* int(d.Seconds()) of a time.Duration. *)
Seconds(ms) == IF ms >= 0 THEN ms \div 1000 ELSE -((-ms) \div 1000)

-----------------------------------------------------------------------------
(* The flag package keeps the last of several values of a flag. *)
Uses(s, o)   == {i \in 1..Len(s.args) : s.args[i][1] = o}
LastArg(s, o) == s.args[Max(Uses(s, o))][2]

FindConfigPath(s) ==
    IF Uses(s, "c") # {} THEN LastArg(s, "c")
    ELSE IF "c" \in DOMAIN s.env THEN s.env["c"] ELSE ""

(* The options of the JSON file, none when no file is named. *)
JSONFile(s) == LET path == FindConfigPath(s) IN
           IF path = "" THEN <<>> ELSE IF path \in DOMAIN s.files THEN s.files[path] ELSE Bad

(* The fields of serverJSONConfig and agentJSONConfig; others are ignored. *)
JSONOptions == Durations \cup {"address", "restore", "file", "dsn", "crypto", "subnet", "grpc"}

(* Those a file gives to the program whose options zero has. *)
GivenBy(zero, json) == DOMAIN zero \cap JSONOptions \cap DOMAIN json

BadDuration(zero, json) == \E o \in Durations \cap GivenBy(zero, json) : json[o] = Bad

(* serverConfigFromJSON and agentConfigFromJSON. *)
FromJSON(zero, json) ==
    [o \in DOMAIN zero |->
        IF o \notin GivenBy(zero, json) THEN zero[o]
        ELSE IF o \in Durations THEN Seconds(json[o]) ELSE json[o]]

(* mergo.Merge: the fields that are zero take the value of the default. *)
MergeOver(zero, cfg, defaults) ==      \* mutant: every default that is not zero wins
    [o \in DOMAIN zero |-> IF defaults[o] = zero[o] THEN cfg[o] ELSE defaults[o]]
Merge(zero, cfg, defaults) ==
    [o \in DOMAIN zero |-> IF cfg[o] = zero[o] THEN defaults[o] ELSE cfg[o]]

(* Flags, with the merged values as their defaults, then the environment. *)
Overlay(s, cfg) ==
    [o \in DOMAIN cfg |->
        IF o \in DOMAIN s.env THEN s.env[o]
        ELSE IF Uses(s, o) # {} THEN LastArg(s, o) ELSE cfg[o]]

Parse(s, zero, defaults) ==
    LET json == JSONFile(s) IN
    IF json = Bad THEN NoConfig
    ELSE IF BadDuration(zero, json) THEN NoConfig
    ELSE Overlay(s, Merge(zero, FromJSON(zero, json), defaults))

ParseFlags(s) == IF s.extra THEN NoConfig ELSE Parse(s, ServerZero, serverDefaults)

(* A rate limit that makes no pool takes the default; extra arguments pass. *)
ParseAgentFlags(s) ==
    LET cfg == Parse(s, AgentZero, agentDefaults) IN
    IF cfg = NoConfig THEN NoConfig
    ELSE IF cfg.limit <= 0 THEN [cfg EXCEPT !.limit = agentDefaults.limit] ELSE cfg

-----------------------------------------------------------------------------
(***************************************************************************)
(* "Priority (highest -> lowest): env vars > CLI flags > JSON file >       *)
(* built-in defaults" (config.go:3): each option has the value of the      *)
(* first of the four that gives it.                                        *)
(***************************************************************************)
Layers(s, zero, defaults) ==
    LET json == JSONFile(s) IN
    << s.env,
       [o \in {a[1] : a \in {s.args[i] : i \in 1..Len(s.args)}} |-> LastArg(s, o)],
       [o \in GivenBy(zero, json) |-> FromJSON(zero, json)[o]],
       defaults >>

Documented(s) ==
    LET layers == Layers(s, ServerZero, serverDefaults) IN
    [o \in DOMAIN ServerZero |-> layers[Min({i \in 1..4 : o \in DOMAIN layers[i]})][o]]

(* Where the code does otherwise: mergo takes a zero for absent, so that a *)
(* built-in default goes before a zero of the file, "0s" and "500ms" as    *)
(* store_interval among them (config.go:137).                              *)
ZeroInFile(s) ==
    {o \in GivenBy(ServerZero, JSONFile(s)) :
        /\ FromJSON(ServerZero, JSONFile(s))[o] = ServerZero[o]
        /\ serverDefaults[o] # ServerZero[o]}
=============================================================================
