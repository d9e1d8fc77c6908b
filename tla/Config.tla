-------------------------------- MODULE Config --------------------------------
(***************************************************************************)
(* internal/config: how a configuration file becomes a configuration, or   *)
(* is refused.  Load fills in the defaults, checks every section and lets  *)
(* the alarms inherit what they leave out; a configuration it returns has  *)
(* the fields of a config of module TrapRules, and others.                 *)
(*                                                                         *)
(*   file  [readable : does it exist, and is it YAML of the right types?,  *)
(*          server   : [port, maxDatagramSize, cleanupInterval,            *)
(*                      maxDedupEntries, queueSize, workerCount,           *)
(*                      statsLogInterval], 0 where it is left out,         *)
(*          memory   : runtime.memory_limit, a string,                     *)
(*          metrics  : [enabled, port, path],                              *)
(*          format, hasLog, alerts : of section logging,                   *)
(*          users    : a sequence of [name, auth, priv],                   *)
(*          dedup    : dedup_defaults, [ttl, keyFields],                   *)
(*          aliases, filters, defaultAction, alarms, targets]              *)
(*                                                                         *)
(* Strings that no function looks into are TLA+ strings, "" where they are *)
(* left out; the others are sequences of tokens as in TrapRules.  Hosts    *)
(* are left out: they are passed on to the network as they are.            *)
(***************************************************************************)
EXTENDS TrapRules

-----------------------------------------------------------------------------
\* memory_limit.go.  An int64 has 22 bits here, so that TLC can compute with it, and
\* the units of 2^30 and 2^40 bytes, which do not fit, are left out.

MaxInt == 2 * 1024 * 1024 - 1

\* An integer as the machine keeps it: two's complement.
Wrap(n) == ((n + MaxInt + 1) % (2 * (MaxInt + 1))) - MaxInt - 1

memoryLimitUnits == [u \in {<<>>, <<"B">>, <<"KB">>, <<"MB">>, <<"KIB">>, <<"MIB">>} |->
    CASE u \in {<<>>, <<"B">>} -> 1
      [] u = <<"KB">>          -> 1000
      [] u = <<"MB">>          -> 1000 * 1000
      [] u = <<"KIB">>         -> 1024
      [] u = <<"MIB">>         -> 1024 * 1024]

\* strings.ToUpper, for the words in use
ToUpper(s) == [i \in DOMAIN s |->
    CASE s[i] = "off" -> "OFF" [] s[i] = "none" -> "NONE"
      [] s[i] = "KiB" -> "KIB" [] s[i] = "MiB" -> "MIB" [] OTHER -> s[i]]

\* strconv.ParseInt, for the runs of digits in use; one of them is too large.
Digits == [t \in {"0", "1", "2", "3", "2048", "9999999"} |->
    CASE t = "0" -> 0 [] t = "1" -> 1 [] t = "2" -> 2 [] t = "3" -> 3
      [] t = "2048" -> 2048 [] t = "9999999" -> MaxInt + 1]

\* Mutant of Bytes: the product may overflow.
BytesWrapped(n, unit) ==
    IF n > MaxInt \/ n <= 0 \/ unit \notin DOMAIN memoryLimitUnits THEN <<>>
    ELSE <<Wrap(n * memoryLimitUnits[unit])>>

\* n units: <<bytes>>, or <<>> for an error.
Bytes(n, unit) ==
    IF n > MaxInt \/ n <= 0 \/ unit \notin DOMAIN memoryLimitUnits THEN <<>>
    ELSE IF n > MaxInt \div memoryLimitUnits[unit] THEN <<>>
    ELSE <<Wrap(n * memoryLimitUnits[unit])>>

\* The digits at the start of a string are one token.
ParseMemoryLimit(value) ==
    LET trimmed == TrimSpace(value)
    IN  IF trimmed = <<>> THEN <<0>>
        ELSE IF ToUpper(trimmed) \in {<<"OFF">>, <<"NONE">>, <<"UNLIMITED">>}
        THEN <<MaxInt>>
        ELSE IF trimmed[1] \notin DOMAIN Digits THEN <<>>
        ELSE Bytes(Digits[trimmed[1]], ToUpper(TrimSpace(Tail(trimmed))))

-----------------------------------------------------------------------------
\* applyDefaults

ServerDefaults == [port |-> 162, maxDatagramSize |-> 8192, cleanupInterval |-> 30,
                   maxDedupEntries |-> 10000, queueSize |-> 1024,
                   workerCount |-> 1, statsLogInterval |-> 60]

OrDefault(value, zero, default) == IF value = zero THEN default ELSE value

TrimmedUser(user) == [name |-> TrimSpace(user.name),
                      auth |-> ToLower(user.auth), priv |-> ToLower(user.priv)]

applyDefaults(file) ==
    [file EXCEPT
       !.server        = [f \in DOMAIN @ |-> OrDefault(@[f], 0, ServerDefaults[f])],
       !.metrics       = [@ EXCEPT !.port = OrDefault(@, 0, 9163),
                                   !.path = OrDefault(@, <<>>, <<"/", "metrics">>)],
       !.format        = OrDefault(@, "", "text"),
       !.users         = [i \in DOMAIN @ |-> TrimmedUser(@[i])],
       !.defaultAction = ToLower(OrDefault(@, "", "keep")),
       !.dedup.ttl     = OrDefault(@, 0, 300)]

-----------------------------------------------------------------------------
\* validate

\* What an alarm leaves out it takes from dedup_defaults.
Inherit(alarm, dedup) ==
    [alarm EXCEPT !.ttl       = OrDefault(@, 0, dedup.ttl),
                  !.keyFields = OrDefault(@, <<>>, dedup.keyFields)]

\* What validate changes in the configuration while it checks it.
Completed(cfg) ==
    [cfg EXCEPT
       !.filters = [i \in DOMAIN @ |->
                      [@[i] EXCEPT !.action = OrDefault(ToLower(@), "", "drop")]],
       !.alarms  = [i \in DOMAIN @ |-> Inherit(@[i], cfg.dedup)]]

MaxPort == 65535

\* Mutant of ValidServer: only what is left out is replaced, and a negative number
\* is left as it is.
ValidPort(server) == server.port \in 0 .. MaxPort

ValidServer(server) ==
    /\ server.port \in 0 .. MaxPort
    /\ server.statsLogInterval >= 0
    /\ \A f \in DOMAIN server \ {"port", "statsLogInterval"} : server[f] > 0

ValidMetrics(metrics) ==
    metrics.enabled => /\ metrics.port \in 0 .. MaxPort
                       /\ HasPrefix(metrics.path, <<"/">>)

\* Every rule has an id, and no two have the same.
Identified(rules) == \A i, j \in DOMAIN rules :
                        /\ rules[i].id # ""
                        /\ rules[i].id = rules[j].id => i = j

NoMatch(match) == DOMAIN match.simple = {} /\ DOMAIN match.lists = {}

ValidAlarm(alarm) ==
    /\ alarm.keyFields # <<>>
    /\ alarm.clear # <<>> => ~NoMatch(alarm.clear[1].match)
    /\ alarm.hold => alarm.clear # <<>>

Valid(cfg) ==
    /\ ParseMemoryLimit(cfg.memory) # <<>>
    /\ ValidServer(cfg.server)
    /\ ValidMetrics(cfg.metrics)
    /\ cfg.defaultAction \in {"keep", "drop"}
    /\ \A i \in DOMAIN cfg.users : cfg.users[i].name # <<>>
    /\ Identified(cfg.filters)
    /\ \A i \in DOMAIN cfg.filters : cfg.filters[i].action \in {"drop", "keep"}
    /\ Identified(cfg.alarms)
    /\ \A i \in DOMAIN cfg.alarms : ValidAlarm(cfg.alarms[i])

\* <<cfg>>, or <<>> for an error.  Nobody sees a configuration that is refused.
Load(file) ==
    IF ~file.readable THEN <<>>
    ELSE IF ~Valid(Completed(applyDefaults(file))) THEN <<>>
    ELSE <<Completed(applyDefaults(file))>>

-----------------------------------------------------------------------------
\* What the parts of the relay look at themselves when they are built

\* logging.NewResource
FormatKnown(cfg) == ToLower(cfg.format) \in {"text", "json"}

\* receiver.New: buildUSM and the tables of the protocols
UsersKnown(cfg) ==
    \A i \in DOMAIN cfg.users :
        /\ cfg.users[i].auth \in {"", "noauth", "md5", "sha", "sha224", "sha256",
                                  "sha384", "sha512"}
        /\ cfg.users[i].priv \in {"", "nopriv", "des", "aes", "aes192", "aes256",
                                  "aes192c", "aes256c"}

healthPath == <<"/", "healthz">>

\* metrics.New registers two handlers; http.ServeMux panics on the same path twice.
MuxPanics(cfg) == cfg.metrics.enabled /\ cfg.metrics.path = healthPath
=============================================================================
