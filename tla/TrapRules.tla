------------------------------- MODULE TrapRules -------------------------------
(***************************************************************************)
(* The pure part of the engine: how a decoded packet becomes an event      *)
(* (internal/receiver/decoder.go), how a match expression is evaluated on  *)
(* it (internal/match/match.go, internal/oidutil/oidutil.go), and what the     *)
(* filter, clear and alarm rules of a configuration make of it             *)
(* (internal/engine/engine.go).                                            *)
(*                                                                         *)
(* A Go string is a sequence of tokens, the empty string being <<>>: only  *)
(* the pieces the code looks at are tokens of their own (a leading dot, a  *)
(* blank, a "varbind." prefix).  A Go map is a function on its keys, a nil *)
(* pointer is <<>> and a pointer to x is <<x>>.                            *)
(*                                                                         *)
(*   condition  [field, op, value, list]   list: the value of an "in"      *)
(*   match      [simple  : field -> value,                                 *)
(*               lists   : subset of {"all", "any", "not"} -> conditions,  *)
(*               malformed : BOOLEAN]  a list is not a list of mappings    *)
(*   filter     [id, action, match]                                        *)
(*   clear      [match, keyFields, varBindOID, regex]                      *)
(*   alarm      [id, match, ttl, keyFields, hold, clear]                   *)
(*   config     [aliases, filters, defaultAction, alarms, targets, alerts] *)
(*   packet     [valid, source, header, v1, varbinds] as decoded; ~valid:  *)
(*              no decoder accepts it.  header: the scalar fields of the   *)
(*              message (version, community, ...); v1: <<>>, or what an    *)
(*              SNMPv1 trap has in its place, [enterprise, agent, generic, *)
(*              specific, uptime]; varbinds: a sequence of [oid, value]    *)
(*   event      [fields, trapOID, rawVarBindMap]                           *)
(***************************************************************************)
EXTENDS Integers, Sequences, SequencesExt

HasPrefix(s, p) == IsPrefix(p, s)
HasSuffix(s, p) == IsSuffix(p, s)
ContainsSeq(s, p) == \E i \in 0 .. Len(s) - Len(p) :
                      SubSeq(s, i + 1, i + Len(p)) = p

\* m[key], with Go's zero value for a missing key
MapGet(m, key) == IF key \in DOMAIN m THEN m[key] ELSE <<>>

\* Where a loop over a sequence stops that looks for one of the indices I; 0 if
\* it runs to its end.
FirstIndex(I) == IF I = {} THEN 0 ELSE Min(I)

\* The value in m of the first key of the sequence keys that m has, or <<>>.
FirstValue(m, keys) ==
    LET i == FirstIndex({k \in DOMAIN keys : keys[k] \in DOMAIN m})
    IN  IF i = 0 THEN <<>> ELSE m[keys[i]]

Update(m, key, value) ==
    [k \in DOMAIN m \cup {key} |-> IF k = key THEN value ELSE m[k]]

-----------------------------------------------------------------------------
\* internal/oidutil

\* strings.TrimPrefix and TrimSuffix, for one token, and strings.TrimSpace
TrimPrefix(s, t) == IF s # <<>> /\ s[1] = t THEN Tail(s) ELSE s
TrimSuffix(s, t) == IF s # <<>> /\ s[Len(s)] = t THEN SubSeq(s, 1, Len(s) - 1)
                    ELSE s
TrimSpace(s) == TrimSuffix(TrimPrefix(s, " "), " ")

\* Trim, then remove ONE leading dot.
Normalize(s) == TrimPrefix(TrimSpace(s), ".")

\* The forms under which Lookup tries a key.
LookupForms(key) == <<key, Normalize(key), <<".">> \o Normalize(key)>>

Lookup(m, key) == FirstValue(m, LookupForms(key))

\* The forms of an OID, without and with its dot.
Variants(s) == IF TrimSpace(s) = <<>> THEN <<>>
               ELSE IF Normalize(s) = TrimSpace(s) THEN <<Normalize(s)>>
               ELSE <<Normalize(s), TrimSpace(s)>>

-----------------------------------------------------------------------------
\* internal/receiver and internal/snmp: from a decoded packet to an event

SnmpTrapOID == <<"1", "3", "6", "1", "6", "3", "1", "1", "4", "1", "0">>
SysUpTime   == <<"1", "3", "6", "1", "2", "1", "1", "3", "0">>

genericTrapName(code) ==
    CASE code = <<"0">> -> <<"coldStart">>
      [] code = <<"1">> -> <<"warmStart">>
      [] code = <<"2">> -> <<"linkDown">>
      [] code = <<"3">> -> <<"linkUp">>
      [] code = <<"4">> -> <<"authenticationFailure">>
      [] code = <<"5">> -> <<"egpNeighborLoss">>
      [] code = <<"6">> -> <<"enterpriseSpecific">>
      [] OTHER          -> code

\* What one varbind adds to the fields: its OID and, under two names, its alias.
AddVarBind(fields, vb, aliases) ==
    LET oid   == Normalize(vb.oid)
        bound == Update(fields, <<"varbind.">> \o oid, vb.value)
        alias == Lookup(aliases, oid)
    IN  IF alias = <<>>
        THEN bound
        ELSE Update(Update(bound, alias, vb.value),
                    <<"fields.">> \o alias, vb.value)

\* The scalar fields of the event that are set only if they are not empty.
ScalarFields(p, trapOID, uptime) ==
    (IF p.v1 = <<>> THEN <<>>
     ELSE <<<<<<"enterprise_oid">>, p.v1[1].enterprise>>,
            <<<<"agent_address">>, p.v1[1].agent>>,
            <<<<"generic_trap">>, p.v1[1].generic>>,
            <<<<"generic_trap_name">>, genericTrapName(p.v1[1].generic)>>,
            <<<<"specific_trap">>, p.v1[1].specific>>>>)
    \o <<<<<<"uptime">>, uptime>>, <<<<"trap_oid">>, Normalize(trapOID)>>>>

buildFields(p, trapOID, uptime, aliases) ==
    LET header == Update(p.header, <<"source_ip">>, p.source)
        base   == FoldLeft(LAMBDA fields, f : IF f[2] = <<>> THEN fields
                                              ELSE Update(fields, f[1], f[2]),
                           header, ScalarFields(p, trapOID, uptime))
    IN  FoldLeft(LAMBDA fields, vb : AddVarBind(fields, vb, aliases),
                 base, p.varbinds)

RawVarBindMap(varbinds) ==
    FoldLeft(LAMBDA m, vb : Update(m, Normalize(vb.oid), vb.value),
             [oid \in {} |-> <<>>], varbinds)

\* An SNMPv1 trap has no snmpTrapOID: its event gets a name made of its parts.
V1TrapOID(v1) == <<"v1:">> \o v1.enterprise \o <<":">> \o v1.generic
                 \o <<":">> \o v1.specific

packetToEvent(p, aliases) ==
    LET raw     == RawVarBindMap(p.varbinds)
        trapOID == IF p.v1 # <<>> THEN V1TrapOID(p.v1[1])
                   ELSE Normalize(MapGet(raw, SnmpTrapOID))
        uptime  == IF p.v1 # <<>> THEN p.v1[1].uptime
                   ELSE Normalize(MapGet(raw, SysUpTime))
    IN  [trapOID       |-> trapOID,
         rawVarBindMap |-> raw,
         fields        |-> buildFields(p, trapOID, uptime, aliases)]

-----------------------------------------------------------------------------
\* internal/match

VarBindPrefixes == {<<"varbind.">>, <<"varbind:">>}

\* The keys ResolveField tries, in its order.
FieldForms(field) ==
       <<field>>
    \o (IF HasPrefix(field, <<"fields.">>) THEN <<Tail(field)>> ELSE <<>>)
    \o (IF \E p \in VarBindPrefixes : HasPrefix(field, p)
        THEN LET forms == Variants(Tail(field))
             IN  [i \in DOMAIN forms |-> <<"varbind.">> \o forms[i]]
        ELSE <<>>)

\* An unknown field resolves to the empty string.
ResolveField(event, field) ==
    IF field = <<>> THEN <<>> ELSE FirstValue(event.fields, FieldForms(field))

isOIDField(field) ==
    \/ field \in {<<"trap_oid">>, <<"enterprise_oid">>}
    \/ \E p \in VarBindPrefixes : HasPrefix(field, p)

\* What both sides of a comparison on field are brought to.
Canonical(field, s) == IF isOIDField(field) THEN Normalize(s) ELSE s

\* strings.ToLower, for the words in use
ToLower(s) == CASE s = "EQ"   -> "eq"   [] s = "NE"   -> "ne"
                [] s = "DROP" -> "drop" [] s = "Keep" -> "keep"
                [] s = "SHA"  -> "sha"  [] s = "JSON" -> "json"
                [] OTHER      -> s

\* strconv.ParseFloat, for the numbers in use: <<n>>, or <<>> for an error
Numerals == [t \in {ToString(n) : n \in -1 .. 256} |->
               CHOOSE n \in -1 .. 256 : ToString(n) = t]

parseNumber(s) == IF Len(s) = 1 /\ s[1] \in DOMAIN Numerals
                  THEN <<Numerals[s[1]]>> ELSE <<>>

\* Package regexp, for the patterns in use: literal tokens, matched anywhere,
\* and ".*".  A pattern that starts with a repetition does not compile.
MatchString(pattern, s) ==
    CASE HasPrefix(pattern, <<"*">>)  -> "error"
      [] pattern = <<".", "*">>       -> "yes"
      [] OTHER -> IF ContainsSeq(s, pattern) THEN "yes" ELSE "no"

Verdict(b) == IF b THEN "yes" ELSE "no"

\* A comparison of numbers fails if one side is not a number.
Numbers(op, left, right) ==
    /\ left # <<>> /\ right # <<>>
    /\ CASE op = "gt" -> left[1] > right[1]
         [] op = "ge" -> left[1] >= right[1]
         [] op = "lt" -> left[1] < right[1]
         [] op = "le" -> left[1] <= right[1]

\* The operator of a condition: one that is missing, or empty, is "eq".
OpOf(cond) == IF cond.op = "" THEN "eq" ELSE cond.op

\* What an operator of a condition makes of the two sides of the comparison.  A
\* verdict is "yes", "no" or "error" (a pattern that does not compile, an operator
\* that does not exist).
Test(op, actual, expected, cond) ==
    CASE op = "exists"   -> Verdict(actual # <<>>)
      [] op = "eq"       -> Verdict(actual = expected)
      [] op = "ne"       -> Verdict(actual # expected)
      [] op = "contains" -> Verdict(ContainsSeq(actual, expected))
      [] op = "prefix"   -> Verdict(HasPrefix(actual, expected))
      [] op = "suffix"   -> Verdict(HasSuffix(actual, expected))
      [] op = "regex"    -> MatchString(expected, actual)
      [] op = "in"       -> Verdict(\E i \in DOMAIN cond.list :
                               actual = Canonical(cond.field, cond.list[i]))
      [] op \in {"gt", "ge", "lt", "le"} ->
            Verdict(Numbers(op, parseNumber(actual), parseNumber(cond.value)))
      [] OTHER           -> "error"

conditionMatches(event, cond) ==
    Test(ToLower(OpOf(cond)),
         Canonical(cond.field, ResolveField(event, cond.field)),
         Canonical(cond.field, cond.value), cond)

\* A loop over conditions stops at the first verdict that is not the usual one.
FirstOther(verdicts, usual) ==
    LET i == FirstIndex({c \in DOMAIN verdicts : verdicts[c] # usual})
    IN  IF i = 0 THEN usual ELSE verdicts[i]

\* The verdicts of the three lists of a match expression, in the code's order; an
\* empty any does not count.
Combined(all, any, not) ==
    LET allSay == FirstOther(all, "yes")
        anySay == IF any = <<>> THEN "yes" ELSE FirstOther(any, "no")
        notSay == FirstOther(not, "no")
    IN  IF allSay # "yes" THEN allSay
        ELSE IF anySay # "yes" THEN anySay
        ELSE IF notSay = "error" THEN "error"
        ELSE Verdict(notSay = "no")

\* Matches: one list makes it advanced, and the simple fields are then ignored.
Matches(event, spec) ==
    LET verdicts(name) ==
            IF name \in DOMAIN spec.lists
            THEN [i \in DOMAIN spec.lists[name] |->
                     conditionMatches(event, spec.lists[name][i])]
            ELSE <<>>
    IN  IF DOMAIN spec.lists = {}
        THEN Verdict(\A f \in DOMAIN spec.simple :
                        Canonical(f, spec.simple[f]) =
                        Canonical(f, ResolveField(event, f)))
        ELSE IF spec.malformed THEN "error"
        ELSE Combined(verdicts("all"), verdicts("any"), verdicts("not"))

\* The key of an event: its fields and their values (the code hashes their
\* JSON form).  NoKey when a field is missing or there are no fields.
NoKey == <<>>

\* Mutant of BuildDedupKey: the last field is left out.
KeyWithoutLast(event, keyFields) ==
    LET value(i) == ResolveField(event, keyFields[i])
    IN  IF \E i \in DOMAIN keyFields : value(i) = <<>>
        THEN NoKey
        ELSE [i \in 1 .. Len(keyFields) - 1 |-> <<keyFields[i], value(i)>>]

BuildDedupKey(event, keyFields) ==
    LET value(i) == ResolveField(event, keyFields[i])
    IN  IF \E i \in DOMAIN keyFields : value(i) = <<>>
        THEN NoKey
        ELSE [i \in DOMAIN keyFields |-> <<keyFields[i], value(i)>>]

-----------------------------------------------------------------------------
\* internal/engine: the rules

\* The index of the first rule that does not simply fail to match, 0 if none.
FirstRule(event, rules) ==
    FirstIndex({i \in 1 .. Len(rules) : Matches(event, rules[i].match) # "no"})

\* What a filter rule that matched decides; "" is read as "drop".
FilterAction(action) == CASE action \in {"", "drop"} -> "drop"
                          [] action = "keep"         -> "keep"
                          [] OTHER                   -> "error"

\* "drop", "keep" or "error"
evaluateFilters(cfg, event) ==
    LET i == FirstRule(event, cfg.filters)
    IN  CASE i = 0 -> IF cfg.defaultAction = "drop" THEN "drop" ELSE "keep"
          [] i # 0 /\ Matches(event, cfg.filters[i].match) = "error" -> "error"
          [] OTHER -> FilterAction(cfg.filters[i].action)

\* 0: no alarm.  The alarm of the index may also be one whose match failed.
matchAlarm(cfg, event) == FirstRule(event, cfg.alarms)

\* The trap_oid value a match expression fixes, un-normalized: <<v>>, or <<>>.
\* Only a plain trap_oid or "eq" conditions of all that agree fix one; unlike
\* conditionMatches, this takes only the lower-case word for the operator.
staticMatchFieldValue(spec, field) ==
    LET all   == IF "all" \in DOMAIN spec.lists THEN ToSet(spec.lists["all"])
                 ELSE {}
        fixed == {c.value : c \in {d \in all : d.field = field /\ OpOf(d) = "eq"}}
    IN  IF field \in DOMAIN spec.simple THEN <<spec.simple[field]>>
        ELSE IF \E v \in fixed : fixed = {v} THEN <<CHOOSE v \in fixed : TRUE>>
        ELSE <<>>

dedupKeyTrapOID(spec, keyFields) ==
    IF \E i \in DOMAIN keyFields : keyFields[i] = <<"trap_oid">>
    THEN staticMatchFieldValue(spec, <<"trap_oid">>)
    ELSE <<>>

\* Mutant of cloneEventWithTrapOID: the key is built from the clear trap's OID.
CloneWithoutOID(event, trapOID) == event

cloneEventWithTrapOID(event, trapOID) ==
    IF trapOID = <<>>
    THEN event
    ELSE [event EXCEPT !.trapOID = trapOID,
                       !.fields = Update(@, <<"trap_oid">>, trapOID)]

\* The key under which a clear trap looks for the entry of alarm.
ClearKey(event, alarm) ==
    LET clear     == alarm.clear[1]
        keyFields == IF clear.keyFields = <<>> THEN alarm.keyFields
                     ELSE clear.keyFields
        oid       == dedupKeyTrapOID(alarm.match, keyFields)
    IN  BuildDedupKey(IF oid = <<>> THEN event
                      ELSE cloneEventWithTrapOID(event, oid[1]), keyFields)

\* Mutant of ClearVerdict: the clear's regex is not evaluated.
ClearVerdictNoRegex(event, alarm) ==
    IF alarm.clear = <<>>                                   THEN "none"
    ELSE IF Matches(event, alarm.clear[1].match) # "yes"    THEN "none"
    ELSE IF ClearKey(event, alarm) = NoKey                  THEN "matched"
    ELSE "clear"

\* What the clear rule of one alarm makes of an event: "none" (the loop goes
\* on as if the rule was not there), "unmatched" (the regex rejects the trap,
\* which resets matchedClear), "matched" (a clear, but nothing to delete) or
\* "clear" (Clear is called).
ClearVerdict(event, alarm) ==
    IF alarm.clear = <<>> THEN "none" ELSE
    LET clear  == alarm.clear[1]
        tested == clear.varBindOID # <<>> /\ clear.regex # <<>>
        regex  == MatchString(clear.regex,
                     MapGet(event.rawVarBindMap, Normalize(clear.varBindOID)))
    IN  IF Matches(event, clear.match) # "yes"    THEN "none"
        ELSE IF tested /\ regex = "error"         THEN "matched"
        ELSE IF tested /\ regex = "no"            THEN "unmatched"
        ELSE IF ClearKey(event, alarm) = NoKey    THEN "matched"
        ELSE "clear"

\* The cache keys applyAlarmClearRules deletes, by the alarm whose clear rule asks
\* for it.
ClearedKeys(cfg, event) ==
    [i \in {i \in 1 .. Len(cfg.alarms) :
               ClearVerdict(event, cfg.alarms[i]) = "clear"} |->
        <<cfg.alarms[i].id, ClearKey(event, cfg.alarms[i])>>]

\* The value applyAlarmClearRules returns: the last rule that matched decides.
matchedClear(cfg, event) ==
    LET verdict == [i \in DOMAIN cfg.alarms |-> ClearVerdict(event, cfg.alarms[i])]
        said    == {i \in DOMAIN cfg.alarms : verdict[i] # "none"}
    IN  said # {} /\ verdict[Max(said)] # "unmatched"

\* Where HandleEvent takes an event after its filters and clear rules: "error",
\* "pass" (forwardPassThrough), "nokey" (forwarded without dedup) or "dedup";
\* the alarm rule it was given, 0 if none, and the cache key.
Route(cfg, event) ==
    LET i   == matchAlarm(cfg, event)
        key == BuildDedupKey(event, cfg.alarms[i].keyFields)
    IN  IF matchedClear(cfg, event) \/ i = 0
        THEN [to |-> "pass", alarm |-> 0, key |-> NoKey]
        ELSE IF Matches(event, cfg.alarms[i].match) = "error"
        THEN [to |-> "error", alarm |-> i, key |-> NoKey]
        ELSE IF key = NoKey
        THEN [to |-> "nokey", alarm |-> i, key |-> NoKey]
        ELSE [to |-> "dedup", alarm |-> i, key |-> <<cfg.alarms[i].id, key>>]
=============================================================================
