------------------------------- MODULE AlarmRule -------------------------------
(***************************************************************************)
(* One alarm rule with its clear rule, under an arbitrary sequence of the  *)
(* alarm and clear traps of several instances.  The event is handled alone *)
(* here: what matters is that the key under which a clear looks for an     *)
(* alarm (internal/engine applyAlarmClearRules) is the key the alarm was   *)
(* stored under (internal/match BuildDedupKey), and nobody else's.  The    *)
(* windows never end and the table has no limit here, so that nothing but  *)
(* a clear removes an entry: the other ways are those of module Engine.    *)
(***************************************************************************)
EXTENDS TrapRules

CONSTANTS Alarms,      \* the alarm rules, of which the configuration has one
          Instances,   \* what raises and clears the alarm, say the ports
          Decoders,    \* the ways a datagram is read
          RaisedBy,    \* per rule, its alarm trap
          ClearedBy,   \* per rule, its clear trap
          EventOf,     \* per trap, instance and decoder, the event decoded
          CutVerdicts  \* is it a trap? per datagram that is none

VARIABLES rule,        \* the alarm rule of the configuration
          open,        \* <<instance, key>>: the entries of the store
          last         \* the last trap, its instance and what became of it

vars == <<rule, open, last>>

AlarmEvent(alarm, n, d) == EventOf[RaisedBy[alarm], n, d]
ClearEvent(alarm, n, d) == EventOf[ClearedBy[alarm], n, d]

-----------------------------------------------------------------------------
\* What is assumed of the rules and of their traps

TrapOIDField == <<"trap_oid">>

\* Does the varbind test of a clear rule take the event?  A clear rule without
\* one takes every event that it matches.
VarBindSays(event, clear) ==
    IF clear.varBindOID = <<>> \/ clear.regex = <<>> THEN "yes"
    ELSE MatchString(clear.regex,
                     MapGet(event.rawVarBindMap, Normalize(clear.varBindOID)))

\* A rule has key fields, which its clear may repeat.  One that is keyed on
\* trap_oid fixes it, in a plain match or in the conditions of all; the plain
\* trap_oid that stands beside lists is not looked at when the rule is matched.
ASSUME AlarmsAssumption ==
    \A alarm \in Alarms :
        /\ alarm.keyFields \in Seq(Seq(STRING)) /\ alarm.keyFields # <<>>
        /\ <<"fields.", "trap_oid">> \notin Range(alarm.keyFields)
        /\ alarm.clear # <<>>
        /\ alarm.clear[1].keyFields \in {<<>>, alarm.keyFields}
        /\ \A l \in DOMAIN alarm.match.lists :
              alarm.match.lists[l] \in Seq(Range(alarm.match.lists[l]))
        /\ TrapOIDField \in Range(alarm.keyFields) =>
              /\ staticMatchFieldValue(alarm.match, TrapOIDField) # <<>>
              /\ TrapOIDField \in DOMAIN alarm.match.simple =>
                    DOMAIN alarm.match.lists = {}

\* The alarm trap meets the rule and not its clear, the clear trap the clear.
ASSUME TrapsAssumption ==
    \A alarm \in Alarms, n \in Instances, d \in Decoders :
        LET raised  == AlarmEvent(alarm, n, d)
            cleared == ClearEvent(alarm, n, d)
            clear   == alarm.clear[1]
        IN  /\ "fields" \in DOMAIN cleared
            /\ Matches(raised, alarm.match) = "yes"
            /\ \/ Matches(raised, clear.match) # "yes"
               \/ VarBindSays(raised, clear) = "no"
            /\ Matches(cleared, clear.match) = "yes"
            /\ VarBindSays(cleared, clear) = "yes"

\* The key fields have values, the same ones whichever decoder was used, which
\* the clear trap shares but for its trap_oid, and which no other instance has.
ASSUME InstancesAssumption ==
    \A alarm \in Alarms, n \in Instances, d, e \in Decoders :
        LET value(event, f) == ResolveField(event, f)
            raised == AlarmEvent(alarm, n, d)
        IN  /\ \A f \in Range(alarm.keyFields) :
                  /\ value(raised, f) # <<>>
                  /\ value(raised, f) = value(AlarmEvent(alarm, n, e), f)
                  /\ f # TrapOIDField =>
                        value(ClearEvent(alarm, n, e), f) = value(raised, f)
            /\ \A m \in Instances \ {n} :
                  \E f \in Range(alarm.keyFields) \ {TrapOIDField} :
                      value(AlarmEvent(alarm, m, e), f) # value(raised, f)

\* The decoder normalizes the trap_oid of an event: no dot, no blank is left.
ASSUME NormalizedAssumption ==
    \A alarm \in Alarms, n \in Instances, d \in Decoders :
        TrapOIDField \in Range(alarm.keyFields) =>
            LET oid == ResolveField(AlarmEvent(alarm, n, d), TrapOIDField)
            IN  Normalize(oid) = oid

\* An alarm rule that is keyed on trap_oid spells it as the decoder does.  (The
\* run on rules that do not is the one that ClearResets fails on.)
SpelledAsDecoded ==
    \A alarm \in Alarms :
        TrapOIDField \in Range(alarm.keyFields) =>
            LET oid == staticMatchFieldValue(alarm.match, TrapOIDField)[1]
            IN  Normalize(oid) = oid

-----------------------------------------------------------------------------
\* The configuration, and what HandleEvent makes of a trap

\* All that the clear and alarm rules look at.
Cfg == [alarms |-> <<rule>>]

HandleAs(kind, trap, n, cleared, route) ==
    LET left == {e \in open : e[2] \notin cleared}
    IN  /\ open' = IF route.to = "dedup" THEN left \cup {<<n, route.key>>}
                   ELSE left
        /\ last' = [kind |-> kind, trap |-> trap, instance |-> n, to |-> route.to]
        /\ UNCHANGED rule

HandleEvent(kind, trap, n, event) ==
    HandleAs(kind, trap, n, Range(ClearedKeys(Cfg, event)), Route(Cfg, event))

Raise == \E n \in Instances, d \in Decoders :
            HandleEvent("alarm", RaisedBy[rule], n, AlarmEvent(rule, n, d))

ClearTrap == \E n \in Instances, d \in Decoders :
                HandleEvent("clear", ClearedBy[rule], n, ClearEvent(rule, n, d))

\* A datagram that gosnmp rejects, and that is not complete or not well formed.
CutTrap == \E accepted \in CutVerdicts :
              /\ last' = [kind |-> "cut", trap |-> "none", instance |-> 0,
                          to |-> IF accepted THEN "accepted" ELSE "rejected"]
              /\ UNCHANGED <<rule, open>>

Init == /\ rule \in Alarms
        /\ open = {}
        /\ last = [kind |-> "none", trap |-> "none", instance |-> 0, to |-> "none"]

Next == Raise \/ ClearTrap \/ CutTrap

Spec == Init /\ [][Next]_vars

-----------------------------------------------------------------------------
\* Properties

\* docs/configuration.md: "the relay uses the parent alarm's configured trap_oid
\* value for key matching so the clear still resets the original alarm".  After
\* the clear of an instance the store has no entry of that instance.
ClearResets ==
    [][last'.kind = "clear" => \A e \in open' : e[1] # last'.instance]_vars

\* A clear resets the alarm of its own instance only.
ClearIsPrecise ==
    [][last'.kind = "clear" =>
         \A e \in open : e[1] # last'.instance => e \in open']_vars

\* A clear trap is passed through and an alarm trap is deduplicated, in whichever
\* form the rule is written and with whichever decoder the trap was read.
RoutesByKind ==
    /\ last.kind = "clear" => last.to = "pass"
    /\ last.kind = "alarm" => last.to = "dedup"

\* Repetitions of one instance share a key, and no two instances do.
OneKeyPerInstance ==
    \A d, e \in open : d[1] = e[1] <=> d[2] = e[2]
=============================================================================
