----------------------------- MODULE EngineWindows -----------------------------
(***************************************************************************)
(* The engine as an implementation of DedupWindows: the windows are the    *)
(* entries of the store, and what became of the traps is in the history.   *)
(***************************************************************************)
EXTENDS Engine

\* Every cache key a trap may be stored or cleared under, and the alarm rules that
\* have its name in some configuration.
DedupKeys == (UNION {{Handling[g][e].route.key} \cup Range(Handling[g][e].clears) :
                       g \in Generations, e \in Events}) \ {NoKey}

Rules(g) == {Configs[g].alarms[i] : i \in 1 .. Len(Configs[g].alarms)}

RulesNamed(id) == UNION {{a \in Rules(g) : a.id = id} : g \in Generations}

Term(alarm) == [ttl |-> alarm.ttl, held |-> alarm.hold]

WindowOf(s) == [first |-> s.first, last |-> s.lastSeenAt, until |-> ExpiresAt(s),
                held |-> s.hold, repeats |-> s.suppressed]

OpenWindows == [k \in DOMAIN states |-> WindowOf(states[k])]

\* A trap is judged in the step that puts or touches an entry.
Judged == {i \in Ids : events[i].outcome = "duplicate" \/ Opened(i)}

Verdicts == [i \in Judged |-> IF Opened(i) THEN i ELSE events[i].first]

ClearCalls == UNION {{<<i, k>> : k \in events[i].cleared} : i \in Ids}

Windows == INSTANCE DedupWindows WITH
    Keys    <- DedupKeys,
    Terms   <- [k \in DedupKeys |-> {Term(a) : a \in RulesNamed(k[1])}],
    Traps   <- 1 .. MaxEvents,
    windows <- OpenWindows,
    verdict <- Verdicts,
    clears  <- ClearCalls

\* With one worker the engine keeps the promise of DedupWindows, through reloads,
\* evictions and ticks that fall between Get, Touch and Put: every trap is judged
\* once, on the only window of its key, and a window is left only by its clear,
\* its end or its eviction.
ImplementsWindows == Windows!Spec
=============================================================================
