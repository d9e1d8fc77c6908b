--------------------------- MODULE EngineWindowProofs ---------------------------
(***************************************************************************)
(* Deduplication, for any number of workers, any traffic, any number of    *)
(* reloads and every limit: what may remove or change an entry of the      *)
(* table, and what the history says of a trap that was suppressed or       *)
(* opened a window.  With one worker the history says more.                *)
(***************************************************************************)
EXTENDS EngineHistoryProofs

-----------------------------------------------------------------------------
\* What the steps of a worker do to its stack, to the history of its event and to
\* the table, with the parts left out that deduplication does not depend on.

EventOf(w) == events[job[w].id]

\* The parts of an event's history that say how it was deduplicated.
Kept(e, f, fields) == \A x \in fields : f[x] = e[x]

\* The event is decided, and nothing about its deduplication changes.
Ends(w) ==
    /\ job'[w] = Idle
    /\ events'[job[w].id].outcome \notin {"pending", "duplicate"}
    /\ Kept(EventOf(w), events'[job[w].id], {"at", "after", "gen", "route", "opened",
                                             "first", "cleared", "evicted"})
    /\ UNCHANGED states

\* The runtime state is loaded, and the event gets its route.
Loads(w) ==
    /\ job[w].pc = "handle"
    /\ job'[w].pc \in {"clear", "get", "fail", "send"}
    /\ job'[w].route = events'[job[w].id].route
    /\ Kept(EventOf(w), events'[job[w].id],
            {"at", "after", "outcome", "opened", "first", "cleared", "evicted"})
    /\ UNCHANGED states

Clears(w) ==
    /\ job[w].pc = "clear"
    /\ job'[w].pc \in {"clear", "get", "fail", "send"}
    /\ job'[w].route = job[w].route
    /\ Clear(NextKey(job[w].todo))
    /\ events'[job[w].id].cleared = EventOf(w).cleared \cup {NextKey(job[w].todo)}
    /\ Kept(EventOf(w), events'[job[w].id],
            {"at", "after", "outcome", "gen", "route", "opened", "first", "evicted"})

Gets(w) ==
    /\ job[w].pc = "get"
    /\ job'[w].pc = IF Found(job[w].route.key, job[w].at) THEN "touch" ELSE "put"
    /\ job'[w].route = job[w].route
    /\ Get(job[w].route.key, job[w].at)
    /\ events'[job[w].id] = EventOf(w)

\* Touch counts a repetition, ...
Counts(w) ==
    /\ job[w].pc = "touch"
    /\ job[w].route.key \in DOMAIN states
    /\ job'[w] = Idle
    /\ Touch(job[w].route.key, job[w])
    /\ events'[job[w].id].outcome = "duplicate"
    /\ events'[job[w].id].first = states[job[w].route.key].first
    /\ Kept(EventOf(w), events'[job[w].id],
            {"at", "after", "gen", "route", "opened", "cleared", "evicted"})

\* ... or finds that the entry is gone.
Misses(w) ==
    /\ job[w].pc = "touch"
    /\ job[w].route.key \notin DOMAIN states
    /\ job'[w].pc = "put"
    /\ job'[w].route = job[w].route
    /\ UNCHANGED states
    /\ events'[job[w].id] = EventOf(w)

Rule(w) == Configs[job[w].gen].alarms[job[w].route.alarm]

Puts(w) ==
    /\ job[w].pc = "put"
    /\ job'[w].pc = "send"
    /\ job'[w].route = job[w].route
    /\ Put(job[w].route.key, job[w], Rule(w).ttl, Rule(w).hold)
    /\ events'[job[w].id].opened = now
    /\ events'[job[w].id].evicted = DOMAIN states \ DOMAIN states'
    /\ Kept(EventOf(w), events'[job[w].id],
            {"at", "after", "outcome", "gen", "route", "first", "cleared"})

\* A worker's step leaves the other workers and the other events alone.
Alters(w) ==
    /\ Ids' = Ids
    /\ now' = now
    /\ job'[w].pc # "idle" => job'[w].id = job[w].id /\ job'[w].at = job[w].at
    /\ \A v \in Workers \ {w} : job'[v] = job[v]
    /\ \A i \in Ids \ {job[w].id} : events'[i] = events[i]

\* A datagram is taken: the history grows by an event that has not been handled.
Takes(w) ==
    /\ ~Busy(w)
    /\ UNCHANGED <<states, now>>
    /\ Len(events) \in Nat
    /\ Ids' = Ids \cup {Len(events) + 1}
    /\ \A i \in Ids : events'[i] = events[i]
    /\ LET f == events'[Len(events) + 1]
       IN  /\ f.at = now /\ f.after = Decided /\ f.opened = -1
           /\ f.cleared = {} /\ f.evicted = {}
           /\ f.outcome \in {"pending", "parse_failed"}
    /\ \A v \in Workers \ {w} : job'[v] = job[v]
    /\ \/ job'[w] = job[w]
       \/ /\ job'[w].pc = "handle" /\ job'[w].at = now
          /\ job'[w].id = Len(events) + 1

\* A step of nobody who handles an event.
Waits == /\ UNCHANGED <<job, events>>
         /\ \/ now' = now + 1 /\ UNCHANGED states
            \/ now' = now /\ UNCHANGED states
            \/ now' = now /\ \E t \in {now - 1, now} : Cleanup(t)

\* The frame of a worker's step.
LEMMA StepFrame ==
    ASSUME TypeOK, HistoryInv, NEW w \in Workers, Busy(w), UNCHANGED now,
           NEW j, job' = [job EXCEPT ![w] = j],
           j.pc # "idle" => j.id = job[w].id /\ j.at = job[w].at,
           NEW e,
           \/ events' = [events EXCEPT ![job[w].id] = e]
           \/ UNCHANGED events /\ e = events[job[w].id]
    PROVE  Alters(w) /\ job'[w] = j /\ events'[job[w].id] = e
<1>1. job[w].id \in Ids
    BY HandledEvent
<1>2. /\ Ids' = Ids
      /\ events'[job[w].id] = e
      /\ \A k \in Ids : k # job[w].id => events'[k] = events[k]
  <2>1. CASE events' = [events EXCEPT ![job[w].id] = e]
      BY <1>1, <2>1, EventsAfter
  <2>2. CASE UNCHANGED events /\ e = events[job[w].id]
      BY <2>2 DEF Ids
  <2> QED
      BY <2>1, <2>2
<1>3. job'[w] = j /\ \A v \in Workers : v # w => job'[v] = job[v]
    BY DEF TypeOK
<1> QED
    BY <1>2, <1>3 DEF Alters

\* A worker that gives up the event.
LEMMA FinishIs ==
    ASSUME TypeOK, HistoryInv, NEW w \in Workers, Busy(w),
           NEW outcome, Finish(w, outcome), outcome \notin {"pending", "duplicate"},
           UNCHANGED <<states, now>>
    PROVE  Alters(w) /\ Ends(w)
<1> DEFINE e == [events[job[w].id] EXCEPT !.outcome = outcome]
<1>1. /\ job' = [job EXCEPT ![w] = Idle]
      /\ events' = [events EXCEPT ![job[w].id] = e]
    BY DEF Finish
<1>2. e.outcome = outcome /\ Kept(EventOf(w), e,
        {"at", "after", "gen", "route", "opened", "first", "cleared", "evicted"})
    BY HandledEvent DEF EventOK, EventFields, Kept, EventOf
<1> HIDE DEF e
<1>3. Idle.pc = "idle"
    BY DEF Idle
<1> QED
    BY <1>1, <1>2, <1>3, StepFrame DEF Ends

\* Every step of a worker that handles an event is one of those above.
LEMMA WorkIs ==
    ASSUME TypeOK, HistoryInv, NEW w \in Workers, Work(w)
    PROVE  /\ Busy(w)
           /\ Alters(w)
           /\ \/ Ends(w) \/ Loads(w) \/ Clears(w) \/ Gets(w) \/ Counts(w)
              \/ Misses(w) \/ Puts(w)
<1> DEFINE i == job[w].id
<1>i. Idle.pc = "idle"
    BY DEF Idle
<1>2. CASE HandleEvent(w)
  <2> DEFINE h == Handling[current][job[w].event]
             j == [job[w] EXCEPT !.pc = NextCall(h.clears, h.route),
                                 !.gen = current, !.route = h.route,
                                 !.todo = h.clears]
             e == [events[i] EXCEPT !.gen = current, !.route = h.route]
  <2>1. /\ job[w].pc = "handle" /\ Busy(w) /\ UNCHANGED <<states, now>>
        /\ \/ Finish(w, "handle_failed")
           \/ Finish(w, "filtered")
           \/ /\ job' = [job EXCEPT ![w] = j]
              /\ events' = [events EXCEPT ![i] = e]
      BY <1>2 DEF HandleEvent, Ruling, Busy
  <2>2. CASE Finish(w, "handle_failed") \/ Finish(w, "filtered")
      BY <2>1, <2>2, FinishIs
  <2>3. CASE /\ job' = [job EXCEPT ![w] = j]
             /\ events' = [events EXCEPT ![i] = e]
    <3> HIDE DEF h
    <3>1. /\ j.id = i /\ j.at = job[w].at /\ j.route = h.route
          /\ j.pc \in {"clear", "get", "fail", "send"}
        BY <2>1, HandledEvent, NextCallPC DEF JobOK, Idle
    <3>2. e.route = h.route /\ Kept(EventOf(w), e,
            {"at", "after", "outcome", "opened", "first", "cleared", "evicted"})
        BY <2>1, HandledEvent DEF EventOK, EventFields, Kept, EventOf
    <3> HIDE DEF j, e
    <3>3. Alters(w) /\ job'[w] = j /\ events'[i] = e
        BY <2>1, <2>3, <3>1, StepFrame
    <3> QED
        BY <2>1, <3>1, <3>2, <3>3 DEF Loads
  <2> QED
      BY <2>1, <2>2, <2>3
<1>3. CASE ApplyAlarmClearRule(w)
  <2> DEFINE todo == job[w].todo
             j == [job[w] EXCEPT !.todo = Rest(todo),
                                 !.pc = NextCall(Rest(todo), job[w].route),
                                 !.logged = @ \/ WritesAlert(w)]
             e == [events[i] EXCEPT !.cleared = @ \cup {NextKey(todo)},
                                    !.alerts = @ + AlertWritten(w)]
  <2>1. /\ job[w].pc = "clear" /\ Busy(w) /\ UNCHANGED now
        /\ job' = [job EXCEPT ![w] = j]
        /\ events' = [events EXCEPT ![i] = e]
        /\ Clear(NextKey(todo))
      BY <1>3 DEF ApplyAlarmClearRule, Busy
  <2>2. /\ j.id = i /\ j.at = job[w].at /\ j.route = job[w].route
        /\ j.pc \in {"clear", "get", "fail", "send"}
      BY <2>1, HandledEvent, NextCallPC DEF JobOK, Idle
  <2>3. /\ e.cleared = EventOf(w).cleared \cup {NextKey(todo)}
        /\ Kept(EventOf(w), e,
             {"at", "after", "outcome", "gen", "route", "opened", "first", "evicted"})
      BY <2>1, HandledEvent DEF EventOK, EventFields, Kept, EventOf
  <2> HIDE DEF j, e
  <2>4. Alters(w) /\ job'[w] = j /\ events'[i] = e
      BY <2>1, <2>2, StepFrame
  <2> QED
      BY <2>1, <2>2, <2>3, <2>4 DEF Clears
<1>4. CASE FailMatch(w)
    BY <1>4, FinishIs DEF FailMatch, Busy
<1>5. CASE DedupGet(w)
  <2> DEFINE key == job[w].route.key
             pc  == IF Found(key, job[w].at) THEN "touch" ELSE "put"
             j   == [job[w] EXCEPT !.pc = pc]
  <2>1. /\ job[w].pc = "get" /\ Busy(w) /\ UNCHANGED <<now, events>>
        /\ job' = [job EXCEPT ![w] = j]
        /\ Get(key, job[w].at)
      BY <1>5 DEF DedupGet, Busy
  <2>2. j.id = i /\ j.at = job[w].at /\ j.route = job[w].route /\ j.pc = pc
      BY <2>1, HandledEvent DEF JobOK, Idle
  <2> HIDE DEF j
  <2>3. Alters(w) /\ job'[w] = j /\ events'[i] = events[i]
      BY <2>1, <2>2, StepFrame
  <2> QED
      BY <2>1, <2>2, <2>3 DEF Gets, EventOf
<1>6. CASE DedupTouch(w)
  <2> DEFINE key == job[w].route.key
             j == [job[w] EXCEPT !.pc = "put"]
             e == [events[i] EXCEPT !.outcome = "duplicate",
                                    !.first = states[key].first]
  <2>1. /\ job[w].pc = "touch" /\ Busy(w) /\ UNCHANGED now
        /\ Touch(key, job[w])
        /\ \/ /\ key \in DOMAIN states
              /\ job' = [job EXCEPT ![w] = Idle]
              /\ events' = [events EXCEPT ![i] = e]
           \/ /\ key \notin DOMAIN states
              /\ job' = [job EXCEPT ![w] = j]
              /\ UNCHANGED events
      BY <1>6 DEF DedupTouch, Busy
  <2>2. j.id = i /\ j.at = job[w].at /\ j.route = job[w].route /\ j.pc = "put"
      BY <2>1, HandledEvent DEF JobOK, Idle
  <2>3. /\ e.outcome = "duplicate" /\ e.first = states[key].first
        /\ Kept(EventOf(w), e,
             {"at", "after", "gen", "route", "opened", "cleared", "evicted"})
      BY <2>1, HandledEvent DEF EventOK, EventFields, Kept, EventOf
  <2> HIDE DEF j, e
  <2>4. CASE key \in DOMAIN states
    <3>1. Alters(w) /\ job'[w] = Idle /\ events'[i] = e
        BY <1>i, <2>1, <2>4, StepFrame
    <3> QED
        BY <2>1, <2>3, <2>4, <3>1 DEF Counts
  <2>5. CASE key \notin DOMAIN states
    <3>1. Alters(w) /\ job'[w] = j /\ events'[i] = events[i]
        BY <2>1, <2>2, <2>5, StepFrame
    <3> QED
        BY <2>1, <2>2, <2>5, <3>1 DEF Misses, EventOf, Touch
  <2> QED
      BY <2>4, <2>5
<1>7. CASE DedupPut(w)
  <2> DEFINE j == [job[w] EXCEPT !.pc = "send"]
             e == [events[i] EXCEPT !.opened = now,
                     !.evicted = DOMAIN states \ DOMAIN states']
  <2>1. /\ job[w].pc = "put" /\ Busy(w) /\ UNCHANGED now
        /\ Put(job[w].route.key, job[w], Rule(w).ttl, Rule(w).hold)
        /\ job' = [job EXCEPT ![w] = j]
        /\ events' = [events EXCEPT ![i] = e]
      BY <1>7 DEF DedupPut, Busy, Rule
  <2>2. j.id = i /\ j.at = job[w].at /\ j.route = job[w].route /\ j.pc = "send"
      BY <2>1, HandledEvent DEF JobOK, Idle
  <2>3. /\ e.opened = now /\ e.evicted = DOMAIN states \ DOMAIN states'
        /\ Kept(EventOf(w), e,
             {"at", "after", "outcome", "gen", "route", "first", "cleared"})
      BY <2>1, HandledEvent DEF EventOK, EventFields, Kept, EventOf
  <2> HIDE DEF j, e
  <2>4. Alters(w) /\ job'[w] = j /\ events'[i] = e
      BY <2>1, <2>2, StepFrame
  <2> QED
      BY <2>1, <2>2, <2>3, <2>4 DEF Puts
<1>8. CASE Send(w)
  <2>1. PICK missed \in SUBSET Configs[job[w].gen].targets :
          /\ job' = [job EXCEPT ![w] = Idle]
          /\ events' = [events EXCEPT
                ![i].missed = missed,
                ![i].outcome = IF SendFails(missed)
                               THEN "forward_failed" ELSE Forwarded(job[w].route),
                ![i].alerts = @ + IF SendFails(missed)
                                  THEN 0 ELSE AlertWritten(w)]
      BY <1>8 DEF Send
  <2> DEFINE e == [events[i] EXCEPT
                !.missed = missed,
                !.outcome = IF SendFails(missed)
                            THEN "forward_failed" ELSE Forwarded(job[w].route),
                !.alerts = @ + IF SendFails(missed)
                               THEN 0 ELSE AlertWritten(w)]
  <2>2. Busy(w) /\ UNCHANGED <<states, now>>
      BY <1>8 DEF Send, Busy
  <2>3. events' = [events EXCEPT ![i] = e]
      BY <2>1
  <2>4. /\ e.outcome \notin {"pending", "duplicate"}
        /\ Kept(EventOf(w), e, {"at", "after", "gen", "route", "opened", "first",
                                "cleared", "evicted"})
      BY <2>2, HandledEvent DEF EventOK, EventFields, Kept, EventOf, Forwarded
  <2> HIDE DEF e
  <2>5. Alters(w) /\ job'[w] = Idle /\ events'[i] = e
      BY <1>i, <2>1, <2>2, <2>3, StepFrame
  <2> QED
      BY <2>2, <2>4, <2>5 DEF Ends
<1> QED
    BY <1>2, <1>3, <1>4, <1>5, <1>6, <1>7, <1>8 DEF Work

\* A worker takes a datagram.
LEMMA ParseIs ==
    ASSUME TypeOK, NEW w \in Workers, Parse(w) PROVE Takes(w)
<1>1. PICK p \in Packets :
        IF p.valid
        THEN /\ events' = Append(events, Arrived)
             /\ job' = [job EXCEPT ![w] =
                  [Idle EXCEPT !.pc = "handle", !.at = now,
                     !.id = Len(events) + 1,
                     !.event = packetToEvent(p, Configs[current].aliases)]]
        ELSE /\ events' = Append(events, [Arrived EXCEPT !.outcome = "parse_failed"])
             /\ UNCHANGED job
    BY DEF Parse, ParsePacket
<1>2. PICK f : /\ events' = Append(events, f)
               /\ f.at = now /\ f.after = Decided /\ f.opened = -1
               /\ f.cleared = {} /\ f.evicted = {}
               /\ f.outcome \in {"pending", "parse_failed"}
    BY <1>1 DEF Arrived
<1>3. /\ Len(events) \in Nat /\ Len(events') = Len(events) + 1
      /\ \A i \in 1 .. Len(events) : events'[i] = events[i]
      /\ events'[Len(events) + 1] = f
    BY <1>2, AppendSeq DEF TypeOK
<1>4. Ids' = Ids \cup {Len(events) + 1}
    BY <1>3 DEF Ids
<1>5. /\ \A v \in Workers \ {w} : job'[v] = job[v]
      /\ \/ job'[w] = job[w]
         \/ /\ job'[w].pc = "handle" /\ job'[w].at = now
            /\ job'[w].id = Len(events) + 1
  <2>1. DOMAIN job = Workers
      BY DEF TypeOK
  <2>2. UNCHANGED job \/ \E event : job' = [job EXCEPT ![w] =
            [Idle EXCEPT !.pc = "handle", !.at = now,
                         !.id = Len(events) + 1, !.event = event]]
      BY <1>1
  <2> QED
      BY <2>1, <2>2 DEF Idle
<1>6. ~Busy(w) /\ UNCHANGED <<states, now>>
    BY DEF Parse, ParsePacket, Busy
<1> QED
    BY <1>2, <1>3, <1>4, <1>5, <1>6 DEF Takes, Ids

\* Every step is one of a worker that takes or handles an event, or of none.
LEMMA NextIs ==
    ASSUME TypeOK, HistoryInv, [Next]_vars
    PROVE  \/ \E w \in Workers : Takes(w)
           \/ \E w \in Workers :
                 /\ Busy(w) /\ Alters(w)
                 /\ \/ Ends(w) \/ Loads(w) \/ Clears(w) \/ Gets(w) \/ Counts(w)
                    \/ Misses(w) \/ Puts(w)
           \/ Waits
<1>1. ASSUME NEW w \in Workers, Parse(w) PROVE Takes(w)
    BY <1>1, ParseIs
<1>2. CASE CleanupTick \/ Reload \/ CloseOldAlerts \/ CloseOldForwarder \/ Tick
           \/ UNCHANGED vars
    BY <1>2 DEF CleanupTick, Reload, CloseOldAlerts, CloseOldForwarder, Tick, vars, Waits
<1> QED
    BY <1>1, <1>2, WorkIs DEF Next

-----------------------------------------------------------------------------
\* A worker and the history of its event

\* What the stack j of a worker has in common with the history e of its event, which
\* was taken at the time t at the latest and opens a window in Put only.
Tracks(j, e, t) ==
    /\ e.at = j.at
    /\ j.at <= t
    /\ j.pc # "handle" => e.route = j.route
    /\ j.pc # "send" => e.opened = -1

StackInv ==
    /\ \A w \in Workers : Busy(w) => Tracks(job[w], EventOf(w), now)
    /\ \A i \in Ids : /\ events[i].at <= now
                      /\ events[i].at \in Nat
                      /\ ~Opened(i) => events[i].evicted = {}
                      /\ events[i].after \subseteq Decided

\* The set of the events that are decided, by their numbers.
LEMMA DecidedIs ==
    ASSUME TypeOK PROVE Decided = {i \in Ids : events[i].outcome # "pending"}
<1>1. DOMAIN events = Ids
    BY DEF TypeOK, Ids
<1> QED
    BY <1>1 DEF Decided

\* What a step leaves of the history of an event.
Grows(e, f) ==
    /\ Kept(e, f, {"at", "after"})
    /\ e.outcome # "pending" => f = e
    /\ e.opened # -1 => Kept(e, f, {"gen", "route", "opened"})
    /\ e.cleared \subseteq f.cleared
    /\ e.evicted \subseteq f.evicted

\* An event that is decided stays as it is; a window that was opened stays in the
\* history with its rule, its key and its time; what was cleared or evicted stays
\* cleared or evicted.
LEMMA HistoryGrows ==
    ASSUME TypeOK, HistoryInv, StackInv, [Next]_vars
    PROVE  Ids \subseteq Ids' /\ \A i \in Ids : Grows(events[i], events'[i])
<1>u. ASSUME NEW e PROVE Grows(e, e)
    BY DEF Grows, Kept
<1>1. ASSUME NEW w \in Workers, Takes(w)
      PROVE  Ids \subseteq Ids' /\ \A i \in Ids : Grows(events[i], events'[i])
    BY <1>1, <1>u DEF Takes
<1>2. ASSUME NEW w \in Workers, Busy(w), Alters(w),
             \/ Ends(w) \/ Loads(w) \/ Clears(w) \/ Gets(w) \/ Counts(w)
             \/ Misses(w) \/ Puts(w)
      PROVE  Ids \subseteq Ids' /\ \A i \in Ids : Grows(events[i], events'[i])
  <2> DEFINE e == EventOf(w)
             f == events'[job[w].id]
  <2>1. /\ job[w].id \in Ids /\ e.outcome = "pending"
        /\ Tracks(job[w], e, now)
        /\ e.opened = -1 => e.evicted = {}
      BY <1>2, HandledEvent DEF InHand, StackInv, EventOf, Opened
  <2>2. Grows(e, f)
    <3>1. CASE Ends(w)
        BY <2>1, <3>1 DEF Ends, Grows, Kept
    <3>2. CASE Loads(w)
        BY <2>1, <3>2 DEF Loads, Grows, Kept, Tracks
    <3>3. CASE Clears(w)
        BY <2>1, <3>3 DEF Clears, Grows, Kept
    <3>4. CASE Gets(w) \/ Misses(w)
        BY <3>4, <1>u DEF Gets, Misses
    <3>5. CASE Counts(w)
        BY <2>1, <3>5 DEF Counts, Grows, Kept
    <3>6. CASE Puts(w)
        BY <2>1, <3>6 DEF Puts, Grows, Kept, Tracks
    <3> QED
        BY <1>2, <3>1, <3>2, <3>3, <3>4, <3>5, <3>6
  <2> QED
      BY <1>2, <2>2, <1>u DEF Alters, EventOf
<1>3. CASE Waits
    BY <1>3, <1>u DEF Waits, Ids
<1> QED
    BY <1>1, <1>2, <1>3, NextIs

\* An event that is decided stays decided.
LEMMA DecidedStays ==
    ASSUME TypeOK, TypeOK', HistoryInv, StackInv, [Next]_vars
    PROVE  Decided \subseteq Decided'
<1>1. DOMAIN events' = Ids'
    BY DEF TypeOK, Ids
<1>2. Decided' = {i \in Ids' : events'[i].outcome # "pending"}
    BY <1>1 DEF Decided
<1> QED
    BY <1>2, DecidedIs, HistoryGrows DEF Grows

\* Every step keeps the stacks and the history together.
LEMMA StackStep ==
    ASSUME TypeOK, TypeOK', HistoryInv, StackInv, [Next]_vars PROVE StackInv'
<1>t. now \in Nat /\ now' \in Nat
    BY DEF TypeOK
<1>n. now <= now'
    BY <1>t, NextIs DEF Takes, Alters, Waits
<1>s. Decided \subseteq Decided'
    BY DecidedStays
<1>d. \A i \in Ids : events[i].after \subseteq Decided'
    BY <1>s DEF StackInv
<1>a. ASSUME NEW i \in Ids, events'[i].at = events[i].at
      PROVE  events'[i].at <= now' /\ events'[i].at \in Nat
    BY <1>a, <1>t, <1>n DEF StackInv
<1>e. ASSUME NEW i \in Ids, ~Opened(i)' => events'[i].evicted = {}
      PROVE  /\ events'[i].at <= now'
             /\ events'[i].at \in Nat
             /\ ~Opened(i)' => events'[i].evicted = {}
             /\ events'[i].after \subseteq Decided'
    BY <1>e, <1>a, <1>d, HistoryGrows DEF Grows, Kept
<1>j. ASSUME NEW v \in Workers, Busy(v), job'[v] = job[v],
             events'[job[v].id] = events[job[v].id]
      PROVE  Tracks(job'[v], events'[job'[v].id], now')
  <2>1. job[v].at \in Nat /\ Tracks(job[v], events[job[v].id], now)
      BY <1>j DEF TypeOK, JobOK, StackInv, EventOf
  <2> QED
      BY <1>j, <1>t, <1>n, <2>1 DEF Tracks
<1>1. ASSUME NEW w \in Workers, Takes(w) PROVE StackInv'
  <2> DEFINE n == Len(events) + 1
  <2>1. /\ \A i \in Ids' : i = n \/ i \in Ids
        /\ \A i \in Ids : events'[i] = events[i]
      BY <1>1 DEF Takes
  <2>2. \A i \in Ids : ~Opened(i)' => events'[i].evicted = {}
      BY <2>1 DEF StackInv, Opened
  <2>3. /\ events'[n].at <= now' /\ events'[n].at \in Nat /\ events'[n].evicted = {}
        /\ events'[n].after \subseteq Decided'
      BY <1>1, <1>t, <1>s DEF Takes
  <2>4. ASSUME NEW v \in Workers, Busy(v)'
        PROVE  Tracks(job'[v], events'[job'[v].id], now')
    <3>1. CASE job'[v] = job[v]
        BY <2>1, <2>4, <3>1, <1>j, HandledEvent DEF Busy
    <3>2. CASE job'[v] # job[v]
      <4>1. /\ job'[v].pc = "handle" /\ job'[v].at = now /\ job'[v].id = n
            /\ now' = now
          BY <1>1, <3>2 DEF Takes
      <4>2. events'[n].at = now /\ events'[n].opened = -1
          BY <1>1 DEF Takes
      <4> QED
          BY <1>t, <4>1, <4>2 DEF Tracks
    <3> QED
        BY <3>1, <3>2
  <2> QED
      BY <2>1, <2>2, <2>3, <2>4, <1>e DEF StackInv, EventOf
<1>2. ASSUME NEW w \in Workers, Busy(w), Alters(w),
             \/ Ends(w) \/ Loads(w) \/ Clears(w) \/ Gets(w) \/ Counts(w)
             \/ Misses(w) \/ Puts(w)
      PROVE  StackInv'
  <2> DEFINE e == EventOf(w)
             f == events'[job[w].id]
  <2>1. /\ job[w].id \in Ids
        /\ Tracks(job[w], e, now)
        /\ e.opened = -1 => e.evicted = {}
      BY <1>2, HandledEvent DEF StackInv, EventOf, Opened
  <2>2. f.opened = -1 => f.evicted = {}
    <3>1. CASE Puts(w)
        BY <1>t, <3>1 DEF Puts
    <3>2. CASE ~Puts(w)
      <4>1. f.opened = e.opened /\ f.evicted = e.evicted
          BY <1>2, <3>2 DEF Ends, Loads, Clears, Gets, Counts, Misses, Kept
      <4> QED
          BY <2>1, <4>1
    <3> QED
        BY <3>1, <3>2
  <2>3. \A i \in Ids : ~Opened(i)' => events'[i].evicted = {}
      BY <1>2, <2>2 DEF Alters, StackInv, Opened
  <2>4. ASSUME job'[w].pc # "idle" PROVE Tracks(job'[w], f, now')
    <3>0. /\ job'[w].id = job[w].id /\ job'[w].at = job[w].at /\ now' = now
        BY <1>2, <2>4 DEF Alters
    <3>1. CASE Ends(w) \/ Counts(w)
        BY <2>4, <3>1 DEF Ends, Counts, Idle
    <3>2. CASE Loads(w)
        BY <2>1, <3>0, <3>2 DEF Loads, Kept, Tracks, EventOf
    <3>3. CASE Clears(w)
        BY <2>1, <3>0, <3>3 DEF Clears, Kept, Tracks, EventOf
    <3>4. CASE Gets(w) \/ Misses(w)
        BY <2>1, <3>0, <3>4 DEF Gets, Misses, Tracks, EventOf
    <3>5. CASE Puts(w)
        BY <2>1, <3>0, <3>5 DEF Puts, Kept, Tracks, EventOf
    <3> QED
        BY <1>2, <3>1, <3>2, <3>3, <3>4, <3>5
  <2>5. ASSUME NEW v \in Workers, Busy(v)'
        PROVE  Tracks(job'[v], events'[job'[v].id], now')
    <3>1. CASE v = w
        BY <1>2, <2>4, <2>5, <3>1 DEF Busy, Alters
    <3>2. CASE v # w
      <4>1. job'[v] = job[v] /\ Busy(v)
          BY <1>2, <2>5, <3>2 DEF Alters, Busy
      <4>2. job[v].id \in Ids /\ job[v].id # job[w].id
          BY <1>2, <3>2, <4>1, HandledEvent DEF HistoryInv, OneWorkerPerEvent
      <4> QED
          BY <1>2, <4>1, <4>2, <1>j DEF Alters
    <3> QED
        BY <3>1, <3>2
  <2>6. Ids' = Ids
      BY <1>2 DEF Alters
  <2> QED
      BY <2>3, <2>5, <2>6, <1>e DEF StackInv, EventOf
<1>3. CASE Waits
  <2>1. Ids' = Ids /\ \A i \in Ids : events'[i] = events[i]
      BY <1>3 DEF Waits, Ids
  <2>2. \A i \in Ids : ~Opened(i)' => events'[i].evicted = {}
      BY <2>1 DEF StackInv, Opened
  <2>3. \A v \in Workers : Busy(v)' => Tracks(job'[v], events'[job'[v].id], now')
      BY <1>3, <1>j DEF Waits, Busy
  <2> QED
      BY <2>1, <2>2, <2>3, <1>e DEF StackInv, EventOf
<1> QED
    BY <1>1, <1>2, <1>3, NextIs

\* Nothing was taken before the first step.
LEMMA StackInit == Init => StackInv
BY DEF Init, StackInv, Busy, Idle, Ids

\* The facts about every state that the rest of the module starts from.
EngineInv == Inv /\ HistoryInv /\ StackInv

\* EngineInv holds at the start.
LEMMA EngineInit == Init => EngineInv
BY InvInit, HistoryInit, StackInit DEF EngineInv

\* EngineInv is inductive.
LEMMA EngineStep == EngineInv /\ [Next]_vars => EngineInv'
BY InvStep, HistoryNext, StackStep DEF EngineInv, Inv

-----------------------------------------------------------------------------
\* The table

\* The two values of an entry describe the same window.
SameWindow(s, t) ==
    /\ t.first = s.first
    /\ t.firstSeenAt = s.firstSeenAt
    /\ t.ttl = s.ttl
    /\ t.hold = s.hold

\* What Put leaves in the table, and which entry it may evict.
LEMMA PutLeaves ==
    ASSUME NEW k, NEW e, NEW ttl, NEW hold, Put(k, e, ttl, hold)
    PROVE  /\ k \in DOMAIN states'
           /\ states'[k] = NewState(e, ttl, hold)
           /\ \A x \in DOMAIN states' \ {k} : x \in DOMAIN states /\ states'[x] = states[x]
           /\ \A x \in DOMAIN states \ DOMAIN states' :
                 Limit > 0 /\ Cardinality(DOMAIN states) >= Limit /\ x \in Oldest
<1>1. PICK kept \in Room :
         states' = [x \in kept \cup {k} |->
                      IF x = k THEN NewState(e, ttl, hold) ELSE states[x]]
    BY DEF Put
<1>2. kept \subseteq DOMAIN states
    BY DEF Room
<1>3. \A x \in DOMAIN states \ kept :
         Limit > 0 /\ Cardinality(DOMAIN states) >= Limit /\ x \in Oldest
    BY DEF Room
<1> QED
    BY <1>1, <1>2, <1>3

\* What Touch makes of the entry of its key.
LEMMA TouchKeepsWindow ==
    ASSUME StoreTypeOK, NEW k, NEW e, Touch(k, e)
    PROVE  /\ DOMAIN states' = DOMAIN states
           /\ \A x \in DOMAIN states :
                 SameWindow(states[x], states'[x])
                 /\ states'[x].suppressed >= states[x].suppressed
<1>1. ASSUME NEW x \in DOMAIN states
      PROVE  /\ SameWindow(states[x], states[x])
             /\ states[x].suppressed >= states[x].suppressed
             /\ SameWindow(states[x], Touched(states[x], e))
             /\ Touched(states[x], e).suppressed >= states[x].suppressed
  <2> DEFINE s == states[x]
  <2>1. s \in DedupState
      BY DEF StoreTypeOK
  <2> HIDE DEF s
  <2>2. SameWindow(s, s) /\ SameWindow(s, Touched(s, e))
      BY <2>1 DEF SameWindow, Touched, DedupState
  <2>3. s.suppressed \in Nat /\ Touched(s, e).suppressed = s.suppressed + 1
      BY <2>1 DEF Touched, DedupState
  <2>4. s.suppressed >= s.suppressed /\ Touched(s, e).suppressed >= s.suppressed
      BY <2>3
  <2> QED
      BY <2>2, <2>4 DEF s
<1> QED
    BY <1>1 DEF Touch

\* Where an entry comes from: it was there before the step, or a worker put it.
LEMMA EntryStep ==
    ASSUME EngineInv, [Next]_vars, NEW k \in DOMAIN states'
    PROVE  \/ /\ k \in DOMAIN states
              /\ SameWindow(states[k], states'[k])
              /\ states'[k].suppressed >= states[k].suppressed
           \/ \E w \in Workers : /\ Busy(w) /\ Alters(w) /\ Puts(w)
                                 /\ job[w].route.key = k
<1>t. TypeOK /\ HistoryInv /\ StoreTypeOK
    BY DEF EngineInv, Inv, TypeOK
<1>u. ASSUME k \in DOMAIN states, states'[k] = states[k]
      PROVE  /\ SameWindow(states[k], states'[k])
             /\ states'[k].suppressed >= states[k].suppressed
  <2>1. states[k].suppressed \in Nat
      BY <1>t, <1>u DEF StoreTypeOK, DedupState
  <2> QED
      BY <1>u, <2>1 DEF SameWindow
<1>1. CASE \E w \in Workers : Takes(w)
    BY <1>1, <1>u DEF Takes
<1>2. ASSUME NEW w \in Workers, Busy(w), Alters(w),
             \/ Ends(w) \/ Loads(w) \/ Clears(w) \/ Gets(w) \/ Counts(w)
             \/ Misses(w) \/ Puts(w)
      PROVE  \/ /\ k \in DOMAIN states
                /\ SameWindow(states[k], states'[k])
                /\ states'[k].suppressed >= states[k].suppressed
             \/ Puts(w) /\ job[w].route.key = k
  <2>1. CASE Ends(w) \/ Loads(w) \/ Misses(w)
      BY <2>1, <1>u DEF Ends, Loads, Misses
  <2>2. CASE Clears(w)
      BY <2>2, <1>u DEF Clears, Clear, Without
  <2>3. CASE Gets(w)
      BY <2>3, <1>u DEF Gets, Get, Without
  <2>4. CASE Counts(w)
      BY <2>4, <1>t, TouchKeepsWindow DEF Counts
  <2>5. CASE Puts(w)
      BY <2>5, <1>u, PutLeaves DEF Puts
  <2> QED
      BY <1>2, <2>1, <2>2, <2>3, <2>4, <2>5
<1>3. CASE Waits
    BY <1>3, <1>u DEF Waits, Cleanup, Without
<1> QED
    BY <1>t, <1>1, <1>2, <1>3, NextIs

\* An entry that is expired stays so.
LEMMA ExpiredLater ==
    ASSUME StoreTypeOK, NEW k \in DOMAIN states, NEW t \in Int, NEW u \in Int, t <= u,
           Expired(states[k], t)
    PROVE  Expired(states[k], u)
<1>1. states[k].firstSeenAt \in Int /\ states[k].ttl \in Int
    BY DEF StoreTypeOK, DedupState
<1> QED
    BY <1>1 DEF Expired, ExpiresAt

\* Where an entry goes: a clear named its key, its window is over, or a Put evicted
\* it from a full table.
LEMMA EntryGone ==
    ASSUME EngineInv, [Next]_vars, NEW k \in DOMAIN states \ DOMAIN states'
    PROVE  \/ \E w \in Workers : /\ Busy(w) /\ Alters(w) /\ Clears(w)
                                 /\ NextKey(job[w].todo) = k
           \/ Expired(states[k], now)
           \/ \E w \in Workers : /\ Busy(w) /\ Alters(w) /\ Puts(w)
                                 /\ Limit > 0 /\ Cardinality(DOMAIN states) >= Limit
                                 /\ k \in Oldest
<1>t. TypeOK /\ HistoryInv /\ StoreTypeOK /\ now \in Nat
    BY DEF EngineInv, Inv, TypeOK
<1>x. ASSUME NEW t \in Int, t <= now, Expired(states[k], t)
      PROVE  Expired(states[k], now)
    BY <1>t, <1>x, ExpiredLater
<1>1. CASE \E w \in Workers : Takes(w)
    BY <1>1 DEF Takes
<1>2. ASSUME NEW w \in Workers, Busy(w), Alters(w),
             \/ Ends(w) \/ Loads(w) \/ Clears(w) \/ Gets(w) \/ Counts(w)
             \/ Misses(w) \/ Puts(w)
      PROVE  \/ Clears(w) /\ NextKey(job[w].todo) = k
             \/ Expired(states[k], now)
             \/ /\ Puts(w) /\ Limit > 0 /\ Cardinality(DOMAIN states) >= Limit
                /\ k \in Oldest
  <2>1. CASE Ends(w) \/ Loads(w) \/ Misses(w)
      BY <2>1 DEF Ends, Loads, Misses
  <2>2. CASE Clears(w)
      BY <2>2 DEF Clears, Clear, Without
  <2>3. CASE Gets(w)
    <3>1. Expired(states[k], job[w].at)
        BY <2>3 DEF Gets, Get, Without
    <3>2. job[w].at \in Int /\ job[w].at <= now
        BY <1>2, <1>t DEF TypeOK, JobOK, EngineInv, StackInv, Tracks
    <3> QED
        BY <3>1, <3>2, <1>x
  <2>4. CASE Counts(w)
      BY <2>4, <1>t, TouchKeepsWindow DEF Counts
  <2>5. CASE Puts(w)
      BY <2>5, PutLeaves DEF Puts
  <2> QED
      BY <1>2, <2>1, <2>2, <2>3, <2>4, <2>5
<1>3. CASE Waits
  <2>1. PICK t \in {now - 1, now} : Cleanup(t)
      BY <1>3 DEF Waits
  <2>2. Expired(states[k], t)
      BY <2>1 DEF Cleanup, Without
  <2> QED
      BY <1>t, <1>x, <2>2
<1> QED
    BY <1>t, <1>1, <1>2, <1>3, NextIs

\* With any number of workers, an entry leaves the table because a clear named its
\* key, because its window is over and it is not held, or because a Put evicts the
\* least recently seen of a full table: a lagging Get or Cleanup takes none inside
\* its window, and a reload takes none at all.
THEOREM RemovedForAReason == Spec => RemovalJustified
<1>1. ASSUME EngineInv, [Next]_vars, NEW k \in DOMAIN states \ DOMAIN states'
      PROVE  \/ Clearing(k)
             \/ ~states[k].hold /\ ExpiresAt(states[k]) <= now
             \/ /\ Cardinality(DOMAIN states) = Limit
                /\ \E x \in DOMAIN states' : Putting(x)
                /\ \A x \in DOMAIN states :
                      states[k].lastSeenAt <= states[x].lastSeenAt
  <2>1. CASE \E w \in Workers : Clears(w) /\ NextKey(job[w].todo) = k
      BY <2>1 DEF Clears, Clearing
  <2>2. CASE Expired(states[k], now)
      BY <2>2 DEF Expired
  <2>3. ASSUME NEW w \in Workers, Puts(w), k \in Oldest,
               Limit > 0 /\ Cardinality(DOMAIN states) >= Limit
        PROVE  /\ Cardinality(DOMAIN states) = Limit
               /\ \E x \in DOMAIN states' : Putting(x)
               /\ \A x \in DOMAIN states :
                     states[k].lastSeenAt <= states[x].lastSeenAt
    <3>1. Cardinality(DOMAIN states) \in Nat
        BY <1>1, FS_CardinalityType DEF EngineInv, Inv, TypeOK, StoreTypeOK
    <3>2. Cardinality(DOMAIN states) = Limit
        BY <1>1, <2>3, <3>1, LimitAssumption DEF EngineInv, Inv, StoreBounded
    <3>3. job[w].route.key \in DOMAIN states' /\ Putting(job[w].route.key)
        BY <2>3, PutLeaves DEF Puts, Putting
    <3> QED
        BY <2>3, <3>2, <3>3 DEF Oldest
  <2> QED
      BY <1>1, <2>1, <2>2, <2>3, EntryGone
<1>2. EngineInv /\ [Next]_vars =>
        [\A k \in DOMAIN states \ DOMAIN states' :
             \/ Clearing(k)
             \/ ~states[k].hold /\ ExpiresAt(states[k]) <= now
             \/ /\ Cardinality(DOMAIN states) = Limit
                /\ \E x \in DOMAIN states' : Putting(x)
                /\ \A x \in DOMAIN states :
                      states[k].lastSeenAt <= states[x].lastSeenAt]_vars
    BY <1>1
<1> QED
    BY <1>2, EngineInit, EngineStep, PTL DEF Spec, RemovalJustified

\* With any number of workers, no step but a Put by a worker that found no entry
\* moves the end of a window, gives it another first trap or forgets a repetition.
THEOREM WindowsStayFixed == Spec => WindowFixed
<1>1. ASSUME EngineInv, [Next]_vars, NEW k \in DOMAIN states \cap DOMAIN states'
      PROVE  \/ Putting(k) /\ states'[k].suppressed = 0
             \/ /\ states'[k].first = states[k].first
                /\ ExpiresAt(states'[k]) = ExpiresAt(states[k])
                /\ states'[k].hold = states[k].hold
                /\ states'[k].suppressed >= states[k].suppressed
  <2>1. ASSUME NEW w \in Workers, Puts(w), job[w].route.key = k
        PROVE  Putting(k) /\ states'[k].suppressed = 0
    <3>1. Putting(k) /\ states'[k] = NewState(job[w], Rule(w).ttl, Rule(w).hold)
        BY <2>1, PutLeaves DEF Puts, Putting
    <3> QED
        BY <3>1 DEF NewState
  <2> QED
      BY <1>1, <2>1, EntryStep DEF SameWindow, ExpiresAt
<1>2. EngineInv /\ [Next]_vars =>
        [\A k \in DOMAIN states \cap DOMAIN states' :
             \/ Putting(k) /\ states'[k].suppressed = 0
             \/ /\ states'[k].first = states[k].first
                /\ ExpiresAt(states'[k]) = ExpiresAt(states[k])
                /\ states'[k].hold = states[k].hold
                /\ states'[k].suppressed >= states[k].suppressed]_vars
    BY <1>1
<1> QED
    BY <1>2, EngineInit, EngineStep, PTL DEF Spec, WindowFixed

-----------------------------------------------------------------------------
\* What the history says of the table

\* The entry s of the key k is the window that an event of the history opened, with
\* the time of that event and the TTL and the hold of its alarm rule.
Origin(k, s) ==
    /\ s.first \in Ids
    /\ Opened(s.first)
    /\ events[s.first].route.key = k
    /\ s.firstSeenAt = events[s.first].at
    /\ s.ttl = AlarmOf(s.first).ttl
    /\ s.hold = AlarmOf(s.first).hold

\* The entry of k did not survive a clear: no clear that names k was taken after
\* the first event of the entry was decided.
NotCleared(k, s) ==
    \A c \in Ids : k \in events[c].cleared => ~Before(s.first, c)

EntryInv == \A k \in DOMAIN states : Origin(k, states[k]) /\ NotCleared(k, states[k])

\* A Get that finds an entry finds a window that covers its event, and the history
\* keeps that window whatever happens to the entry before Touch.
Covered(w) == \E i \in Ids : /\ Opened(i)
                             /\ events[i].route.key = job[w].route.key
                             /\ InWindow(i, job[w].at)

\* After a Get or a Touch that finds no entry, the entry that another worker puts
\* is none of an event that was decided before this one was taken.
Fresh(w) == LET k == job[w].route.key
            IN  k \in DOMAIN states => ~Before(states[k].first, job[w].id)

CallInv == \A w \in Workers : /\ job[w].pc = "touch" => Covered(w)
                              /\ job[w].pc = "put" => Fresh(w)

\* What may end the window of i before its time: an event that cleared or evicted
\* its key, or opened another window for it.
Removes(c, i) == events[i].route.key \in events[c].cleared \cup events[c].evicted
Reopens(c, i) == Opened(c) /\ SameKey(c, i)

Ousts(c, i) == ~Before(c, i) /\ (Removes(c, i) \/ Reopens(c, i))

\* The entry of an event is in the table until its window is over, or another event
\* that was not decided when this one was taken cleared, evicted or replaced it.
InTable(i) == LET k == events[i].route.key
              IN  k \in DOMAIN states /\ states[k].first = i

OpenInv == \A i \in Ids : Opened(i) =>
              /\ AlarmOf(i).ttl \in Int
              /\ \/ InTable(i)
                 \/ ~InWindow(i, now)
                 \/ \E c \in Ids \ {i} : Ousts(c, i)

\* The inductive invariant of deduplication.
DedupInv == EntryInv /\ CallInv /\ OpenInv /\ DuplicateOfOpened /\ ClearTakesEffect
            /\ SuppressedUnlessRaced

-----------------------------------------------------------------------------
\* Where the facts of the history come from

\* The event in the hands of a worker precedes no other, and it has opened no window
\* before it is sent.
LEMMA InHandLast ==
    ASSUME EngineInv, NEW w \in Workers, Busy(w)
    PROVE  /\ job[w].id \in Ids
           /\ \A i \in Ids : ~Before(job[w].id, i)
           /\ job[w].pc # "send" => ~Opened(job[w].id)
<1>t. TypeOK /\ HistoryInv /\ StackInv
    BY DEF EngineInv, Inv
<1>1. job[w].id \in Ids /\ events[job[w].id].outcome = "pending"
    BY <1>t, HandledEvent DEF InHand
<1>2. job[w].id \notin Decided
    BY <1>1 DEF Decided
<1>3. Tracks(job[w], EventOf(w), now)
    BY <1>t DEF StackInv
<1> QED
    BY <1>t, <1>1, <1>2, <1>3 DEF StackInv, Before, Tracks, EventOf, Opened

\* A window that was opened stays in the history, with its rule, key and time.
LEMMA OpenedStays ==
    ASSUME EngineInv, [Next]_vars, NEW i \in Ids, Opened(i)
    PROVE  /\ i \in Ids' /\ Opened(i)'
           /\ events'[i].route = events[i].route
           /\ events'[i].at = events[i].at
           /\ events'[i].opened = events[i].opened
           /\ AlarmOf(i)' = AlarmOf(i)
<1>1. Ids \subseteq Ids' /\ Grows(events[i], events'[i])
    BY HistoryGrows DEF EngineInv, Inv
<1>2. /\ events'[i].route = events[i].route
      /\ events'[i].at = events[i].at
      /\ events'[i].opened = events[i].opened
      /\ events'[i].gen = events[i].gen
    BY <1>1 DEF Grows, Kept, Opened
<1> QED
    BY <1>1, <1>2 DEF Opened, AlarmOf

\* Only Put opens a window.
LEMMA OpenedBy ==
    ASSUME EngineInv, [Next]_vars, NEW i \in Ids', Opened(i)'
    PROVE  \/ i \in Ids /\ Opened(i)
           \/ \E w \in Workers : /\ Busy(w) /\ Alters(w) /\ Puts(w)
                                 /\ job[w].id = i
<1>t. TypeOK /\ HistoryInv
    BY DEF EngineInv, Inv
<1>1. ASSUME NEW w \in Workers, Takes(w) PROVE i \in Ids /\ Opened(i)
    BY <1>1 DEF Takes, Opened
<1>2. ASSUME NEW w \in Workers, Busy(w), Alters(w),
             \/ Ends(w) \/ Loads(w) \/ Clears(w) \/ Gets(w) \/ Counts(w)
             \/ Misses(w), job[w].id = i
      PROVE  Opened(i)
  <2>1. events'[i].opened = events[i].opened
      BY <1>2 DEF Ends, Loads, Clears, Gets, Counts, Misses, Kept, EventOf
  <2> QED
      BY <2>1 DEF Opened
<1>3. ASSUME NEW w \in Workers, Alters(w), job[w].id # i PROVE i \in Ids /\ Opened(i)
    BY <1>3 DEF Alters, Opened
<1>4. CASE Waits
    BY <1>4 DEF Waits, Opened, Ids
<1> QED
    BY <1>t, <1>1, <1>2, <1>3, <1>4, NextIs DEF Alters

\* Only Clear adds a key to those an event cleared, and the key is then gone.
LEMMA ClearedBy ==
    ASSUME EngineInv, [Next]_vars, NEW c \in Ids', NEW k, k \in events'[c].cleared
    PROVE  \/ c \in Ids /\ k \in events[c].cleared
           \/ k \notin DOMAIN states'
<1>t. TypeOK /\ HistoryInv
    BY DEF EngineInv, Inv
<1>1. ASSUME NEW w \in Workers, Takes(w) PROVE c \in Ids /\ k \in events[c].cleared
    BY <1>1 DEF Takes
<1>2. ASSUME NEW w \in Workers, Busy(w), Alters(w), job[w].id = c,
             \/ Ends(w) \/ Loads(w) \/ Gets(w) \/ Counts(w) \/ Misses(w) \/ Puts(w)
      PROVE  k \in events[c].cleared
    BY <1>2 DEF Ends, Loads, Gets, Counts, Misses, Puts, Kept, EventOf
<1>3. ASSUME NEW w \in Workers, Alters(w), job[w].id = c, Clears(w)
      PROVE  k \in events[c].cleared \/ k \notin DOMAIN states'
    BY <1>3 DEF Clears, EventOf, Clear, Without
<1>4. ASSUME NEW w \in Workers, Alters(w), job[w].id # c
      PROVE  c \in Ids /\ k \in events[c].cleared
    BY <1>4 DEF Alters
<1>5. CASE Waits
    BY <1>5 DEF Waits, Ids
<1> QED
    BY <1>t, <1>1, <1>2, <1>3, <1>4, <1>5, NextIs DEF Alters

\* Only Touch makes an event a duplicate.
LEMMA DuplicateBy ==
    ASSUME EngineInv, [Next]_vars, NEW j \in Ids', events'[j].outcome = "duplicate"
    PROVE  \/ j \in Ids /\ events[j].outcome = "duplicate" /\ events'[j] = events[j]
           \/ \E w \in Workers : /\ Busy(w) /\ Alters(w) /\ Counts(w)
                                 /\ job[w].id = j
<1>t. TypeOK /\ HistoryInv
    BY DEF EngineInv, Inv
<1>1. ASSUME NEW w \in Workers, Takes(w) PROVE j \in Ids /\ events'[j] = events[j]
    BY <1>1 DEF Takes
<1>2. ASSUME NEW w \in Workers, Busy(w), Alters(w), job[w].id = j,
             \/ Ends(w) \/ Loads(w) \/ Clears(w) \/ Gets(w) \/ Misses(w) \/ Puts(w)
      PROVE  FALSE
  <2>1. EventOf(w).outcome = "pending"
      BY <1>t, <1>2, HandledEvent DEF InHand, EventOf
  <2> QED
      BY <1>2, <2>1 DEF Ends, Loads, Clears, Gets, Misses, Puts, Kept
<1>3. ASSUME NEW w \in Workers, Alters(w), job[w].id # j
      PROVE  j \in Ids /\ events'[j] = events[j]
    BY <1>3 DEF Alters
<1>4. CASE Waits
    BY <1>4 DEF Waits, Ids
<1> QED
    BY <1>t, <1>1, <1>2, <1>3, <1>4, NextIs DEF Alters

\* What a Put writes, into the table and into the history.
LEMMA PutWrites ==
    ASSUME EngineInv, NEW w \in Workers, Busy(w), Alters(w), Puts(w),
           NEW i, i = job[w].id
    PROVE  LET k == job[w].route.key
           IN  /\ i \in Ids /\ i \in Ids' /\ ~Opened(i) /\ Opened(i)'
               /\ events[i].route = job[w].route /\ events'[i].route = job[w].route
               /\ events'[i].opened = now /\ events'[i].at = job[w].at
               /\ events'[i].after = events[i].after
               /\ events'[i].cleared = events[i].cleared
               /\ AlarmOf(i)' = Rule(w) /\ Rule(w).ttl \in Int
               /\ k \in DOMAIN states'
               /\ states'[k].first = i /\ states'[k].firstSeenAt = job[w].at
               /\ states'[k].ttl = Rule(w).ttl /\ states'[k].hold = Rule(w).hold
<1> DEFINE k == job[w].route.key
<1>t. TypeOK /\ HistoryInv /\ StackInv /\ now \in Nat
    BY DEF EngineInv, Inv, TypeOK
<1>1. /\ i \in Ids /\ i \in Ids' /\ ~Opened(i)
    BY InHandLast DEF Puts, Alters
<1>2. /\ events'[i].opened = now
      /\ events'[i].at = events[i].at /\ events'[i].after = events[i].after
      /\ events'[i].gen = events[i].gen /\ events'[i].route = events[i].route
      /\ events'[i].cleared = events[i].cleared
    BY DEF Puts, Kept, EventOf
<1>3. events[i].at = job[w].at /\ events[i].route = job[w].route
    BY <1>t DEF StackInv, Tracks, Puts, EventOf
<1>4. events[i].gen = job[w].gen
    BY <1>t, HandledEvent DEF InHand, Puts
<1>5. AlarmOf(i)' = Rule(w)
    BY <1>2, <1>3, <1>4 DEF AlarmOf, Rule
<1>6. Rule(w).ttl \in Int
  <2>1. /\ job[w].gen \in 1 .. Len(Configs)
        /\ job[w].route.alarm \in 1 .. Len(Configs[job[w].gen].alarms)
      BY <1>t, HandledEvent DEF JobOK, Puts, Generations
  <2> QED
      BY <2>1, ConfigsAssumption DEF Rule
<1>7. k \in DOMAIN states' /\ states'[k] = NewState(job[w], Rule(w).ttl, Rule(w).hold)
    BY PutLeaves DEF Puts
<1>8. /\ states'[k].first = i /\ states'[k].firstSeenAt = job[w].at
      /\ states'[k].ttl = Rule(w).ttl /\ states'[k].hold = Rule(w).hold
    BY <1>7 DEF NewState
<1>9. Opened(i)'
    BY <1>t, <1>2 DEF Opened
<1> QED
    BY <1>1, <1>2, <1>3, <1>5, <1>6, <1>7, <1>8, <1>9

\* The events decided when an event was taken do not change.
LEMMA AfterStays ==
    ASSUME EngineInv, [Next]_vars, NEW i \in Ids
    PROVE  i \in Ids' /\ events'[i].after = events[i].after
BY HistoryGrows DEF EngineInv, Inv, Grows, Kept

\* What ended a window stays in the history.
LEMMA EndsStay ==
    ASSUME EngineInv, [Next]_vars, NEW i \in Ids, Opened(i), NEW c \in Ids
    PROVE  /\ Removes(c, i) => Removes(c, i)'
           /\ Reopens(c, i) => Reopens(c, i)'
<1>1. events'[i].route = events[i].route
    BY OpenedStays
<1>2. Grows(events[c], events'[c])
    BY HistoryGrows DEF EngineInv, Inv
<1>3. Opened(c) => Opened(c)' /\ events'[c].route = events[c].route
    BY OpenedStays
<1> QED
    BY <1>1, <1>2, <1>3 DEF Removes, Reopens, SameKey, Grows

\* The call a worker is about to make: it was so before the step, or the worker came
\* back from Get or Touch in it.
LEMMA CallBy ==
    ASSUME EngineInv, [Next]_vars, NEW w \in Workers, job'[w].pc \in {"touch", "put"}
    PROVE  \/ job'[w] = job[w]
           \/ Busy(w) /\ Alters(w) /\ (Gets(w) \/ Misses(w))
<1>t. TypeOK /\ HistoryInv
    BY DEF EngineInv, Inv
<1>1. ASSUME NEW v \in Workers, Takes(v) PROVE job'[w] = job[w]
    BY <1>1 DEF Takes
<1>2. ASSUME NEW v \in Workers, Alters(v), v # w PROVE job'[w] = job[w]
    BY <1>2 DEF Alters
<1>3. ~Ends(w) /\ ~Loads(w) /\ ~Clears(w) /\ ~Counts(w) /\ ~Puts(w)
    BY DEF Ends, Loads, Clears, Counts, Puts, Idle
<1>4. CASE Waits
    BY <1>4 DEF Waits
<1> QED
    BY <1>t, <1>1, <1>2, <1>3, <1>4, NextIs

-----------------------------------------------------------------------------
\* The invariant of deduplication is inductive

\* An entry keeps the event it comes from, and a Clear removes it.
LEMMA EntryKept == ASSUME EngineInv, EntryInv, [Next]_vars PROVE EntryInv'
<1> SUFFICES ASSUME NEW k \in DOMAIN states', NEW i, i = states'[k].first
             PROVE  Origin(k, states[k])' /\ NotCleared(k, states[k])'
    BY DEF EntryInv
<1>1. CASE k \in DOMAIN states /\ SameWindow(states[k], states'[k])
  <2>1. Origin(k, states[k]) /\ NotCleared(k, states[k]) /\ i = states[k].first
      BY <1>1 DEF EntryInv, SameWindow
  <2>2. i \in Ids /\ Opened(i)
      BY <2>1 DEF Origin
  <2>3. Origin(k, states[k])'
      BY <1>1, <2>1, <2>2, OpenedStays DEF Origin, SameWindow, Opened
  <2>4. ASSUME NEW c \in Ids', k \in events'[c].cleared
        PROVE  i \notin events'[c].after
    <3>1. c \in Ids /\ k \in events[c].cleared
        BY <2>4, ClearedBy
    <3> QED
        BY <2>1, <3>1, AfterStays DEF NotCleared, Before
  <2> QED
      BY <2>3, <2>4 DEF NotCleared, Before
<1>2. ASSUME NEW w \in Workers, Busy(w), Alters(w), Puts(w), job[w].route.key = k
      PROVE  Origin(k, states[k])' /\ NotCleared(k, states[k])'
  <2>1. i = job[w].id
      BY <1>2, PutWrites
  <2>2. Origin(k, states[k])'
      BY <1>2, <2>1, PutWrites DEF Origin, Opened
  <2>3. ASSUME NEW c \in Ids', k \in events'[c].cleared
        PROVE  i \notin events'[c].after
    <3>1. c \in Ids
        BY <1>2 DEF Alters
    <3> QED
        BY <1>2, <2>1, <3>1, AfterStays, InHandLast DEF Before
  <2> QED
      BY <2>2, <2>3 DEF NotCleared, Before
<1> QED
    BY <1>1, <1>2, EntryStep

\* The window of an entry that Get does not find expired covers the event.
LEMMA FoundCovers ==
    ASSUME EngineInv, EntryInv, NEW k \in DOMAIN states, NEW t \in Int,
           NEW i, i = states[k].first
    PROVE  /\ i \in Ids /\ Opened(i) /\ events[i].route.key = k
           /\ Expired(states[k], t) <=> ~InWindow(i, t)
<1>1. Origin(k, states[k])
    BY DEF EntryInv
<1>2. /\ states[k].firstSeenAt = events[i].at
      /\ states[k].ttl = AlarmOf(i).ttl
      /\ states[k].hold = AlarmOf(i).hold
    BY <1>1 DEF Origin
<1>3. states[k].firstSeenAt \in Int /\ states[k].ttl \in Int
    BY DEF EngineInv, Inv, TypeOK, StoreTypeOK, DedupState
<1>4. Expired(states[k], t) <=> ~InWindow(i, t)
    BY <1>2, <1>3 DEF Expired, ExpiresAt, InWindow
<1> QED
    BY <1>1, <1>4 DEF Origin

\* A worker that found a window, or none, can rely on it.
LEMMA CallKept == ASSUME EngineInv, EntryInv, CallInv, [Next]_vars PROVE CallInv'
<1>1. ASSUME NEW w \in Workers, job'[w].pc = "touch" PROVE Covered(w)'
  <2>1. /\ \E i \in Ids : /\ Opened(i)
                          /\ events[i].route.key = job[w].route.key
                          /\ InWindow(i, job[w].at)
        /\ job'[w].route = job[w].route /\ job'[w].at = job[w].at
    <3>1. CASE job'[w] = job[w]
        BY <1>1, <3>1 DEF CallInv, Covered
    <3>2. CASE Busy(w) /\ Alters(w) /\ Gets(w)
      <4> DEFINE k == job[w].route.key
      <4>1. k \in DOMAIN states /\ ~Expired(states[k], job[w].at)
          BY <1>1, <3>2 DEF Gets, Found
      <4>2. job[w].at \in Int
          BY <3>2 DEF EngineInv, Inv, TypeOK, JobOK
      <4>3. job'[w].route = job[w].route /\ job'[w].at = job[w].at
          BY <1>1, <3>2 DEF Gets, Alters
      <4> QED
          BY <4>1, <4>2, <4>3, FoundCovers
    <3> QED
        BY <1>1, <3>1, <3>2, CallBy DEF Misses
  <2>2. PICK i \in Ids : /\ Opened(i)
                         /\ events[i].route.key = job[w].route.key
                         /\ InWindow(i, job[w].at)
      BY <2>1
  <2>3. /\ i \in Ids' /\ Opened(i)' /\ AlarmOf(i)' = AlarmOf(i)
        /\ events'[i].route = events[i].route /\ events'[i].at = events[i].at
      BY <2>2, OpenedStays
  <2>4. InWindow(i, job[w].at)'
      BY <2>1, <2>2, <2>3 DEF InWindow
  <2> QED
      BY <2>1, <2>2, <2>3, <2>4 DEF Covered
<1>2. ASSUME NEW w \in Workers, job'[w].pc = "put" PROVE Fresh(w)'
  <2> SUFFICES ASSUME NEW k, k = job'[w].route.key, k \in DOMAIN states'
               PROVE  states'[k].first \notin events'[job'[w].id].after
      BY DEF Fresh, Before
  <2>1. CASE job'[w] = job[w]
    <3>1. Busy(w) /\ job[w].id \in Ids
        BY <1>2, <2>1, InHandLast DEF Busy
    <3>2. CASE k \in DOMAIN states /\ SameWindow(states[k], states'[k])
      <4>1. states[k].first \notin events[job[w].id].after
          BY <1>2, <2>1, <3>2 DEF CallInv, Fresh, Before
      <4> QED
          BY <2>1, <3>1, <3>2, <4>1, AfterStays DEF SameWindow
    <3>3. ASSUME NEW v \in Workers, Busy(v), Alters(v), Puts(v), job[v].route.key = k
          PROVE  states'[k].first \notin events'[job'[w].id].after
      <4>1. states'[k].first = job[v].id
          BY <3>3, PutWrites
      <4> QED
          BY <2>1, <3>1, <3>3, <4>1, AfterStays, InHandLast DEF Before
    <3> QED
        BY <3>2, <3>3, EntryStep
  <2>2. CASE Gets(w)
      BY <1>2, <2>2 DEF Gets, Get, Found, Without
  <2>3. CASE Misses(w)
      BY <2>3 DEF Misses
  <2> QED
      BY <1>2, <2>1, <2>2, <2>3, CallBy
<1> QED
    BY <1>1, <1>2 DEF CallInv

\* A window stays in the table until it is over or another event ends it.
LEMMA OpenKept == ASSUME EngineInv, EntryInv, OpenInv, [Next]_vars PROVE OpenInv'
<1>t. now \in Nat /\ now' \in Nat /\ now <= now'
  <2>1. now \in Nat /\ TypeOK /\ HistoryInv
      BY DEF EngineInv, Inv, TypeOK
  <2> QED
      BY <2>1, NextIs DEF Takes, Alters, Waits
<1> SUFFICES ASSUME NEW i \in Ids', Opened(i)'
             PROVE  /\ AlarmOf(i)'.ttl \in Int
                    /\ \/ InTable(i)'
                       \/ ~InWindow(i, now)'
                       \/ \E c \in Ids' \ {i} : Ousts(c, i)'
    BY DEF OpenInv
<1>1. CASE i \in Ids /\ Opened(i)
  <2>1. /\ AlarmOf(i)' = AlarmOf(i) /\ AlarmOf(i).ttl \in Int
        /\ events'[i].at = events[i].at /\ events'[i].route = events[i].route
        /\ events'[i].after = events[i].after
        /\ events[i].at \in Int
      BY <1>1, OpenedStays, AfterStays DEF OpenInv, EngineInv, StackInv
  <2>2. ASSUME ~InWindow(i, now) PROVE ~InWindow(i, now)'
      BY <1>t, <2>1, <2>2 DEF InWindow
  <2>3. ASSUME NEW c \in Ids \ {i}, Ousts(c, i) PROVE c \in Ids' \ {i} /\ Ousts(c, i)'
      BY <1>1, <2>1, <2>3, EndsStay, AfterStays DEF Ousts, Before
  <2>4. ASSUME NEW w \in Workers, Busy(w), Alters(w), job[w].pc # "send",
               NEW c, c = job[w].id, Removes(c, i)' \/ Reopens(c, i)'
        PROVE  c \in Ids' \ {i} /\ Ousts(c, i)'
      BY <1>1, <2>1, <2>4, InHandLast, AfterStays DEF Ousts, Before
  <2>5. ASSUME InTable(i)
        PROVE  \/ InTable(i)'
               \/ ~InWindow(i, now)'
               \/ \E c \in Ids' \ {i} : Ousts(c, i)'
    <3> SUFFICES ASSUME NEW k, k = events[i].route.key
                 PROVE  \/ InTable(i)'
                        \/ ~InWindow(i, now)'
                        \/ \E c \in Ids' \ {i} : Ousts(c, i)'
        OBVIOUS
    <3>0. k \in DOMAIN states /\ states[k].first = i /\ events'[i].route.key = k
        BY <2>1, <2>5 DEF InTable
    <3>1. CASE k \in DOMAIN states'
      <4>1. CASE SameWindow(states[k], states'[k])
          BY <3>0, <3>1, <4>1 DEF InTable, SameWindow
      <4>2. ASSUME NEW w \in Workers, Busy(w), Alters(w), Puts(w),
                   job[w].route.key = k
            PROVE  \E c \in Ids' \ {i} : Ousts(c, i)'
        <5> SUFFICES ASSUME NEW c, c = job[w].id
                     PROVE  c \in Ids' \ {i} /\ Ousts(c, i)'
            OBVIOUS
        <5>1. Reopens(c, i)'
            BY <3>0, <4>2, PutWrites DEF Reopens, SameKey
        <5> QED
            BY <2>4, <4>2, <5>1 DEF Puts
      <4> QED
          BY <3>1, <4>1, <4>2, EntryStep
    <3>2. CASE k \notin DOMAIN states'
      <4>1. ASSUME NEW w \in Workers, Busy(w), Alters(w), Clears(w),
                   NextKey(job[w].todo) = k
            PROVE  \E c \in Ids' \ {i} : Ousts(c, i)'
        <5> SUFFICES ASSUME NEW c, c = job[w].id
                     PROVE  c \in Ids' \ {i} /\ Ousts(c, i)'
            OBVIOUS
        <5>1. Removes(c, i)'
            BY <3>0, <4>1 DEF Clears, Removes
        <5> QED
            BY <2>4, <4>1, <5>1 DEF Clears
      <4>2. ASSUME NEW w \in Workers, Busy(w), Alters(w), Puts(w)
            PROVE  \E c \in Ids' \ {i} : Ousts(c, i)'
        <5> SUFFICES ASSUME NEW c, c = job[w].id
                     PROVE  c \in Ids' \ {i} /\ Ousts(c, i)'
            OBVIOUS
        <5>1. Removes(c, i)'
            BY <3>0, <3>2, <4>2 DEF Puts, Removes
        <5> QED
            BY <2>4, <4>2, <5>1 DEF Puts
      <4>3. CASE Expired(states[k], now)
        <5>1. ~InWindow(i, now)
            BY <1>t, <3>0, <4>3, FoundCovers
        <5> QED
            BY <2>2, <5>1
      <4> QED
          BY <3>0, <3>2, <4>1, <4>2, <4>3, EntryGone
    <3> QED
        BY <3>1, <3>2
  <2> QED
      BY <1>1, <2>1, <2>2, <2>3, <2>5 DEF OpenInv
<1>2. ASSUME NEW w \in Workers, Busy(w), Alters(w), Puts(w), job[w].id = i
      PROVE  AlarmOf(i)'.ttl \in Int /\ InTable(i)'
    BY <1>2, PutWrites DEF InTable
<1> QED
    BY <1>1, <1>2, OpenedBy

\* Touch counts an event as a duplicate only of a window that covers it.
LEMMA DuplicateKept ==
    ASSUME EngineInv, CallInv, DuplicateOfOpened, [Next]_vars
    PROVE  DuplicateOfOpened'
<1> SUFFICES ASSUME NEW j \in Ids', events'[j].outcome = "duplicate"
             PROVE  \E i \in Ids' \ {j} : Opened(i)' /\ SameKey(i, j)'
                                          /\ InWindow(i, events[j].at)'
    BY DEF DuplicateOfOpened
<1>1. \E i \in Ids \ {j} : /\ Opened(i)
                           /\ events[i].route.key = events'[j].route.key
                           /\ InWindow(i, events'[j].at)
  <2>1. CASE /\ j \in Ids /\ events[j].outcome = "duplicate"
             /\ events'[j] = events[j]
      BY <2>1 DEF DuplicateOfOpened, SameKey
  <2>2. ASSUME NEW w \in Workers, Busy(w), Alters(w), Counts(w), job[w].id = j
        PROVE  \E i \in Ids \ {j} : /\ Opened(i)
                                    /\ events[i].route.key = events'[j].route.key
                                    /\ InWindow(i, events'[j].at)
    <3>1. events'[j].route = job[w].route /\ events'[j].at = job[w].at
      <4>1. Tracks(job[w], events[j], now)
          BY <2>2 DEF EngineInv, StackInv, EventOf
      <4> QED
          BY <2>2, <4>1 DEF Counts, Kept, EventOf, Tracks
    <3>2. Covered(w) /\ ~Opened(j)
        BY <2>2, InHandLast DEF Counts, CallInv
    <3> QED
        BY <3>1, <3>2 DEF Covered
  <2> QED
      BY <2>1, <2>2, DuplicateBy
<1>2. PICK i \in Ids \ {j} : /\ Opened(i)
                             /\ events[i].route.key = events'[j].route.key
                             /\ InWindow(i, events'[j].at)
    BY <1>1
<1>3. /\ i \in Ids' \ {j} /\ Opened(i)' /\ AlarmOf(i)' = AlarmOf(i)
      /\ events'[i].route = events[i].route /\ events'[i].at = events[i].at
    BY <1>2, OpenedStays
<1>4. InWindow(i, events[j].at)' /\ SameKey(i, j)'
    BY <1>2, <1>3 DEF InWindow, SameKey
<1> QED
    BY <1>3, <1>4

\* Touch counts no event in an entry that a clear handled in between has removed.
LEMMA ClearKept ==
    ASSUME EngineInv, EntryInv, ClearTakesEffect, [Next]_vars
    PROVE  ClearTakesEffect'
<1> SUFFICES ASSUME NEW j \in Ids', events'[j].outcome = "duplicate",
                    NEW c \in Ids', events'[j].route.key \in events'[c].cleared,
                    events'[j].first \in events'[c].after, c \in events'[j].after
             PROVE  FALSE
    BY DEF ClearTakesEffect, Before
<1>t. TypeOK /\ HistoryInv /\ StackInv
    BY DEF EngineInv, Inv
<1>1. CASE /\ j \in Ids /\ events[j].outcome = "duplicate"
           /\ events'[j] = events[j]
  <2>1. c \in Decided
      BY <1>t, <1>1 DEF StackInv
  <2>2. c \in Ids /\ events[c].outcome # "pending"
      BY <1>t, <2>1, DecidedIs
  <2>3. events'[c] = events[c]
      BY <1>t, <2>2, HistoryGrows DEF Grows
  <2> QED
      BY <1>1, <2>2, <2>3 DEF ClearTakesEffect, Before
<1>2. ASSUME NEW w \in Workers, Busy(w), Alters(w), Counts(w), job[w].id = j
      PROVE  FALSE
  <2> DEFINE k == job[w].route.key
  <2>1. /\ k \in DOMAIN states /\ DOMAIN states' = DOMAIN states
        /\ events'[j].first = states[k].first
      BY <1>2, <1>t, TouchKeepsWindow DEF Counts, TypeOK
  <2>2. events'[j].route = job[w].route
    <3>1. Tracks(job[w], events[j], now)
        BY <1>2, <1>t DEF StackInv, EventOf
    <3> QED
        BY <1>2, <3>1 DEF Counts, Kept, EventOf, Tracks
  <2>3. c \in Ids /\ k \in events[c].cleared
      BY <2>1, <2>2, ClearedBy
  <2>4. states[k].first \notin events[c].after
      BY <2>1, <2>3 DEF EntryInv, NotCleared, Before
  <2> QED
      BY <2>1, <2>3, <2>4, AfterStays
<1> QED
    BY <1>1, <1>2, DuplicateBy

\* Put opens a window inside another one only if the other was ended by an event
\* that was not decided before the other was taken.
LEMMA RacedKept ==
    ASSUME EngineInv, CallInv, OpenInv, SuppressedUnlessRaced, [Next]_vars
    PROVE  SuppressedUnlessRaced'
<1> DEFINE Excuse(c, i, j) ==
             /\ ~Before(c, i) /\ ~Before(j, c)
             /\ Removes(c, i) \/ (c # j /\ Reopens(c, i))
<1>t. TypeOK /\ HistoryInv /\ StackInv
    BY DEF EngineInv, Inv
<1> SUFFICES ASSUME NEW i \in Ids', NEW j \in Ids', Before(i, j)', Opened(i)',
                    Opened(j)', SameKey(i, j)'
             PROVE  \/ ~InWindow(i, events[j].opened)'
                    \/ \E c \in Ids' \ {i} : Excuse(c, i, j)'
    BY DEF SuppressedUnlessRaced, Removes, Reopens
<1>1. j \in Ids
    BY OpenedBy DEF Alters
<1>2. i \in events[j].after
    BY <1>1, AfterStays DEF Before
<1>3. i \in Ids /\ events[i].outcome # "pending"
  <2>1. i \in Decided
      BY <1>t, <1>1, <1>2 DEF StackInv
  <2> QED
      BY <1>t, <2>1, DecidedIs
<1>4. events'[i] = events[i] /\ Opened(i)
  <2>1. events'[i] = events[i]
      BY <1>t, <1>3, HistoryGrows DEF Grows
  <2> QED
      BY <2>1 DEF Opened
<1>5. AlarmOf(i)' = AlarmOf(i) /\ events'[i].at = events[i].at
    BY <1>4, <1>3, OpenedStays
<1>6. ASSUME NEW c \in Ids \ {i}, Excuse(c, i, j)
      PROVE  c \in Ids' \ {i} /\ Excuse(c, i, j)'
  <2>1. /\ Removes(c, i) => Removes(c, i)'
        /\ Reopens(c, i) => Reopens(c, i)'
      BY <1>3, <1>4, EndsStay
  <2>2. c \in Ids' /\ ~Before(c, i)' /\ ~Before(j, c)'
      BY <1>3, <1>6, AfterStays DEF Before
  <2> QED
      BY <1>6, <2>1, <2>2
<1>7. CASE Opened(j)
  <2>1. events'[j].opened = events[j].opened /\ events'[j].route = events[j].route
      BY <1>1, <1>7, OpenedStays
  <2>2. Before(i, j) /\ SameKey(i, j)
      BY <1>2, <1>4, <2>1 DEF Before, SameKey
  <2>3. \/ ~InWindow(i, events[j].opened)
        \/ \E c \in Ids \ {i} : Excuse(c, i, j)
      BY <1>1, <1>3, <1>4, <1>7, <2>2 DEF SuppressedUnlessRaced, Removes, Reopens
  <2>4. ASSUME ~InWindow(i, events[j].opened) PROVE ~InWindow(i, events[j].opened)'
      BY <1>5, <2>1, <2>4 DEF InWindow
  <2> HIDE DEF Excuse
  <2> QED
      BY <1>6, <2>3, <2>4
<1>8. ASSUME NEW w \in Workers, Busy(w), Alters(w), Puts(w), job[w].id = j
      PROVE  \/ ~InWindow(i, events[j].opened)'
             \/ \E c \in Ids' \ {i} : Excuse(c, i, j)'
  <2>1. /\ events'[j].opened = now /\ ~Opened(j)
        /\ events[i].route.key = job[w].route.key
      BY <1>4, <1>8, PutWrites DEF SameKey
  <2>2. ~InTable(i)
    <3>1. Fresh(w)
        BY <1>8 DEF CallInv, Puts
    <3> QED
        BY <1>2, <1>8, <2>1, <3>1 DEF Fresh, InTable, Before
  <2>3. ASSUME ~InWindow(i, now) PROVE ~InWindow(i, events[j].opened)'
      BY <1>5, <2>1, <2>3 DEF InWindow
  <2>4. ASSUME NEW c \in Ids \ {i}, Ousts(c, i) PROVE Excuse(c, i, j)
    <3>1. ~Before(j, c)
        BY <1>8, InHandLast
    <3>2. Reopens(c, i) => c # j
        BY <2>1 DEF Reopens
    <3> QED
        BY <2>4, <3>1, <3>2 DEF Ousts
  <2> HIDE DEF Excuse
  <2> QED
      BY <1>3, <1>4, <1>6, <2>2, <2>3, <2>4 DEF OpenInv
<1> QED
    BY <1>7, <1>8, OpenedBy

\* The invariant of deduplication holds at the start.
LEMMA DedupInit == Init => DedupInv
<1> SUFFICES ASSUME Init PROVE DedupInv
    OBVIOUS
<1>1. DOMAIN states = {} /\ Ids = {} /\ \A w \in Workers : job[w].pc = "idle"
    BY DEF Init, StoreInit, Ids, Idle
<1> QED
    BY <1>1 DEF DedupInv, EntryInv, CallInv, OpenInv, DuplicateOfOpened,
                ClearTakesEffect, SuppressedUnlessRaced

\* The invariant of deduplication is inductive.
LEMMA DedupStep == EngineInv /\ DedupInv /\ [Next]_vars => DedupInv'
BY EntryKept, CallKept, OpenKept, DuplicateKept, ClearKept, RacedKept DEF DedupInv

\* The invariant of deduplication holds in every state.
LEMMA DedupCorrect == Spec => [](EngineInv /\ DedupInv)
BY EngineInit, EngineStep, DedupInit, DedupStep, PTL DEF Spec

\* With any number of workers, a trap is suppressed only if another trap with its
\* key opened a window that covers it: Touch counts into whatever entry it meets,
\* and the entry Get found has not lost its place in the history.
THEOREM DuplicatesAreRepetitions == Spec => []DuplicateOfOpened
BY DedupCorrect, PTL DEF DedupInv

\* With any number of workers, a trap taken after a clear was handled is not
\* suppressed on account of one that was decided before the clear was taken.
THEOREM ClearsTakeEffect == Spec => []ClearTakesEffect
BY DedupCorrect, PTL DEF DedupInv

\* With any number of workers, a trap gets through inside the window of one that was
\* decided before it was taken only if a trap handled between the two or beside one
\* of them cleared or evicted the key or raced to open the window.
THEOREM ThroughOnlyByRace == Spec => []SuppressedUnlessRaced
BY DedupCorrect, PTL DEF DedupInv
=============================================================================
