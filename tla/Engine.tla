-------------------------------- MODULE Engine --------------------------------
(***************************************************************************)
(* internal/engine: the workers of the server push events through filters, *)
(* clear rules, deduplication and forwarding while the reader's ticker     *)
(* cleans the store up and the main goroutine swaps the configuration.     *)
(*                                                                         *)
(* HandleEvent takes no lock.  It loads the runtime state once and then    *)
(* makes a sequence of calls: one Clear per clear rule that applies, then  *)
(* Get, Touch, Put and Send.  Each call is one step here, so the steps of  *)
(* other workers, of Cleanup and of a reload fall between any two of them. *)
(* What is computed from the event and the loaded configuration alone      *)
(* (module TrapRules) is part of the step that loads them.  An alerts line *)
(* is written in the step of the call it follows: the only other step that *)
(* it could be exchanged with is the closing of the alerts file, which     *)
(* neither the store nor the forwarder depends on and which a reload does  *)
(* before it closes the forwarder.                                         *)
(***************************************************************************)
EXTENDS DedupStore, TrapRules

CONSTANTS Workers,   \* server.worker_count goroutines
          Packets,   \* the datagrams that may arrive
          Configs,   \* the configurations, in the order they are loaded
          Faulty,    \* the targets to which a write may fail
          MaxEvents, \* bound: datagrams taken from the queue
          MaxTime    \* bound: the clock stops here

ASSUME MaxEventsAssumption == MaxEvents \in Nat

\* config.validate gives every alarm a TTL; nothing bounds its sign.
ASSUME ConfigsAssumption ==
    /\ Len(Configs) \in Nat \ {0}
    /\ \A g \in 1 .. Len(Configs) :
          /\ Configs[g].alerts \in BOOLEAN
          /\ Len(Configs[g].alarms) \in Nat
          /\ \A i \in 1 .. Len(Configs[g].alarms) :
                /\ Configs[g].alarms[i].ttl \in Int
                /\ Configs[g].alarms[i].hold \in BOOLEAN

VARIABLES now,       \* the wall clock, in seconds
          current,   \* e.state: the index in Configs of the runtime state
          closed,    \* per resource, the latest runtime state that lost it
          job,       \* per worker, the event it is handling
          events     \* history: what became of every datagram, in order

vars == <<states, now, current, closed, job, events>>

Generations == 1 .. Len(Configs)

NoRoute == [to |-> "none", alarm |-> 0, key |-> NoKey]

\* A worker's stack: pc is the next call of processPacket it makes, todo the
\* Clear calls left in applyAlarmClearRules, logged the event's AlertsLogged.
Idle == [pc |-> "idle", id |-> 0, at |-> 0, event |-> <<>>, gen |-> 0,
         route |-> NoRoute, todo |-> <<>>, logged |-> FALSE]

\* The history starts with the events already decided when this one is taken:
\* two events of which neither has the other in it were handled at the same time.
Decided == {i \in DOMAIN events : events[i].outcome # "pending"}

Arrived == [at |-> now, after |-> Decided, outcome |-> "pending", gen |-> 0,
            route |-> NoRoute, opened |-> -1, first |-> 0, cleared |-> {},
            evicted |-> {}, missed |-> {}, alerts |-> 0]

Init == /\ StoreInit
        /\ now = 0
        /\ current = 1
        /\ closed = [alerts |-> 0, forwarder |-> 0]
        /\ job = [w \in Workers |-> Idle]
        /\ events = <<>>

-----------------------------------------------------------------------------
\* What the rules make of every event under every configuration: the verdict of
\* the filters, the Clear calls applyAlarmClearRules makes, and the way of the
\* event after them.
Events == {packetToEvent(p, Configs[g].aliases) :
              p \in Packets, g \in Generations}

Handling == [g \in Generations |-> [event \in Events |->
               [filter |-> evaluateFilters(Configs[g], event),
                clears |-> ClearedKeys(Configs[g], event),
                route  |-> Route(Configs[g], event)]]]

\* Where a worker goes once todo is empty.
AfterClears(route) == CASE route.to = "dedup" -> "get"
                        [] route.to = "error" -> "fail"
                        [] OTHER              -> "send"

\* The loop of applyAlarmClearRules takes the alarms in their order: the key of its
\* next Clear, and the calls after that one.
NextKey(todo) == todo[Min(DOMAIN todo)]
Rest(todo)    == Restrict(todo, DOMAIN todo \ {Min(DOMAIN todo)})

\* Mutant of NextCall: every event goes on to the dedup store.
NextCallGet(todo, route) == IF DOMAIN todo # {} THEN "clear" ELSE "get"

NextCall(todo, route) == IF DOMAIN todo # {} THEN "clear" ELSE AfterClears(route)

\* processPacket returns: the worker is back in its loop.
Finish(w, outcome) ==
    /\ job' = [job EXCEPT ![w] = Idle]
    /\ events' = [events EXCEPT ![job[w].id].outcome = outcome]

\* Mutant of WritesAlert: AlertsLogged is not looked at.
WritesEveryAlert(w) == Configs[job[w].gen].alerts

\* Does the alerts block run for w's event, and does its line reach the file?
WritesAlert(w)  == Configs[job[w].gen].alerts /\ ~job[w].logged
AlertWritten(w) == IF WritesAlert(w) /\ job[w].gen > closed.alerts THEN 1 ELSE 0

-----------------------------------------------------------------------------
\* Engine.Parse, with the decoder of the current runtime state.  ReceivedAt is
\* the time of decoding.
ParsePacket(w, p) ==
    /\ job[w].pc = "idle"
    /\ Len(events) < MaxEvents
    /\ IF p.valid
       THEN /\ events' = Append(events, Arrived)
            /\ job' = [job EXCEPT ![w] =
                 [Idle EXCEPT !.pc = "handle", !.at = now,
                    !.id = Len(events) + 1,
                    !.event = packetToEvent(p, Configs[current].aliases)]]
       ELSE /\ events' = Append(events,
                           [Arrived EXCEPT !.outcome = "parse_failed"])
            /\ UNCHANGED job
    /\ UNCHANGED <<states, now, current, closed>>

Parse(w) == \E p \in Packets : ParsePacket(w, p)

\* Mutant of Ruling: the rules are those the engine was built with.
RulingAtStart(event) == Handling[1][event]

\* What the rules of the runtime state in force make of an event.
Ruling(event) == Handling[current][event]

\* HandleEvent up to its first call: load the runtime state, apply the filters,
\* and find out what the clear and alarm rules ask for.
HandleEvent(w) ==
    /\ job[w].pc = "handle"
    /\ LET h == Ruling(job[w].event)
       IN  \/ h.filter = "error" /\ Finish(w, "handle_failed")
           \/ h.filter = "drop"  /\ Finish(w, "filtered")
           \/ /\ h.filter = "keep"
              /\ job' = [job EXCEPT ![w].pc = NextCall(h.clears, h.route),
                                    ![w].gen = current,
                                    ![w].route = h.route,
                                    ![w].todo = h.clears]
              /\ events' = [events EXCEPT ![job[w].id].gen = current,
                                          ![job[w].id].route = h.route]
    /\ UNCHANGED <<states, now, current, closed>>

\* One call of Clear in applyAlarmClearRules, and the alerts line after it.
ApplyAlarmClearRule(w) ==
    LET j == job[w]
    IN  /\ j.pc = "clear"
        /\ Clear(NextKey(j.todo))
        /\ job' = [job EXCEPT ![w].todo = Rest(j.todo),
                              ![w].pc = NextCall(Rest(j.todo), j.route),
                              ![w].logged = @ \/ WritesAlert(w)]
        /\ events' = [events EXCEPT ![j.id].cleared = @ \cup {NextKey(j.todo)},
                                    ![j.id].alerts = @ + AlertWritten(w)]
        /\ UNCHANGED <<now, current, closed>>

\* matchAlarm met an alarm rule it cannot evaluate.
FailMatch(w) ==
    /\ job[w].pc = "fail"
    /\ Finish(w, "handle_failed")
    /\ UNCHANGED <<states, now, current, closed>>

DedupGet(w) ==
    LET key == job[w].route.key
    IN  /\ job[w].pc = "get"
        /\ Get(key, job[w].at)
        /\ job' = [job EXCEPT ![w].pc =
                      IF Found(key, job[w].at) THEN "touch" ELSE "put"]
        /\ UNCHANGED <<now, current, closed, events>>

\* Mutant of DedupTouch: the caller waits for the entry to come back.
TouchWaits(w) ==
    /\ job[w].pc = "touch"
    /\ job[w].route.key \in DOMAIN states
    /\ Touch(job[w].route.key, job[w])
    /\ Finish(w, "duplicate")
    /\ UNCHANGED <<now, current, closed>>

\* The entry may be gone since Get ("a concurrent clear removed the dedup
\* state"): the event is then handled as a fresh alarm.
DedupTouch(w) ==
    LET j == job[w]
    IN  /\ j.pc = "touch"
        /\ Touch(j.route.key, j)
        /\ \/ /\ j.route.key \in DOMAIN states
              /\ job' = [job EXCEPT ![w] = Idle]
              /\ events' = [events EXCEPT
                    ![j.id].outcome = "duplicate",
                    ![j.id].first = states[j.route.key].first]
           \/ /\ j.route.key \notin DOMAIN states
              /\ job' = [job EXCEPT ![w].pc = "put"]
              /\ UNCHANGED events
        /\ UNCHANGED <<now, current, closed>>

DedupPut(w) ==
    LET j     == job[w]
        alarm == Configs[j.gen].alarms[j.route.alarm]
    IN  /\ j.pc = "put"
        /\ Put(j.route.key, j, alarm.ttl, alarm.hold)
        /\ job' = [job EXCEPT ![w].pc = "send"]
        /\ events' = [events EXCEPT
              ![j.id].opened = now,
              ![j.id].evicted = DOMAIN states \ DOMAIN states']
        /\ UNCHANGED <<now, current, closed>>

Forwarded(route) == CASE route.to = "pass"  -> "pass-through"
                      [] route.to = "nokey" -> "dedup_disabled"
                      [] OTHER              -> "alarm"

\* Send returns an error if one write failed.
SendFails(missed) == missed # {}

\* UDPForwarder.Send tries every target, on the sockets of the runtime state the
\* event was loaded with.  A closed forwarder reaches no target; one that is being
\* closed, which happens after the alerts file was, reaches some of them.  The
\* alerts line follows a send that succeeded.
Send(w) ==
    LET j       == job[w]
        targets == Configs[j.gen].targets
    IN  /\ j.pc = "send"
        /\ \E missed \in SUBSET targets :
              /\ IF j.gen <= closed.forwarder THEN missed = targets
                 ELSE missed \subseteq Faulty \/ j.gen <= closed.alerts
              /\ job' = [job EXCEPT ![w] = Idle]
              /\ events' = [events EXCEPT
                    ![j.id].missed = missed,
                    ![j.id].outcome = IF SendFails(missed)
                                      THEN "forward_failed"
                                      ELSE Forwarded(j.route),
                    ![j.id].alerts = @ + IF SendFails(missed) THEN 0
                                         ELSE AlertWritten(w)]
        /\ UNCHANGED <<states, now, current, closed>>

\* The steps in which w handles the event it took.
Work(w) == \/ HandleEvent(w)
           \/ ApplyAlarmClearRule(w)
           \/ FailMatch(w)
           \/ DedupGet(w)
           \/ DedupTouch(w)
           \/ DedupPut(w)
           \/ Send(w)

-----------------------------------------------------------------------------
\* Engine.Cleanup, called by the reader with the time of a tick, which may have
\* waited in the ticker's channel while the reader was busy.
CleanupTick ==
    /\ \E t \in {now - 1, now} : Cleanup(t)
    /\ UNCHANGED <<now, current, closed, job, events>>

\* Engine.Reload.  The main goroutine does not start a reload before it closed
\* what the previous one replaced.
Reload ==
    /\ current < Len(Configs)
    /\ closed.forwarder = current - 1
    /\ current' = current + 1
    /\ UNCHANGED <<states, now, closed, job, events>>

\* Mutant of CloseOldAlerts: it closes the alerts file that was just put in.
CloseNewAlerts ==
    /\ closed.alerts < current - 1
    /\ closed' = [closed EXCEPT !.alerts = current]
    /\ UNCHANGED <<states, now, current, job, events>>

\* After Reload the main goroutine closes the old alerts file, then the old
\* forwarder, without waiting for the workers that still use them.
CloseOldAlerts ==
    /\ closed.alerts < current - 1
    /\ closed' = [closed EXCEPT !.alerts = current - 1]
    /\ UNCHANGED <<states, now, current, job, events>>

\* Mutant of CloseOldForwarder: it closes the forwarder that was just put in.
CloseNewForwarder ==
    /\ closed.forwarder < closed.alerts
    /\ closed' = [closed EXCEPT !.forwarder = current]
    /\ UNCHANGED <<states, now, current, job, events>>

CloseOldForwarder ==
    /\ closed.forwarder < closed.alerts
    /\ closed' = [closed EXCEPT !.forwarder = closed.alerts]
    /\ UNCHANGED <<states, now, current, job, events>>

Tick ==
    /\ now < MaxTime
    /\ now' = now + 1
    /\ UNCHANGED <<states, current, closed, job, events>>

Next == \/ \E w \in Workers : Parse(w) \/ Work(w)
        \/ CleanupTick
        \/ Reload
        \/ CloseOldAlerts
        \/ CloseOldForwarder
        \/ Tick

\* The Go scheduler runs every goroutine that can run: a worker that took an
\* event, and the main goroutine in the middle of a reload.
Fairness == /\ \A w \in Workers : WF_vars(Work(w))
            /\ WF_vars(CloseOldAlerts)
            /\ WF_vars(CloseOldForwarder)

Spec == Init /\ [][Next]_vars

FairSpec == Spec /\ Fairness

-----------------------------------------------------------------------------
\* Properties

PCs == {"idle", "handle", "clear", "fail", "get", "touch", "put", "send"}

Outcomes == {"pending", "parse_failed", "handle_failed", "filtered",
             "duplicate", "alarm", "pass-through", "dedup_disabled",
             "forward_failed"}

Ids == 1 .. Len(events)

JobOK(j, ids) ==
    /\ DOMAIN j = DOMAIN Idle
    /\ j.pc \in PCs
    /\ j.at \in Nat
    /\ j.pc # "idle" => j.id \in ids
    /\ j.pc = "handle" => j.event \in Events
    /\ j.pc \notin {"idle", "handle"} =>
          /\ j.gen \in Generations
          /\ j.route.to = "dedup" =>
                j.route.alarm \in 1 .. Len(Configs[j.gen].alarms)
    /\ j.pc \in {"get", "touch", "put"} => j.route.to = "dedup"

EventFields == {"at", "after", "outcome", "gen", "route", "opened", "first", "cleared",
                "evicted", "missed", "alerts"}

EventOK(e) ==
    DOMAIN e = EventFields /\ e.outcome \in Outcomes /\ e.gen \in Nat

\* Type invariant.  A worker in the middle of an event is handling one that
\* arrived, and the alarm rule it was given is one of the configuration it loaded.
TypeOK ==
    /\ StoreTypeOK
    /\ now \in Nat
    /\ current \in Generations
    /\ closed \in [alerts : Nat, forwarder : Nat]
    /\ DOMAIN job = Workers
    /\ \A w \in Workers : JobOK(job[w], Ids)
    /\ events \in Seq(Range(events))
    /\ \A i \in Ids : EventOK(events[i])

AlarmOf(i) == Configs[events[i].gen].alarms[events[i].route.alarm]

\* Is t inside the window that event i opened?
InWindow(i, t) == AlarmOf(i).hold \/ t < events[i].at + AlarmOf(i).ttl

Opened(i) == events[i].opened # -1

SameKey(i, j) == events[i].route.key = events[j].route.key

\* Some event after i and before j evicted the key of i, or called Clear for it.  The
\* last event that may have cleared it is j: a trap that meets a clear rule of an
\* alarm and then the alarm itself clears its own key before it opens a window.
ClearedBetween(i, j) ==
    \E c \in i + 1 .. j : events[i].route.key \in events[c].cleared
EvictedBetween(i, j) ==
    \E c \in i + 1 .. j - 1 : events[i].route.key \in events[c].evicted

\* docs/configuration.md: "If the key already exists inside the TTL window, the
\* trap is suppressed."  An event opens a window only if no earlier event has
\* one open for its key at that time, unless a clear or an eviction came between.
SuppressedInsideWindow ==
    \A i, j \in Ids :
        (i < j /\ Opened(i) /\ Opened(j) /\ SameKey(i, j)) =>
            \/ ~InWindow(i, events[j].opened)
            \/ ClearedBetween(i, j)
            \/ EvictedBetween(i, j)

\* docs/configuration.md: "the state is removed and the next alarm is forwarded
\* again".  A trap is suppressed only on account of an earlier trap with its key
\* whose window it falls into, with no clear for that key after that trap.
SuppressionJustified ==
    \A j \in Ids : events[j].outcome = "duplicate" =>
        LET i == events[j].first
        IN  /\ i < j
            /\ SameKey(i, j)
            /\ InWindow(i, events[j].at)
            /\ ~ClearedBetween(i, j)

\* What is left of it when workers overtake each other: a trap is suppressed only
\* if some other trap with its key opened a window that covers it.  (The entry
\* Touch counts it in may be a third one, put between Get and Touch.)
DuplicateOfOpened ==
    \A j \in Ids : events[j].outcome = "duplicate" =>
        \E i \in Ids \ {j} : Opened(i) /\ SameKey(i, j)
                             /\ InWindow(i, events[j].at)

\* The event i was decided before j was taken.
Before(i, j) == i \in events[j].after

\* docs/configuration.md: "the state is removed and the next alarm is forwarded
\* again", for any number of workers.  Once a clear was handled, no trap taken
\* after it is suppressed on account of one that was decided before the clear
\* was taken, however the workers overtook each other.
ClearTakesEffect ==
    \A j \in Ids : events[j].outcome = "duplicate" =>
        LET i == events[j].first
        IN  ~\E c \in Ids : /\ events[j].route.key \in events[c].cleared
                            /\ Before(i, c) /\ Before(c, j)

\* What workers may cost.  A trap taken after another with its key was decided is
\* still suppressed inside that one's window, unless a trap that was handled
\* between the two or beside one of them cleared the key, evicted it, or raced
\* the first to open the window: the check-then-act of Get and Put lets through
\* only traps that were in the hands of two workers at the same time.
SuppressedUnlessRaced ==
    \A i, j \in Ids :
        (Before(i, j) /\ Opened(i) /\ Opened(j) /\ SameKey(i, j)) =>
            \/ ~InWindow(i, events[j].opened)
            \/ \E c \in Ids \ {i} :
                  /\ ~Before(c, i) /\ ~Before(j, c)
                  /\ \/ events[i].route.key \in
                           events[c].cleared \cup events[c].evicted
                     \/ c # j /\ Opened(c) /\ SameKey(c, i)

\* README: "First alarm instance is forwarded. Repeated traps inside the TTL
\* window are suppressed".  The trap a suppressed one repeats was forwarded.
SuppressedAfterDelivery ==
    \A j \in Ids : events[j].outcome = "duplicate" =>
        events[events[j].first].outcome = "alarm"

\* The outcomes of a trap that every target of its configuration got.
Delivered == {"alarm", "pass-through", "dedup_disabled"}

\* The code writes an alerts line for a trap that was forwarded, and for one that a
\* clear rule took, before it is forwarded and whether or not it then is.
AlertDue(e) ==
    e.gen # 0 /\ Configs[e.gen].alerts /\ (e.cleared # {} \/ e.outcome \in Delivered)

\* What the alerts file can be trusted for, with reloads closing it under the
\* workers.  It has a line for a trap only if the trap was forwarded or a clear
\* rule took it (engine.go:382 writes that line before Send, so model.LoggingConfig's
\* "only forwarded alerts" is not true of those), and no forwarded trap lacks its
\* line unless a reload replaced the runtime state the trap was loaded with.
AlertsComplete ==
    \A i \in Ids :
        /\ events[i].alerts > 0 => AlertDue(events[i])
        /\ AlertDue(events[i]) => events[i].alerts > 0 \/ events[i].gen < current

\* TrapEvent.AlertsLogged: "to avoid duplicate entries".  However many clear
\* rules a trap meets, the alerts file has at most one line for it.
AlertedOnce == \A i \in Ids : events[i].alerts <= 1

\* A trap is lost in forwarding only to a target that fails or to a reload that
\* replaced the runtime state it was loaded with: a reload never takes the
\* forwarder of the runtime state in force.
LostOnlyToFaultOrReload ==
    \A i \in Ids : events[i].outcome = "forward_failed" =>
        \/ events[i].missed \subseteq Faulty
        \/ events[i].gen < current

\* What may become of an event that goes the way of route.
Results(route) ==
    CASE route.to = "dedup" -> {"alarm", "duplicate", "forward_failed"}
      [] route.to = "pass"  -> {"pass-through", "forward_failed"}
      [] route.to = "nokey" -> {"dedup_disabled", "forward_failed"}
      [] OTHER              -> {"handle_failed"}

\* One configuration decides on a trap.  Whatever reloads fall between the calls of
\* HandleEvent, the trap goes the way that the rules of the runtime state it was
\* loaded with give some event, Clear is called for keys that the same rules clear
\* for that event, and for all of them once the trap is decided.
HandledAsLoaded ==
    \A i \in Ids : events[i].gen # 0 =>
        \E event \in Events :
            LET h == Handling[events[i].gen][event]
            IN  /\ h.filter = "keep"
                /\ events[i].route = h.route
                /\ events[i].cleared \subseteq Range(h.clears)
                /\ events[i].outcome # "pending" =>
                      /\ events[i].outcome \in Results(h.route)
                      /\ events[i].cleared = Range(h.clears)

\* An entry of the table is never replaced by one with another first event: a
\* window is left by expiry, clear or eviction, never restarted.
FirstTrapStable ==
    [][\A k \in DOMAIN states \cap DOMAIN states' :
          states'[k].first = states[k].first]_vars

\* A worker is about to call Clear, or Put, for the key k.
Clearing(k) == \E w \in Workers : job[w].pc = "clear" /\ NextKey(job[w].todo) = k
Putting(k)  == \E w \in Workers : job[w].pc = "put" /\ job[w].route.key = k

\* docs/configuration.md: "the dedup state never expires on its own and is removed
\* only by the alarm's clear trap".  An entry leaves the table because a clear
\* named its key, because its window is over and it is not held, or because it is
\* one of the least recently seen of a full table that a new entry goes into.
\* Neither a reload nor a lagging Get or Cleanup takes one inside its window.
RemovalJustified ==
    [][\A k \in DOMAIN states \ DOMAIN states' :
          \/ Clearing(k)
          \/ ~states[k].hold /\ ExpiresAt(states[k]) <= now
          \/ /\ Cardinality(DOMAIN states) = Limit
             /\ \E x \in DOMAIN states' : Putting(x)
             /\ \A x \in DOMAIN states :
                   states[k].lastSeenAt <= states[x].lastSeenAt]_vars

\* A repetition never moves the end of a window and is never forgotten: as long as
\* no worker that found no entry puts one, the first event, the start, the length
\* and the hold of an entry stay, and its count does not go down.
WindowFixed ==
    [][\A k \in DOMAIN states \cap DOMAIN states' :
          \/ Putting(k) /\ states'[k].suppressed = 0
          \/ /\ states'[k].first = states[k].first
             /\ ExpiresAt(states'[k]) = ExpiresAt(states[k])
             /\ states'[k].hold = states[k].hold
             /\ states'[k].suppressed >= states[k].suppressed]_vars

\* Every datagram a worker takes is decided and the worker returns to its loop:
\* no path through HandleEvent, with its re-check after Touch, lets one hang.
EveryEventDecided ==
    \A w \in Workers : job[w].pc # "idle" ~> job[w].pc = "idle"
=============================================================================
