-------------------------- MODULE EngineHistoryProofs --------------------------
(***************************************************************************)
(* What the history says of every datagram, for every number of workers,   *)
(* any traffic and any number of reloads: it has at most one line in the   *)
(* alerts file, has it if it was forwarded, unless a reload replaced what  *)
(* it was loaded with, and only if it was forwarded or a clear rule took   *)
(* it; only a faulty target or a reload makes it fail; and it is handled   *)
(* by one configuration from its filters to its last Clear.                *)
(*                                                                         *)
(* None of these is inductive.  What they need besides is that two workers *)
(* never handle the same event, that the history of an event in the hands  *)
(* of a worker agrees with the worker's stack, and that a reload closes    *)
(* only what the runtime states before the current one own.                *)
(***************************************************************************)
EXTENDS EngineProofs

Busy(w) == job[w].pc # "idle"

\* processPacket is called by the worker that received the packet, and only by it.
OneWorkerPerEvent ==
    \A v, w \in Workers : Busy(v) /\ Busy(w) /\ v # w => job[v].id # job[w].id

\* The history e of the event that a worker's stack j is about.
InHand(j, e) ==
    /\ j.logged \in BOOLEAN
    /\ e.outcome = "pending"
    /\ e.alerts \in {0, 1}
    /\ ~j.logged => e.alerts = 0
    /\ e.cleared = {} => ~j.logged
    /\ j.pc = "handle" => e.cleared = {}
    /\ j.pc # "handle" => /\ e.gen = j.gen
                          /\ e.cleared # {} => j.logged = Configs[j.gen].alerts

\* The history of any event, with runtime state cur in force.
Settled(e, cur) ==
    /\ e.alerts \in {0, 1}
    /\ e.outcome = "forward_failed" => e.missed \subseteq Faulty \/ e.gen < cur
    /\ e.alerts > 0 => AlertDue(e)
    /\ AlertDue(e) => e.alerts > 0 \/ e.gen < cur

\* A reload closes what it replaced, never what is in force.
ClosedBehind == closed.alerts < current /\ closed.forwarder < current

\* The inductive invariant.
HistoryInv ==
    /\ OneWorkerPerEvent
    /\ \A w \in Workers : Busy(w) => InHand(job[w], events[job[w].id])
    /\ \A i \in Ids : Settled(events[i], current)
    /\ ClosedBehind
-----------------------------------------------------------------------------

\* The event in the hands of a worker is one that arrived, and its history is
\* what HistoryInv says.
LEMMA HandledEvent ==
    ASSUME TypeOK, HistoryInv, NEW w \in Workers, Busy(w)
    PROVE  /\ job[w].id \in Ids
           /\ JobOK(job[w], Ids)
           /\ EventOK(events[job[w].id])
           /\ InHand(job[w], events[job[w].id])
           /\ Settled(events[job[w].id], current)
BY DEF TypeOK, JobOK, Busy, HistoryInv

\* Updating one event leaves the others, and their number, alone.
LEMMA EventsAfter ==
    ASSUME TypeOK, NEW i \in Ids, NEW e, events' = [events EXCEPT ![i] = e]
    PROVE  /\ Ids' = Ids
           /\ events'[i] = e
           /\ \A k \in Ids : k # i => events'[k] = events[k]
<1>1. events \in Seq(Range(events)) /\ i \in 1 .. Len(events)
    BY DEF TypeOK, Ids
<1> DEFINE t == [events EXCEPT ![i] = e]
<1>2. Len(t) = Len(events)
    BY <1>1, ExceptSeqRange
<1>3. t[i] = e
    BY <1>1, ExceptSeqRange
<1>4. \A k \in 1 .. Len(events) : k # i => t[k] = events[k]
    BY <1>1, ExceptSeqRange
<1> HIDE DEF t
<1>5. events' = t
    BY DEF t
<1> QED
    BY <1>2, <1>3, <1>4, <1>5 DEF Ids

\* A worker that takes one step with its event keeps HistoryInv if the history of
\* that event stays as it has to be: no other worker has the event.
LEMMA HistoryStep ==
    ASSUME TypeOK, HistoryInv, NEW w \in Workers, Busy(w),
           NEW j, job' = [job EXCEPT ![w] = j],
           NEW e,
           \/ events' = [events EXCEPT ![job[w].id] = e]
           \/ UNCHANGED events /\ e = events[job[w].id],
           j.pc # "idle" => j.id = job[w].id /\ InHand(j, e),
           Settled(e, current), UNCHANGED <<current, closed>>
    PROVE  HistoryInv'
<1>0. /\ Ids' = Ids
      /\ events'[job[w].id] = e
      /\ \A k \in Ids : k # job[w].id => events'[k] = events[k]
  <2>1. job[w].id \in Ids
      BY HandledEvent
  <2>2. CASE events' = [events EXCEPT ![job[w].id] = e]
      BY <2>1, <2>2, EventsAfter
  <2>3. CASE UNCHANGED events /\ e = events[job[w].id]
      BY <2>3 DEF Ids
  <2> QED
      BY <2>2, <2>3
<1>1. /\ job'[w] = j
      /\ \A v \in Workers : v # w => job'[v] = job[v]
    BY DEF TypeOK
<1>2. \A v \in Workers : Busy(v) => job[v].id \in Ids
    BY HandledEvent
<1>3. OneWorkerPerEvent'
    BY <1>1 DEF HistoryInv, OneWorkerPerEvent, Busy
<1>4. ASSUME NEW v \in Workers, Busy(v)'
      PROVE  InHand(job'[v], events'[job'[v].id])
  <2>1. CASE v = w
      BY <1>0, <1>1, <1>4, <2>1 DEF Busy
  <2>2. CASE v # w
    <3>1. job'[v] = job[v] /\ Busy(v) /\ job[v].id \in Ids
        BY <1>1, <1>2, <1>4, <2>2 DEF Busy
    <3>2. job[v].id # job[w].id
        BY <2>2, <3>1 DEF HistoryInv, OneWorkerPerEvent
    <3>3. events'[job[v].id] = events[job[v].id]
        BY <1>0, <3>1, <3>2
    <3> QED
        BY <3>1, <3>3 DEF HistoryInv
  <2> QED
      BY <2>1, <2>2
<1>5. \A i \in Ids' : Settled(events'[i], current')
    BY <1>0 DEF HistoryInv
<1>6. ClosedBehind'
    BY DEF HistoryInv, ClosedBehind
<1> QED
    BY <1>3, <1>4, <1>5, <1>6 DEF HistoryInv

\* The initial states.
LEMMA HistoryInit == Init => HistoryInv
<1> SUFFICES ASSUME Init PROVE HistoryInv
    OBVIOUS
<1>1. \A w \in Workers : ~Busy(w)
    BY DEF Init, Busy, Idle
<1>2. Ids = {}
    BY DEF Init, Ids
<1>3. ClosedBehind
    BY DEF Init, ClosedBehind
<1> QED
    BY <1>1, <1>2, <1>3 DEF HistoryInv, OneWorkerPerEvent

\* An alerts line is written at most once, and never again once it is marked.
LEMMA AlertWrittenOnce ==
    ASSUME NEW w
    PROVE  AlertWritten(w) \in {0, 1} /\ (job[w].logged => AlertWritten(w) = 0)
BY DEF AlertWritten, WritesAlert

\* The line of a trap that has none yet reaches the alerts file, unless a reload
\* replaced the runtime state whose file it is.
LEMMA WrittenIfOpen ==
    ASSUME TypeOK, HistoryInv, NEW w, job[w].gen \in Generations,
           Configs[job[w].gen].alerts, ~job[w].logged
    PROVE  AlertWritten(w) = 1 \/ job[w].gen < current
<1>1. /\ closed.alerts \in Nat /\ closed.alerts < current
      /\ current \in Nat /\ job[w].gen \in Nat
    BY ConfigsAssumption DEF TypeOK, HistoryInv, ClosedBehind, Generations
<1>2. AlertWritten(w) = IF job[w].gen > closed.alerts THEN 1 ELSE 0
    BY DEF AlertWritten, WritesAlert
<1> QED
    BY <1>1, <1>2

\* A rejected or filtered event: Finish changes nothing but its outcome.
LEMMA HistoryFinish ==
    ASSUME TypeOK, HistoryInv, NEW w \in Workers, Busy(w),
           NEW outcome, outcome \notin {"forward_failed"} \cup Delivered,
           Finish(w, outcome),
           UNCHANGED <<current, closed>>
    PROVE  HistoryInv'
<1> DEFINE e == [events[job[w].id] EXCEPT !.outcome = outcome]
<1>1. /\ job' = [job EXCEPT ![w] = Idle]
      /\ events' = [events EXCEPT ![job[w].id] = e]
    BY DEF Finish
<1>2. Settled(e, current)
    BY HandledEvent DEF Settled, InHand, EventOK, EventFields, AlertDue
<1> HIDE DEF e
<1>4. Idle.pc = "idle"
    BY DEF Idle
<1> QED
    BY <1>1, <1>2, <1>4, HistoryStep

\* Every step keeps HistoryInv.
LEMMA HistoryNext == TypeOK /\ HistoryInv /\ [Next]_vars => HistoryInv'
<1> SUFFICES ASSUME TypeOK, HistoryInv, [Next]_vars PROVE HistoryInv'
    OBVIOUS
<1>1. ASSUME NEW w \in Workers, Parse(w) PROVE HistoryInv'
  <2>1. PICK p \in Packets :
          IF p.valid
          THEN /\ events' = Append(events, Arrived)
               /\ job' = [job EXCEPT ![w] =
                    [Idle EXCEPT !.pc = "handle", !.at = now,
                       !.id = Len(events) + 1,
                       !.event = packetToEvent(p, Configs[current].aliases)]]
          ELSE /\ events' = Append(events,
                              [Arrived EXCEPT !.outcome = "parse_failed"])
               /\ UNCHANGED job
      BY <1>1 DEF Parse, ParsePacket
  <2>2. /\ UNCHANGED <<current, closed>>
        /\ ~Busy(w)
      BY <1>1 DEF Parse, ParsePacket, Busy
  <2>3. PICK e : /\ events' = Append(events, e)
                 /\ e.alerts = 0 /\ e.gen = 0 /\ e.cleared = {}
                 /\ e.outcome \in {"pending", "parse_failed"}
                 /\ p.valid => e.outcome = "pending"
      BY <2>1 DEF Arrived
  <2>4. /\ Len(events) \in Nat /\ Len(events') = Len(events) + 1
        /\ \A i \in 1 .. Len(events) : events'[i] = events[i]
        /\ events'[Len(events) + 1] = e
      BY <2>3, AppendSeq DEF TypeOK
  <2>5. \A i \in Ids' : Settled(events'[i], current')
    <3>1. Settled(e, current)
        BY <2>3 DEF Settled, AlertDue
    <3> QED
        BY <2>2, <2>4, <3>1 DEF HistoryInv, Ids
  <2>6. \A v \in Workers : Busy(v) =>
           /\ job[v].id \in 1 .. Len(events)
           /\ InHand(job[v], events[job[v].id])
      BY HandledEvent DEF Ids
  <2>7. \A v \in Workers : Busy(v) =>
           /\ job[v].id # Len(events) + 1
           /\ InHand(job[v], events'[job[v].id])
      BY <2>4, <2>6
  <2>8. ClosedBehind'
      BY <2>2 DEF HistoryInv, ClosedBehind
  <2>9. CASE p.valid
    <3>1. /\ job'[w].pc = "handle" /\ job'[w].id = Len(events) + 1
          /\ job'[w].logged = FALSE
          /\ \A v \in Workers : v # w => job'[v] = job[v]
      <4>1. PICK event : job' = [job EXCEPT ![w] =
                [Idle EXCEPT !.pc = "handle", !.at = now,
                             !.id = Len(events) + 1, !.event = event]]
          BY <2>1, <2>9
      <4>2. DOMAIN job = Workers
          BY DEF TypeOK
      <4> QED
          BY <4>1, <4>2 DEF Idle
    <3>2. InHand(job'[w], events'[job'[w].id])
        BY <2>3, <2>4, <2>9, <3>1 DEF InHand
    <3>3. OneWorkerPerEvent'
        BY <2>7, <3>1 DEF HistoryInv, OneWorkerPerEvent, Busy
    <3>4. \A v \in Workers : Busy(v)' => InHand(job'[v], events'[job'[v].id])
        BY <2>7, <3>1, <3>2 DEF Busy
    <3> QED
        BY <2>5, <2>8, <3>3, <3>4 DEF HistoryInv
  <2>10. CASE ~p.valid
    <3>1. UNCHANGED job
        BY <2>1, <2>10
    <3>2. OneWorkerPerEvent' 
        BY <3>1 DEF HistoryInv, OneWorkerPerEvent, Busy
    <3>3. \A v \in Workers : Busy(v)' => InHand(job'[v], events'[job'[v].id])
        BY <2>7, <3>1 DEF Busy
    <3> QED
        BY <2>5, <2>8, <3>2, <3>3 DEF HistoryInv
  <2> QED
      BY <2>9, <2>10
<1>2. ASSUME NEW w \in Workers, HandleEvent(w) PROVE HistoryInv'
  <2> DEFINE h == Handling[current][job[w].event]
             j == [job[w] EXCEPT !.pc = NextCall(h.clears, h.route),
                                 !.gen = current, !.route = h.route,
                                 !.todo = h.clears]
             e == [events[job[w].id] EXCEPT !.gen = current, !.route = h.route]
  <2>1. /\ job[w].pc = "handle" /\ Busy(w) /\ UNCHANGED <<current, closed>>
        /\ \/ Finish(w, "handle_failed")
           \/ Finish(w, "filtered")
           \/ /\ job' = [job EXCEPT ![w] = j]
              /\ events' = [events EXCEPT ![job[w].id] = e]
      BY <1>2 DEF HandleEvent, Ruling, Busy
  <2>2. CASE Finish(w, "handle_failed") \/ Finish(w, "filtered")
      BY <2>1, <2>2, HistoryFinish DEF Delivered
  <2>3. CASE /\ job' = [job EXCEPT ![w] = j]
             /\ events' = [events EXCEPT ![job[w].id] = e]
    <3> HIDE DEF h
    <3>1. j.id = job[w].id /\ InHand(j, e)
        BY <2>1, HandledEvent DEF JobOK, Idle, EventOK, EventFields, InHand
    <3>2. Settled(e, current)
        BY <2>1, HandledEvent DEF EventOK, EventFields, InHand, Settled, AlertDue,
                                  Delivered
    <3> HIDE DEF j, e
    <3> QED
        BY <2>1, <2>3, <3>1, <3>2, HistoryStep
  <2> QED
      BY <2>1, <2>2, <2>3
<1>3. ASSUME NEW w \in Workers, ApplyAlarmClearRule(w) PROVE HistoryInv'
  <2> DEFINE todo == job[w].todo
             j == [job[w] EXCEPT !.todo = Rest(todo),
                                 !.pc = NextCall(Rest(todo), job[w].route),
                                 !.logged = @ \/ WritesAlert(w)]
             e == [events[job[w].id] EXCEPT !.cleared = @ \cup {NextKey(todo)},
                                            !.alerts = @ + AlertWritten(w)]
  <2>1. /\ job[w].pc = "clear" /\ Busy(w) /\ UNCHANGED <<current, closed>>
        /\ job' = [job EXCEPT ![w] = j]
        /\ events' = [events EXCEPT ![job[w].id] = e]
      BY <1>3 DEF ApplyAlarmClearRule, Busy
  <2>2. /\ j.id = job[w].id
        /\ j.logged = (job[w].logged \/ WritesAlert(w))
        /\ j.gen = job[w].gen /\ j.pc # "handle"
      BY <2>1, HandledEvent, NextCallPC DEF JobOK, Idle
  <2>3. /\ job[w].logged \in BOOLEAN
        /\ Configs[job[w].gen].alerts \in BOOLEAN
        /\ job[w].gen \in Generations
    <3>1. job[w].logged \in BOOLEAN /\ job[w].gen \in Generations
        BY <2>1, HandledEvent DEF InHand, JobOK
    <3>2. Configs[job[w].gen].alerts \in BOOLEAN
        BY <3>1, ConfigsAssumption DEF Generations
    <3> QED
        BY <3>1, <3>2
  <2>4. /\ e.outcome = "pending" /\ e.gen = job[w].gen
        /\ e.alerts = events[job[w].id].alerts + AlertWritten(w)
        /\ e.cleared # {}
      BY <2>1, HandledEvent DEF EventOK, EventFields, InHand
  <2>5. InHand(job[w], events[job[w].id]) /\ Settled(events[job[w].id], current)
      BY <2>1, HandledEvent
  <2> HIDE DEF j, e
  <2>6. j.logged = Configs[job[w].gen].alerts
      BY <2>1, <2>2, <2>3, <2>5 DEF InHand, WritesAlert
  <2>7. /\ e.alerts \in {0, 1}
        /\ e.alerts > 0 <=> events[job[w].id].alerts > 0 \/ AlertWritten(w) = 1
      BY <2>3, <2>4, <2>5, AlertWrittenOnce DEF InHand
  <2>8. AlertDue(e) <=> Configs[job[w].gen].alerts
      BY <2>3, <2>4, ConfigsAssumption DEF AlertDue, Generations
  <2>9. e.alerts > 0 => Configs[job[w].gen].alerts
    <3>1. AlertWritten(w) = 1 => Configs[job[w].gen].alerts
        BY DEF AlertWritten, WritesAlert
    <3>2. events[job[w].id].alerts > 0 => Configs[job[w].gen].alerts
        BY <2>1, <2>5 DEF InHand, Settled, AlertDue
    <3> QED
        BY <2>7, <3>1, <3>2
  <2>10. Configs[job[w].gen].alerts => e.alerts > 0 \/ e.gen < current
    <3>1. CASE job[w].logged
      <4>1. events[job[w].id].cleared # {} /\ events[job[w].id].gen = job[w].gen
          BY <2>1, <2>5, <3>1 DEF InHand
      <4>2. job[w].gen # 0
          BY <2>3, ConfigsAssumption DEF Generations
      <4> QED
          BY <2>4, <2>5, <2>7, <4>1, <4>2 DEF Settled, AlertDue
    <3>2. CASE ~job[w].logged
        BY <2>3, <2>4, <2>7, <3>2, WrittenIfOpen
    <3> QED
        BY <3>1, <3>2
  <2>11. InHand(j, e) /\ Settled(e, current)
      BY <2>2, <2>3, <2>4, <2>6, <2>7, <2>8, <2>9, <2>10 DEF InHand, Settled
  <2> QED
      BY <2>1, <2>2, <2>11, HistoryStep
<1>4. ASSUME NEW w \in Workers, FailMatch(w) PROVE HistoryInv'
    BY <1>4, HistoryFinish DEF FailMatch, Busy, Delivered
<1>5. ASSUME NEW w \in Workers,
             job[w].pc \in {"get", "touch"},
             \/ job' = [job EXCEPT ![w].pc = "touch"]
             \/ job' = [job EXCEPT ![w].pc = "put"],
             UNCHANGED <<current, closed, events>>
      PROVE  HistoryInv'
  <2>0. PICK pc \in {"touch", "put"} : job' = [job EXCEPT ![w].pc = pc]
      BY <1>5
  <2> DEFINE j == [job[w] EXCEPT !.pc = pc]
             e == events[job[w].id]
  <2>1. Busy(w) /\ job' = [job EXCEPT ![w] = j]
      BY <1>5, <2>0 DEF Busy
  <2>2. j.id = job[w].id /\ InHand(j, e) /\ Settled(e, current)
      BY <1>5, <2>1, HandledEvent DEF JobOK, Idle, InHand
  <2> HIDE DEF j
  <2> QED
      BY <1>5, <2>1, <2>2, HistoryStep
<1>6. ASSUME NEW w \in Workers, DedupGet(w) PROVE HistoryInv'
  <2>1. /\ job[w].pc \in {"get", "touch"}
        /\ \/ job' = [job EXCEPT ![w].pc = "touch"]
           \/ job' = [job EXCEPT ![w].pc = "put"]
        /\ UNCHANGED <<current, closed, events>>
      BY <1>6 DEF DedupGet
  <2> QED
      BY <1>5, <2>1
<1>7. ASSUME NEW w \in Workers, DedupTouch(w) PROVE HistoryInv'
  <2> DEFINE e == [events[job[w].id] EXCEPT !.outcome = "duplicate",
                                            !.first = states[job[w].route.key].first]
  <2>1. /\ job[w].pc = "touch" /\ Busy(w) /\ UNCHANGED <<current, closed>>
        /\ \/ /\ job' = [job EXCEPT ![w] = Idle]
              /\ events' = [events EXCEPT ![job[w].id] = e]
           \/ job' = [job EXCEPT ![w].pc = "put"] /\ UNCHANGED events
      BY <1>7 DEF DedupTouch, Busy
  <2>2. CASE /\ job' = [job EXCEPT ![w] = Idle]
             /\ events' = [events EXCEPT ![job[w].id] = e]
    <3>1. Settled(e, current)
        BY <2>1, HandledEvent DEF EventOK, EventFields, InHand, Settled, AlertDue,
                                  Delivered
    <3> HIDE DEF e
    <3>3. Idle.pc = "idle"
        BY DEF Idle
    <3> QED
        BY <2>1, <2>2, <3>1, <3>3, HistoryStep
  <2>3. CASE job' = [job EXCEPT ![w].pc = "put"] /\ UNCHANGED events
      BY <1>5, <2>1, <2>3
  <2> QED
      BY <2>1, <2>2, <2>3
<1>8. ASSUME NEW w \in Workers, DedupPut(w) PROVE HistoryInv'
  <2> DEFINE j == [job[w] EXCEPT !.pc = "send"]
             e == [events[job[w].id] EXCEPT !.opened = now,
                     !.evicted = DOMAIN states \ DOMAIN states']
  <2>1. /\ job[w].pc = "put" /\ Busy(w) /\ UNCHANGED <<current, closed>>
        /\ job' = [job EXCEPT ![w] = j]
        /\ events' = [events EXCEPT ![job[w].id] = e]
      BY <1>8 DEF DedupPut, Busy
  <2>2. j.id = job[w].id /\ InHand(j, e)
      BY <2>1, HandledEvent DEF JobOK, Idle, EventOK, EventFields, InHand
  <2>3. Settled(e, current)
      BY <2>1, HandledEvent DEF EventOK, EventFields, InHand, Settled, AlertDue
  <2> HIDE DEF j, e
  <2> QED
      BY <2>1, <2>2, <2>3, HistoryStep
<1>9. ASSUME NEW w \in Workers, Send(w) PROVE HistoryInv'
  <2>1. PICK missed \in SUBSET Configs[job[w].gen].targets :
          /\ \/ missed \subseteq Faulty
             \/ job[w].gen <= closed.alerts \/ job[w].gen <= closed.forwarder
          /\ job' = [job EXCEPT ![w] = Idle]
          /\ events' = [events EXCEPT
                ![job[w].id].missed = missed,
                ![job[w].id].outcome = IF SendFails(missed)
                                       THEN "forward_failed"
                                       ELSE Forwarded(job[w].route),
                ![job[w].id].alerts = @ +
                   IF SendFails(missed) THEN 0
                   ELSE AlertWritten(w)]
      BY <1>9 DEF Send
  <2> DEFINE e == [events[job[w].id] EXCEPT
                     !.missed = missed,
                     !.outcome = IF SendFails(missed)
                                 THEN "forward_failed"
                                 ELSE Forwarded(job[w].route),
                     !.alerts = @ +
                        IF SendFails(missed) THEN 0
                        ELSE AlertWritten(w)]
  <2>2. /\ job[w].pc = "send" /\ Busy(w) /\ UNCHANGED <<current, closed>>
      BY <1>9 DEF Send, Busy
  <2>3. events' = [events EXCEPT ![job[w].id] = e]
      BY <2>1
  <2>4. /\ e.missed = missed /\ e.gen = job[w].gen
        /\ e.outcome = IF missed # {} THEN "forward_failed"
                       ELSE Forwarded(job[w].route)
        /\ e.alerts = events[job[w].id].alerts
                      + IF missed # {} THEN 0 ELSE AlertWritten(w)
        /\ e.cleared = events[job[w].id].cleared
      BY <2>2, HandledEvent DEF EventOK, EventFields, InHand, SendFails
  <2> HIDE DEF e
  <2>5. e.alerts \in {0, 1}
      BY <2>2, <2>4, HandledEvent, AlertWrittenOnce DEF InHand
  <2>6. /\ InHand(job[w], events[job[w].id]) /\ Settled(events[job[w].id], current)
        /\ job[w].gen \in Generations /\ job[w].gen # 0
    <3>1. job[w].gen \in Generations
        BY <2>2, HandledEvent DEF JobOK
    <3>2. job[w].gen # 0
        BY <3>1, ConfigsAssumption DEF Generations
    <3> QED
        BY <2>2, <3>1, <3>2, HandledEvent
  <2>7. e.missed \subseteq Faulty \/ e.gen < current
    <3>1. closed.alerts < current /\ closed.forwarder < current
        BY DEF HistoryInv, ClosedBehind
    <3>2. /\ closed.alerts \in Int /\ closed.forwarder \in Int
          /\ current \in Int /\ job[w].gen \in Int
      <4>1. closed \in [alerts : Nat, forwarder : Nat] /\ current \in Generations
          BY DEF TypeOK
      <4>2. closed.alerts \in Int /\ closed.forwarder \in Int
          BY <4>1
      <4>3. Generations \subseteq Int
          BY DEF Generations
      <4> QED
          BY <2>6, <4>1, <4>2, <4>3
    <3>3. CASE job[w].gen <= closed.alerts \/ job[w].gen <= closed.forwarder
        BY <2>4, <3>1, <3>2, <3>3
    <3>4. CASE missed \subseteq Faulty
        BY <2>4, <3>4
    <3> QED
        BY <2>1, <3>3, <3>4
  <2>8. e.outcome \in Delivered <=> missed = {}
      BY <2>4 DEF Forwarded, Delivered
  <2>9. e.alerts > 0 => AlertDue(e)
    <3>1. CASE events[job[w].id].alerts > 0
        BY <2>2, <2>4, <2>6, <3>1 DEF InHand, Settled, AlertDue, Delivered
    <3>2. CASE ~(events[job[w].id].alerts > 0)
      <4>1. e.alerts > 0 => missed = {} /\ AlertWritten(w) # 0
          BY <2>4, <2>6, <3>2 DEF InHand
      <4>2. AlertWritten(w) # 0 => Configs[job[w].gen].alerts
          BY DEF AlertWritten, WritesAlert
      <4> QED
          BY <2>4, <2>6, <2>8, <4>1, <4>2 DEF AlertDue
    <3> QED
        BY <3>1, <3>2
  <2>10. AlertDue(e) => e.alerts > 0 \/ e.gen < current
    <3> SUFFICES ASSUME AlertDue(e) PROVE e.alerts > 0 \/ e.gen < current
        OBVIOUS
    <3>1. e.alerts >= events[job[w].id].alerts
        BY <2>4, <2>6, AlertWrittenOnce DEF InHand
    <3>2. CASE e.cleared # {}
      <4>1. AlertDue(events[job[w].id])
          BY <2>2, <2>4, <2>6, <3>2 DEF AlertDue, InHand
      <4>2. events[job[w].id].alerts > 0 \/ events[job[w].id].gen < current
          BY <2>6, <4>1 DEF Settled
      <4> QED
          BY <2>2, <2>4, <2>5, <2>6, <3>1, <4>2 DEF InHand
    <3>3. CASE e.cleared = {}
      <4>1. missed = {} /\ Configs[job[w].gen].alerts /\ ~job[w].logged
          BY <2>4, <2>6, <2>8, <3>3 DEF AlertDue, InHand
      <4>2. AlertWritten(w) = 1 \/ job[w].gen < current
          BY <2>6, <4>1, WrittenIfOpen
      <4> QED
          BY <2>4, <2>6, <4>1, <4>2 DEF InHand
    <3> QED
        BY <3>2, <3>3
  <2>11. Settled(e, current)
      BY <2>5, <2>7, <2>9, <2>10 DEF Settled
  <2>12. Idle.pc = "idle"
      BY DEF Idle
  <2> QED
      BY <2>1, <2>2, <2>3, <2>11, <2>12, HistoryStep
<1>10. CASE UNCHANGED <<job, events>> /\ current' \in Nat /\ current <= current'
            /\ ClosedBehind'
  <2>1. current \in Nat /\ \A i \in Ids : events[i].gen \in Nat
      BY ConfigsAssumption DEF TypeOK, Generations, EventOK
  <2>2. \A i \in Ids : events[i].gen < current => events[i].gen < current'
      BY <1>10, <2>1
  <2>3. \A i \in Ids : Settled(events[i], current')
      BY <2>2 DEF HistoryInv, Settled
  <2>4. /\ OneWorkerPerEvent'
        /\ \A w \in Workers : Busy(w)' => InHand(job'[w], events'[job'[w].id])
      BY <1>10 DEF HistoryInv, OneWorkerPerEvent, Busy
  <2> QED
      BY <1>10, <2>3, <2>4 DEF HistoryInv, Ids
<1>t. /\ current \in Nat \ {0}
      /\ closed \in [alerts : Nat, forwarder : Nat]
      /\ closed.alerts < current /\ closed.forwarder < current
    BY ConfigsAssumption DEF TypeOK, Generations, HistoryInv, ClosedBehind
<1>11. CASE Reload
    BY <1>t, <1>10, <1>11 DEF Reload, ClosedBehind
<1>12. CASE CloseOldAlerts
    BY <1>t, <1>10, <1>12 DEF CloseOldAlerts, ClosedBehind
<1>13. CASE CloseOldForwarder
    BY <1>t, <1>10, <1>13 DEF CloseOldForwarder, ClosedBehind
<1>14. CASE CleanupTick \/ Tick \/ UNCHANGED vars
    BY <1>t, <1>10, <1>14 DEF CleanupTick, Tick, vars, ClosedBehind
<1> QED
    BY <1>1, <1>2, <1>3, <1>4, <1>6, <1>7, <1>8, <1>9, <1>11, <1>12, <1>13, <1>14
       DEF Next, Work

\* HistoryInv is an invariant of the specification.
LEMMA HistoryCorrect == Spec => []HistoryInv
    BY TypeCorrect, HistoryInit, HistoryNext, PTL DEF Spec

\* However many clear rules a trap meets, whichever workers run and whenever a
\* reload closes the alerts file, the file gets at most one line for the trap.
THEOREM AlertedAtMostOnce == Spec => []AlertedOnce
<1>1. HistoryInv => AlertedOnce
    BY DEF HistoryInv, AlertedOnce, Settled
<1> QED
    BY HistoryCorrect, <1>1, PTL

\* Whichever workers run and whenever a reload closes the alerts file, the file has
\* a line for every trap that was forwarded, unless a reload replaced the runtime
\* state the trap was loaded with, and for no trap but those and the ones that a
\* clear rule took.
THEOREM AlertsAreComplete == Spec => []AlertsComplete
<1>1. HistoryInv => AlertsComplete
    BY DEF HistoryInv, AlertsComplete, Settled
<1> QED
    BY HistoryCorrect, <1>1, PTL

\* However many reloads there are, one never takes the forwarder of the runtime
\* state in force: a loss has a faulty target or a reload after the trap's load.
THEOREM LossHasACause == Spec => []LostOnlyToFaultOrReload
<1>1. HistoryInv => LostOnlyToFaultOrReload
    BY DEF HistoryInv, LostOnlyToFaultOrReload, Settled
<1> QED
    BY HistoryCorrect, <1>1, PTL

-----------------------------------------------------------------------------
(***************************************************************************)
(* One configuration decides on a trap (HandledAsLoaded).  It is not       *)
(* inductive: the history does not tell which event the worker holds nor   *)
(* which Clear calls it still owes.  RulingInv adds the worker's stack:    *)
(* its route is the one the loaded configuration gives its event, and the  *)
(* keys cleared so far together with those still to clear are exactly the  *)
(* keys that the same configuration clears for the same event.             *)
(***************************************************************************)

\* The history e of an event is what the ruling h asks for.
AsRuled(e, h) ==
    /\ h.filter = "keep"
    /\ e.route = h.route
    /\ e.cleared \subseteq Range(h.clears)
    /\ e.outcome # "pending" =>
          e.outcome \in Results(h.route) /\ e.cleared = Range(h.clears)

Warranted(e) == e.gen # 0 => \E event \in Events : AsRuled(e, Handling[e.gen][event])

\* The stack j of a worker and the history e of its event follow the ruling h.
Follows(j, e, h) ==
    /\ h.filter = "keep"
    /\ j.route = h.route /\ e.route = h.route
    /\ e.cleared \cup Range(j.todo) = Range(h.clears)
    /\ DOMAIN j.todo \subseteq Nat
    /\ DOMAIN j.todo # {} <=> j.pc = "clear"
    /\ j.pc = "fail" => h.route.to = "error"
    /\ j.pc = "send" => h.route.to \in {"dedup", "pass", "nokey"}

Directed(j, e) ==
    /\ j.pc = "handle" => e.gen = 0 /\ e.cleared = {}
    /\ j.pc \notin {"idle", "handle"} =>
          /\ j.event \in Events
          /\ e.gen = j.gen
          /\ Follows(j, e, Handling[j.gen][j.event])

\* The inductive invariant, on top of TypeOK and HistoryInv.
RulingInv ==
    /\ \A w \in Workers : Busy(w) => Directed(job[w], events[job[w].id])
    /\ \A i \in Ids : Warranted(events[i])

\* A ruling sends the event one of four ways and numbers its clears by alarm.
LEMMA RulingShape ==
    ASSUME NEW g \in Generations, NEW event \in Events
    PROVE  /\ Handling[g][event].route.to \in {"dedup", "pass", "nokey", "error"}
           /\ DOMAIN Handling[g][event].clears \subseteq Nat
<1>1. /\ Handling[g][event].route = Route(Configs[g], event)
      /\ Handling[g][event].clears = ClearedKeys(Configs[g], event)
    BY DEF Handling
<1>2. Route(Configs[g], event).to \in {"dedup", "pass", "nokey", "error"}
    BY DEF Route
<1>3. DOMAIN ClearedKeys(Configs[g], event) \subseteq 1 .. Len(Configs[g].alarms)
    BY DEF ClearedKeys
<1>4. Len(Configs[g].alarms) \in Nat
    BY ConfigsAssumption DEF Generations
<1> QED
    BY <1>1, <1>2, <1>3, <1>4

\* One Clear call: the key it takes and the keys left are the keys there were.
LEMMA OneClear ==
    ASSUME NEW todo, DOMAIN todo \subseteq Nat, DOMAIN todo # {}
    PROVE  /\ {NextKey(todo)} \cup Range(Rest(todo)) = Range(todo)
           /\ DOMAIN Rest(todo) \subseteq Nat
<1>1. Min(DOMAIN todo) \in DOMAIN todo
    BY MinInSet
<1> DEFINE m == Min(DOMAIN todo)
<1> HIDE DEF m
<1>2. m \in DOMAIN todo
    BY <1>1 DEF m
<1>3. /\ NextKey(todo) = todo[m]
      /\ Rest(todo) = [x \in DOMAIN todo \ {m} |-> todo[x]]
    BY DEF m, NextKey, Rest, Restrict
<1>4. {todo[m]} \cup {todo[x] : x \in DOMAIN todo \ {m}} = {todo[x] : x \in DOMAIN todo}
    BY <1>2
<1>5. Range(Rest(todo)) = {todo[x] : x \in DOMAIN todo \ {m}}
    BY <1>3 DEF Range
<1>6. DOMAIN Rest(todo) \subseteq DOMAIN todo
    BY <1>3
<1> QED
    BY <1>3, <1>4, <1>5, <1>6 DEF Range

\* NextCall takes a worker where the ruling sends it.
LEMMA NextCallFollows ==
    ASSUME NEW todo, NEW route,
           route.to \in {"dedup", "pass", "nokey", "error"}
    PROVE  /\ DOMAIN todo # {} <=> NextCall(todo, route) = "clear"
           /\ NextCall(todo, route) = "fail" => route.to = "error"
           /\ NextCall(todo, route) = "send" => route.to \in {"dedup", "pass", "nokey"}
           /\ NextCall(todo, route) \notin {"idle", "handle"}
BY DEF NextCall, AfterClears

\* An event that is in hand, and whose ruling is followed, is as ruled so far.
LEMMA FollowedIsWarranted ==
    ASSUME NEW j, NEW e, NEW h, Follows(j, e, h), e.outcome = "pending"
    PROVE  AsRuled(e, h)
BY DEF Follows, AsRuled

\* A worker that takes one step with its event keeps RulingInv if its stack still
\* follows the ruling and the history of the event is as ruled.
LEMMA RulingStep ==
    ASSUME TypeOK, HistoryInv, RulingInv, NEW w \in Workers, Busy(w),
           NEW j, job' = [job EXCEPT ![w] = j],
           NEW e,
           \/ events' = [events EXCEPT ![job[w].id] = e]
           \/ UNCHANGED events /\ e = events[job[w].id],
           j.pc # "idle" => j.id = job[w].id /\ Directed(j, e),
           Warranted(e)
    PROVE  RulingInv'
<1>1. /\ Ids' = Ids
      /\ events'[job[w].id] = e
      /\ \A k \in Ids : k # job[w].id => events'[k] = events[k]
  <2>1. job[w].id \in Ids
      BY HandledEvent
  <2>2. CASE events' = [events EXCEPT ![job[w].id] = e]
      BY <2>1, <2>2, EventsAfter
  <2>3. CASE UNCHANGED events /\ e = events[job[w].id]
      BY <2>3 DEF Ids
  <2> QED
      BY <2>2, <2>3
<1>2. /\ job'[w] = j
      /\ \A v \in Workers : v # w => job'[v] = job[v]
    BY DEF TypeOK
<1>3. ASSUME NEW v \in Workers, Busy(v)'
      PROVE  Directed(job'[v], events'[job'[v].id])
  <2>1. CASE v = w
      BY <1>1, <1>2, <1>3, <2>1 DEF Busy
  <2>2. CASE v # w
    <3>1. job'[v] = job[v] /\ Busy(v) /\ job[v].id \in Ids
        BY <1>2, <1>3, <2>2, HandledEvent DEF Busy
    <3>2. job[v].id # job[w].id
        BY <2>2, <3>1 DEF HistoryInv, OneWorkerPerEvent
    <3>3. events'[job[v].id] = events[job[v].id]
        BY <1>1, <3>1, <3>2
    <3> QED
        BY <3>1, <3>3 DEF RulingInv
  <2> QED
      BY <2>1, <2>2
<1>4. \A i \in Ids' : Warranted(events'[i])
    BY <1>1 DEF RulingInv
<1> QED
    BY <1>3, <1>4 DEF RulingInv

\* What RulingInv says of the event in the hands of a worker.
LEMMA DirectedEvent ==
    ASSUME TypeOK, HistoryInv, RulingInv, NEW w \in Workers, Busy(w),
           job[w].pc # "handle"
    PROVE  /\ job[w].gen \in Generations /\ job[w].event \in Events
           /\ events[job[w].id].gen = job[w].gen
           /\ Follows(job[w], events[job[w].id], Handling[job[w].gen][job[w].event])
BY HandledEvent DEF RulingInv, Directed, Busy, JobOK

\* The initial states.
LEMMA RulingInit == Init => RulingInv
<1> SUFFICES ASSUME Init PROVE RulingInv
    OBVIOUS
<1>1. \A w \in Workers : ~Busy(w)
    BY DEF Init, Busy, Idle
<1>2. Ids = {}
    BY DEF Init, Ids
<1> QED
    BY <1>1, <1>2 DEF RulingInv

\* A new event has no ruling yet, and its number is not the one of another event.
LEMMA RulingParse ==
    ASSUME TypeOK, HistoryInv, RulingInv, NEW w \in Workers, Parse(w)
    PROVE  RulingInv'
<1>1. PICK p \in Packets :
        IF p.valid
        THEN /\ events' = Append(events, Arrived)
             /\ job' = [job EXCEPT ![w] =
                  [Idle EXCEPT !.pc = "handle", !.at = now,
                     !.id = Len(events) + 1,
                     !.event = packetToEvent(p, Configs[current].aliases)]]
        ELSE /\ events' = Append(events,
                            [Arrived EXCEPT !.outcome = "parse_failed"])
             /\ UNCHANGED job
    BY DEF Parse, ParsePacket
<1>2. PICK e : /\ events' = Append(events, e)
               /\ e.gen = 0 /\ e.cleared = {}
    BY <1>1 DEF Arrived
<1>3. /\ Len(events) \in Nat /\ Len(events') = Len(events) + 1
      /\ \A i \in 1 .. Len(events) : events'[i] = events[i]
      /\ events'[Len(events) + 1] = e
    BY <1>2, AppendSeq DEF TypeOK
<1>4. \A i \in Ids' : Warranted(events'[i])
  <2>1. Warranted(e)
      BY <1>2 DEF Warranted
  <2> QED
      BY <1>3, <2>1 DEF RulingInv, Ids
<1>5. \A v \in Workers : Busy(v) => job[v].id \in 1 .. Len(events)
    BY HandledEvent DEF Ids
<1>6. \A v \in Workers : Busy(v) => Directed(job[v], events'[job[v].id])
    BY <1>3, <1>5 DEF RulingInv
<1>7. CASE p.valid
  <2>1. /\ job'[w].pc = "handle" /\ job'[w].id = Len(events) + 1
        /\ \A v \in Workers : v # w => job'[v] = job[v]
    <3>1. PICK event : job' = [job EXCEPT ![w] =
              [Idle EXCEPT !.pc = "handle", !.at = now,
                           !.id = Len(events) + 1, !.event = event]]
        BY <1>1, <1>7
    <3>2. DOMAIN job = Workers
        BY DEF TypeOK
    <3> QED
        BY <3>1, <3>2 DEF Idle
  <2>2. Directed(job'[w], events'[job'[w].id])
      BY <1>2, <1>3, <2>1 DEF Directed
  <2>3. \A v \in Workers : Busy(v)' => Directed(job'[v], events'[job'[v].id])
      BY <1>6, <2>1, <2>2 DEF Busy
  <2> QED
      BY <1>4, <2>3 DEF RulingInv
<1>8. CASE ~p.valid
  <2>1. UNCHANGED job
      BY <1>1, <1>8
  <2>2. \A v \in Workers : Busy(v)' => Directed(job'[v], events'[job'[v].id])
      BY <1>6, <2>1 DEF Busy
  <2> QED
      BY <1>4, <2>2 DEF RulingInv
<1> QED
    BY <1>7, <1>8

\* The event is decided: its Clear calls were all made, and its outcome is one
\* that its route may have.
LEMMA RulingDecided ==
    ASSUME TypeOK, HistoryInv, RulingInv, NEW w \in Workers, Busy(w),
           job[w].pc \notin {"handle", "clear"},
           NEW e, e.gen = events[job[w].id].gen, e.route = events[job[w].id].route,
           e.cleared = events[job[w].id].cleared,
           e.outcome \in Results(job[w].route),
           job' = [job EXCEPT ![w] = Idle],
           events' = [events EXCEPT ![job[w].id] = e]
    PROVE  RulingInv'
<1> DEFINE h == Handling[job[w].gen][job[w].event]
<1>1. /\ job[w].event \in Events /\ e.gen = job[w].gen
      /\ Follows(job[w], events[job[w].id], h)
    BY DirectedEvent
<1> HIDE DEF h
<1>2. DOMAIN job[w].todo = {}
    BY <1>1 DEF Follows
<1>3. Range(job[w].todo) = {}
    BY <1>2 DEF Range
<1>4. /\ e.cleared = Range(h.clears) /\ e.route = h.route
      /\ job[w].route = h.route /\ h.filter = "keep"
    BY <1>1, <1>3 DEF Follows
<1>5. AsRuled(e, h)
    BY <1>4 DEF AsRuled
<1>6. Warranted(e)
    BY <1>1, <1>5 DEF Warranted, h
<1>7. Idle.pc = "idle"
    BY DEF Idle
<1> QED
    BY <1>6, <1>7, RulingStep

\* The event stays in hand, its Clear calls made: neither its route nor the calls
\* change.
LEMMA RulingGoesOn ==
    ASSUME TypeOK, HistoryInv, RulingInv, NEW w \in Workers, Busy(w),
           job[w].pc \in {"get", "touch", "put"},
           NEW pc \in {"touch", "put", "send"},
           job' = [job EXCEPT ![w] = [job[w] EXCEPT !.pc = pc]],
           NEW e, e.gen = events[job[w].id].gen, e.route = events[job[w].id].route,
           e.cleared = events[job[w].id].cleared, e.outcome = "pending",
           \/ events' = [events EXCEPT ![job[w].id] = e]
           \/ UNCHANGED events /\ e = events[job[w].id]
    PROVE  RulingInv'
<1> DEFINE h == Handling[job[w].gen][job[w].event]
           j == [job[w] EXCEPT !.pc = pc]
<1>1. /\ job[w].event \in Events /\ e.gen = job[w].gen
      /\ Follows(job[w], events[job[w].id], h)
    BY DirectedEvent
<1>2. job[w].route.to = "dedup" /\ DOMAIN job[w] = DOMAIN Idle
    BY HandledEvent DEF JobOK
<1>3. /\ j.pc = pc /\ j.id = job[w].id /\ j.event = job[w].event
      /\ j.gen = job[w].gen /\ j.route = job[w].route /\ j.todo = job[w].todo
    BY <1>2 DEF Idle
<1> HIDE DEF h, j
<1>4. Follows(j, e, h)
    BY <1>1, <1>2, <1>3 DEF Follows
<1>5. Directed(j, e)
    BY <1>1, <1>3, <1>4 DEF Directed, h
<1>6. Warranted(e)
    BY <1>1, <1>4, FollowedIsWarranted DEF Warranted, h
<1>7. job' = [job EXCEPT ![w] = j]
    BY DEF j
<1> QED
    BY <1>3, <1>5, <1>6, <1>7, RulingStep

\* The filters reject the event: it gets no ruling.
LEMMA RulingRejected ==
    ASSUME TypeOK, HistoryInv, RulingInv, NEW w \in Workers, job[w].pc = "handle",
           NEW outcome, Finish(w, outcome)
    PROVE  RulingInv'
<1> DEFINE e == [events[job[w].id] EXCEPT !.outcome = outcome]
<1>1. /\ job' = [job EXCEPT ![w] = Idle]
      /\ events' = [events EXCEPT ![job[w].id] = e]
      /\ Busy(w)
    BY DEF Finish, Busy
<1>2. e.gen = 0
    BY <1>1, HandledEvent DEF RulingInv, Directed, EventOK, EventFields
<1> HIDE DEF e
<1>3. Warranted(e)
    BY <1>2 DEF Warranted
<1>4. Idle.pc = "idle"
    BY DEF Idle
<1> QED
    BY <1>1, <1>3, <1>4, RulingStep

\* HandleEvent loads the ruling that every later call of it follows.
LEMMA RulingLoaded ==
    ASSUME TypeOK, HistoryInv, RulingInv, NEW w \in Workers, HandleEvent(w)
    PROVE  RulingInv'
<1>g. job[w].pc = "handle" /\ Busy(w)
    BY DEF HandleEvent, Busy
<1>t. /\ current \in Generations /\ job[w].event \in Events
      /\ DOMAIN job[w] = DOMAIN Idle
    BY <1>g, HandledEvent DEF TypeOK, JobOK
<1>0. PICK h : h = Handling[current][job[w].event]
    OBVIOUS
<1>1. \/ Finish(w, "handle_failed")
      \/ Finish(w, "filtered")
      \/ /\ h.filter = "keep"
         /\ job' = [job EXCEPT ![w] =
               [job[w] EXCEPT !.pc = NextCall(h.clears, h.route),
                              !.gen = current, !.route = h.route,
                              !.todo = h.clears]]
         /\ events' = [events EXCEPT ![job[w].id] =
               [events[job[w].id] EXCEPT !.gen = current, !.route = h.route]]
    BY <1>0 DEF HandleEvent, Ruling
<1>2. CASE Finish(w, "handle_failed") \/ Finish(w, "filtered")
    BY <1>g, <1>2, RulingRejected
<1>3. CASE /\ h.filter = "keep"
           /\ job' = [job EXCEPT ![w] =
                 [job[w] EXCEPT !.pc = NextCall(h.clears, h.route),
                                !.gen = current, !.route = h.route,
                                !.todo = h.clears]]
           /\ events' = [events EXCEPT ![job[w].id] =
                 [events[job[w].id] EXCEPT !.gen = current, !.route = h.route]]
  <2> DEFINE j == [job[w] EXCEPT !.pc = NextCall(h.clears, h.route),
                                 !.gen = current, !.route = h.route,
                                 !.todo = h.clears]
             e == [events[job[w].id] EXCEPT !.gen = current, !.route = h.route]
  <2>1. /\ j.pc = NextCall(h.clears, h.route) /\ j.gen = current
        /\ j.route = h.route /\ j.todo = h.clears
        /\ j.id = job[w].id /\ j.event = job[w].event
      BY <1>t DEF Idle
  <2>2. /\ e.gen = current /\ e.route = h.route /\ e.cleared = {}
        /\ e.outcome = "pending"
      BY <1>g, HandledEvent DEF EventOK, EventFields, InHand, RulingInv, Directed
  <2>3. job' = [job EXCEPT ![w] = j] /\ events' = [events EXCEPT ![job[w].id] = e]
      BY <1>3
  <2> HIDE DEF j, e
  <2>4. /\ h.route.to \in {"dedup", "pass", "nokey", "error"}
        /\ DOMAIN h.clears \subseteq Nat
      BY <1>t, <1>0, RulingShape
  <2>5. Follows(j, e, h)
      BY <1>3, <2>1, <2>2, <2>4, NextCallFollows DEF Follows
  <2>6. Directed(j, e)
      BY <1>t, <1>0, <2>1, <2>2, <2>4, <2>5, NextCallFollows DEF Directed
  <2>7. Warranted(e)
      BY <1>t, <1>0, <2>2, <2>5, FollowedIsWarranted DEF Warranted
  <2> QED
      BY <1>g, <2>1, <2>3, <2>6, <2>7, RulingStep
<1> QED
    BY <1>1, <1>2, <1>3

\* One Clear call moves a key from the calls to make to the calls made.
LEMMA RulingClears ==
    ASSUME TypeOK, HistoryInv, RulingInv, NEW w \in Workers, ApplyAlarmClearRule(w)
    PROVE  RulingInv'
<1> DEFINE h == Handling[job[w].gen][job[w].event]
           todo == job[w].todo
           j == [job[w] EXCEPT !.todo = Rest(todo),
                               !.pc = NextCall(Rest(todo), job[w].route),
                               !.logged = @ \/ WritesAlert(w)]
           e == [events[job[w].id] EXCEPT !.cleared = @ \cup {NextKey(todo)},
                                          !.alerts = @ + AlertWritten(w)]
<1>1. /\ job[w].pc = "clear" /\ Busy(w)
      /\ job' = [job EXCEPT ![w] = j]
      /\ events' = [events EXCEPT ![job[w].id] = e]
    BY DEF ApplyAlarmClearRule, Busy
<1>2. /\ job[w].gen \in Generations /\ job[w].event \in Events
      /\ events[job[w].id].gen = job[w].gen
      /\ Follows(job[w], events[job[w].id], h)
    BY <1>1, DirectedEvent
<1>3. /\ j.id = job[w].id /\ j.event = job[w].event /\ j.gen = job[w].gen
      /\ j.route = job[w].route /\ j.todo = Rest(todo)
      /\ j.pc = NextCall(Rest(todo), job[w].route)
    BY <1>1, HandledEvent DEF JobOK, Idle
<1>4. /\ e.gen = job[w].gen /\ e.route = events[job[w].id].route
      /\ e.cleared = events[job[w].id].cleared \cup {NextKey(todo)}
      /\ e.outcome = "pending"
    BY <1>1, <1>2, HandledEvent DEF EventOK, EventFields, InHand
<1>5. h.route.to \in {"dedup", "pass", "nokey", "error"}
    BY <1>2, RulingShape
<1> HIDE DEF h, j, e
<1>6. /\ {NextKey(todo)} \cup Range(Rest(todo)) = Range(todo)
      /\ DOMAIN Rest(todo) \subseteq Nat
    BY <1>1, <1>2, OneClear DEF Follows
<1>7. /\ job[w].route = h.route /\ e.route = h.route /\ h.filter = "keep"
      /\ events[job[w].id].cleared \cup Range(todo) = Range(h.clears)
    BY <1>2, <1>4 DEF Follows
<1> HIDE DEF todo
<1>8. e.cleared \cup Range(Rest(todo)) = Range(h.clears)
    BY <1>4, <1>6, <1>7
<1>9. Follows(j, e, h)
    BY <1>3, <1>5, <1>6, <1>7, <1>8, NextCallFollows DEF Follows
<1>p. j.pc \notin {"idle", "handle"}
    BY <1>3, <1>5, <1>7, NextCallFollows
<1>r. Follows(j, e, Handling[j.gen][j.event])
    BY <1>3, <1>9 DEF h
<1>10. Directed(j, e)
    BY <1>2, <1>3, <1>4, <1>p, <1>r DEF Directed
<1>11. Warranted(e)
    BY <1>2, <1>4, <1>9, FollowedIsWarranted DEF Warranted, h
<1> QED
    BY <1>1, <1>3, <1>10, <1>11, RulingStep

\* Every step keeps RulingInv.
LEMMA RulingNext == TypeOK /\ HistoryInv /\ RulingInv /\ [Next]_vars => RulingInv'
<1> SUFFICES ASSUME TypeOK, HistoryInv, RulingInv, [Next]_vars PROVE RulingInv'
    OBVIOUS
<1>1. ASSUME NEW w \in Workers, FailMatch(w) PROVE RulingInv'
  <2> DEFINE e == [events[job[w].id] EXCEPT !.outcome = "handle_failed"]
  <2>1. /\ job[w].pc = "fail" /\ Busy(w)
        /\ job' = [job EXCEPT ![w] = Idle]
        /\ events' = [events EXCEPT ![job[w].id] = e]
      BY <1>1 DEF FailMatch, Finish, Busy
  <2>2. job[w].route.to = "error"
      BY <2>1, DirectedEvent DEF Follows
  <2>3. e.outcome \in Results(job[w].route)
      BY <2>1, <2>2, HandledEvent DEF Results, EventOK, EventFields
  <2>4. /\ e.gen = events[job[w].id].gen /\ e.route = events[job[w].id].route
        /\ e.cleared = events[job[w].id].cleared
      BY <2>1, HandledEvent DEF EventOK, EventFields
  <2> HIDE DEF e
  <2> QED
      BY <2>1, <2>3, <2>4, RulingDecided
<1>2. ASSUME NEW w \in Workers, job[w].pc \in {"get", "touch"},
             NEW pc \in {"touch", "put"}, job' = [job EXCEPT ![w].pc = pc],
             UNCHANGED events
      PROVE  RulingInv'
  <2>1. Busy(w) /\ job' = [job EXCEPT ![w] = [job[w] EXCEPT !.pc = pc]]
      BY <1>2 DEF Busy
  <2>2. events[job[w].id].outcome = "pending"
      BY <2>1, HandledEvent DEF InHand
  <2> QED
      BY <1>2, <2>1, <2>2, RulingGoesOn
<1>3. ASSUME NEW w \in Workers, DedupGet(w) PROVE RulingInv'
  <2>1. /\ job[w].pc = "get" /\ UNCHANGED events
        /\ \/ job' = [job EXCEPT ![w].pc = "touch"]
           \/ job' = [job EXCEPT ![w].pc = "put"]
      BY <1>3 DEF DedupGet
  <2> QED
      BY <1>2, <2>1
<1>4. ASSUME NEW w \in Workers, DedupTouch(w) PROVE RulingInv'
  <2> DEFINE e == [events[job[w].id] EXCEPT !.outcome = "duplicate",
                                            !.first = states[job[w].route.key].first]
  <2>1. /\ job[w].pc = "touch" /\ Busy(w)
        /\ \/ /\ job' = [job EXCEPT ![w] = Idle]
              /\ events' = [events EXCEPT ![job[w].id] = e]
           \/ job' = [job EXCEPT ![w].pc = "put"] /\ UNCHANGED events
      BY <1>4 DEF DedupTouch, Busy
  <2>2. CASE /\ job' = [job EXCEPT ![w] = Idle]
             /\ events' = [events EXCEPT ![job[w].id] = e]
    <3>1. job[w].route.to = "dedup"
        BY <2>1, HandledEvent DEF JobOK
    <3>2. e.outcome \in Results(job[w].route)
        BY <2>1, <3>1, HandledEvent DEF Results, EventOK, EventFields
    <3>3. /\ e.gen = events[job[w].id].gen /\ e.route = events[job[w].id].route
          /\ e.cleared = events[job[w].id].cleared
        BY <2>1, HandledEvent DEF EventOK, EventFields
    <3> HIDE DEF e
    <3> QED
        BY <2>1, <2>2, <3>2, <3>3, RulingDecided
  <2>3. CASE job' = [job EXCEPT ![w].pc = "put"] /\ UNCHANGED events
      BY <1>2, <2>1, <2>3
  <2> QED
      BY <2>1, <2>2, <2>3
<1>5. ASSUME NEW w \in Workers, DedupPut(w) PROVE RulingInv'
  <2> DEFINE e == [events[job[w].id] EXCEPT !.opened = now,
                     !.evicted = DOMAIN states \ DOMAIN states']
  <2>1. /\ job[w].pc = "put" /\ Busy(w)
        /\ job' = [job EXCEPT ![w] = [job[w] EXCEPT !.pc = "send"]]
        /\ events' = [events EXCEPT ![job[w].id] = e]
      BY <1>5 DEF DedupPut, Busy
  <2>2. /\ e.gen = events[job[w].id].gen /\ e.route = events[job[w].id].route
        /\ e.cleared = events[job[w].id].cleared /\ e.outcome = "pending"
      BY <2>1, HandledEvent DEF EventOK, EventFields, InHand
  <2> HIDE DEF e
  <2> QED
      BY <2>1, <2>2, RulingGoesOn
<1>6. ASSUME NEW w \in Workers, Send(w) PROVE RulingInv'
  <2>1. PICK missed \in SUBSET Configs[job[w].gen].targets :
          /\ job' = [job EXCEPT ![w] = Idle]
          /\ events' = [events EXCEPT
                ![job[w].id].missed = missed,
                ![job[w].id].outcome = IF SendFails(missed)
                                       THEN "forward_failed"
                                       ELSE Forwarded(job[w].route),
                ![job[w].id].alerts = @ +
                   IF SendFails(missed) THEN 0
                   ELSE AlertWritten(w)]
      BY <1>6 DEF Send
  <2> DEFINE fails   == SendFails(missed)
             outcome == IF fails THEN "forward_failed" ELSE Forwarded(job[w].route)
             e == [events[job[w].id] EXCEPT
                     !.missed = missed, !.outcome = outcome,
                     !.alerts = @ + IF fails THEN 0 ELSE AlertWritten(w)]
  <2>e. events' = [events EXCEPT ![job[w].id] = e]
      BY <2>1
  <2>2. job[w].pc = "send" /\ Busy(w)
      BY <1>6 DEF Send, Busy
  <2>3. /\ e.gen = events[job[w].id].gen /\ e.route = events[job[w].id].route
        /\ e.cleared = events[job[w].id].cleared /\ e.outcome = outcome
      BY <2>2, HandledEvent DEF EventOK, EventFields
  <2> HIDE DEF e
  <2>4. job[w].route.to \in {"dedup", "pass", "nokey"}
      BY <2>2, DirectedEvent DEF Follows
  <2>5. e.outcome \in Results(job[w].route)
      BY <2>1, <2>3, <2>4 DEF Results, Forwarded
  <2> QED
      BY <2>1, <2>2, <2>e, <2>3, <2>5, RulingDecided
<1>7. CASE UNCHANGED <<job, events>>
    BY <1>7 DEF RulingInv, Busy, Ids
<1>8. CASE CleanupTick \/ Reload \/ CloseOldAlerts \/ CloseOldForwarder \/ Tick
           \/ UNCHANGED vars
    BY <1>7, <1>8
       DEF CleanupTick, Reload, CloseOldAlerts, CloseOldForwarder, Tick, vars
<1> QED
    BY <1>1, <1>3, <1>4, <1>5, <1>6, <1>8, RulingParse, RulingLoaded, RulingClears
       DEF Next, Work

\* Engine.HandleEvent loads the runtime state once: however many reloads fall
\* between its calls and whatever the other workers do, a trap goes the way that
\* configuration gives it, no key is cleared that the same configuration does not
\* clear for it, and no decided trap still owes a Clear call.
THEOREM OneConfigurationDecides == Spec => []HandledAsLoaded
<1>1. RulingInv => HandledAsLoaded
    BY DEF RulingInv, Warranted, AsRuled, HandledAsLoaded
<1> QED
    BY TypeCorrect, HistoryCorrect, RulingInit, RulingNext, <1>1, PTL DEF Spec
=============================================================================
