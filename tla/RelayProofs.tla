------------------------------ MODULE RelayProofs ------------------------------
(***************************************************************************)
(* The relay for any number of workers, any queue, any traffic and any     *)
(* rules: it is an implementation of the server and of the engine, its     *)
(* counters tell what the engine did, and nothing is half handled when Run *)
(* returns.                                                                *)
(*                                                                         *)
(* The invariant is about who holds what: the datagram and the event in a  *)
(* worker's hands agree with where runWorker is and with the engine's      *)
(* stack of that worker, no event is in two hands, and one that is pending *)
(* is in some hand.  With it, an outcome is decided in the step in which   *)
(* its worker starts to owe it to the counters.                            *)
(***************************************************************************)
EXTENDS Relay, FiniteSetTheorems, SequenceTheorems, TLAPS

WorkerPCs == {"recv", "depth", "process", "exited"}

Elements(s) == {s[i] : i \in DOMAIN s}

\* Types, as far as the composition needs them.
Shape ==
    /\ worker \in [Workers -> WorkerPCs]
    /\ packets \in Seq(Nat)
    /\ datagrams \in Seq(Packets)
    /\ stats \in [S!Counters -> Nat]
    /\ hand \in [Workers -> [datagram : Nat, event : Nat]]
    /\ DOMAIN job = Workers
    /\ \A w \in Workers : DOMAIN job[w] = DOMAIN E!Idle
    /\ events \in Seq(Elements(events))
    /\ \A i \in 1 .. Len(events) :
          DOMAIN events[i] = E!EventFields /\ events[i].outcome \in E!Outcomes

Busy(w) == job[w].pc # "idle"

\* What is in a worker's hands agrees with the worker's place in runWorker, with the
\* engine's stack for it, and with the history of the event.
HandOK(w) ==
    /\ worker[w] \in {"recv", "exited"} => hand[w] = Empty
    /\ worker[w] = "depth" => hand[w].event = 0
    /\ hand[w].event # 0 =>
          /\ hand[w].event \in 1 .. Len(events)
          /\ events[hand[w].event].outcome = "pending" <=> Busy(w)
    /\ Busy(w) => hand[w].event # 0 /\ hand[w].event = job[w].id

\* The channel gives a packet to one worker.
OneHand ==
    \A v, w \in Workers : hand[v].event # 0 /\ hand[v].event = hand[w].event => v = w

\* An event that is not decided is in the hands of a worker.
PendingHeld ==
    \A i \in 1 .. Len(events) :
        events[i].outcome = "pending" => \E w \in Workers : hand[w].event = i

HandInv == /\ \A w \in Workers : HandOK(w)
           /\ OneHand
           /\ PendingHeld

\* The workers with a datagram that the engine has not seen.
Unparsed == {w \in Workers : worker[w] \in {"depth", "process"} /\ hand[w].event = 0}

\* Where the datagrams are that were received.
Whereabouts ==
    stats["received"] = (IF reader = "offer" THEN 1 ELSE 0) + Len(packets)
                        + Cardinality(Unparsed) + Len(events) + stats["queueDropped"]

\* Run returns when every worker left its loop.
Returned == reader = "returned" => \A w \in Workers : worker[w] = "exited"

\* The number of a datagram in the queue or in a hand is that of one received.
Numbered ==
    /\ stats["received"] = Len(datagrams)
    /\ reader = "offer" => stats["received"] # 0
    /\ \A i \in 1 .. Len(packets) : packets[i] \in 1 .. Len(datagrams)
    /\ \A w \in Workers : worker[w] \in {"depth", "process"} =>
                             hand[w].datagram \in 1 .. Len(datagrams)

-----------------------------------------------------------------------------
\* The relay as an implementation of the server.

\* Every step of the relay is one of the server or leaves the server alone.
LEMMA ServerStep == [Next]_vars => [S!Next]_(S!vars)
<1> SUFFICES ASSUME [Next]_vars PROVE [S!Next]_(S!vars)
    OBVIOUS
<1>1. CASE ServerOnly
    BY <1>1 DEF ServerOnly, S!Next, S!Reader, S!Worker
<1>2. CASE ReadPacket
    BY <1>2 DEF ReadPacket, S!Next, S!Reader
<1>3. CASE SelectCleanup
    BY <1>3 DEF SelectCleanup, S!Next, S!Reader
<1>4. ASSUME NEW w \in Workers, Receive(w) PROVE S!Next
    BY <1>4 DEF Receive, S!Next, S!Worker
<1>5. ASSUME NEW w \in Workers, CountOutcome(w) PROVE S!Next
    BY <1>5 DEF CountOutcome, S!Next, S!Worker
<1>6. ASSUME NEW w \in Workers, Parse(w) \/ Handle(w) PROVE UNCHANGED S!vars
    BY <1>6 DEF Parse, Handle, serverVars, S!vars
<1>7. CASE Tick
    BY <1>7 DEF Tick, serverVars, S!vars
<1>8. CASE UNCHANGED vars
    BY <1>8 DEF vars, serverVars, S!vars
<1> QED
    BY <1>1, <1>2, <1>3, <1>4, <1>5, <1>6, <1>7, <1>8 DEF Next

\* With the engine's answers for the ones the server takes for granted, the reader and
\* the workers behave as module Server says.
THEOREM ImplementsServer == Spec => S!Spec
<1>1. Init => S!Init
    BY DEF Init
<1> QED
    BY <1>1, ServerStep, PTL DEF Spec, S!Spec

-----------------------------------------------------------------------------
\* What a step of the engine does to the stacks and to the history.

\* A sequence is one of its own elements.
LEMMA OwnElements ==
    ASSUME NEW T, NEW s \in Seq(T) PROVE s \in Seq(Elements(s))
<1>1. DOMAIN s = 1 .. Len(s) /\ Len(s) \in Nat
    BY LenProperties
<1>2. \A i \in 1 .. Len(s) : s[i] \in Elements(s)
    BY <1>1 DEF Elements
<1>3. s \in [1 .. Len(s) -> Elements(s)]
    BY <1>1, <1>2
<1> QED
    BY <1>1, <1>3, IsASeq

\* An event that arrives is behind the others in the history.
LEMMA Appended ==
    ASSUME Shape, NEW e, events' = Append(events, e)
    PROVE  /\ events' \in Seq(Elements(events'))
           /\ Len(events) \in Nat /\ Len(events') = Len(events) + 1
           /\ \A i \in 1 .. Len(events) : events'[i] = events[i]
           /\ events'[Len(events) + 1] = e
<1> DEFINE T == Elements(events) \cup {e}
           t == Append(events, e)
<1>1. events \in Seq(T) /\ e \in T
    BY SeqMonotonic DEF Shape
<1>2. t \in Seq(T) /\ Len(events) \in Nat /\ Len(t) = Len(events) + 1
      /\ (\A i \in 1 .. Len(events) : t[i] = events[i]) /\ t[Len(events) + 1] = e
    BY <1>1, AppendProperties, LenProperties
<1> HIDE DEF t
<1>3. t \in Seq(Elements(t))
    BY <1>2, OwnElements
<1>4. events' = t
    BY DEF t
<1> QED
    BY <1>2, <1>3, <1>4

\* A change of one event leaves the others, and their number, alone.
LEMMA Replaced ==
    ASSUME Shape, NEW i \in 1 .. Len(events), NEW e, events' = [events EXCEPT ![i] = e]
    PROVE  /\ events' \in Seq(Elements(events'))
           /\ Len(events') = Len(events)
           /\ events'[i] = e
           /\ \A k \in 1 .. Len(events) : k # i => events'[k] = events[k]
<1> DEFINE T == Elements(events) \cup {e}
           t == [events EXCEPT ![i] = e]
<1>1. events \in Seq(T) /\ e \in T
    BY SeqMonotonic DEF Shape
<1>2. DOMAIN events = 1 .. Len(events) /\ Len(events) \in Nat
    BY <1>1, LenProperties
<1>3. t \in Seq(T) /\ Len(t) = Len(events) /\ t[i] = e
      /\ \A k \in 1 .. Len(events) : k # i => t[k] = events[k]
    BY <1>1, <1>2, ExceptSeq
<1> HIDE DEF t
<1>4. t \in Seq(Elements(t))
    BY <1>3, OwnElements
<1>5. events' = t
    BY DEF t
<1> QED
    BY <1>3, <1>4, <1>5

\* The outcomes of an event that was decided.
Final == E!Outcomes \ {"pending"}

\* A step of a worker with its event decides that event and leaves the worker idle, or
\* does neither.  It touches no other event and no other worker's stack.
WorksOn(w, i) ==
    /\ DOMAIN job' = Workers /\ DOMAIN job'[w] = DOMAIN E!Idle
    /\ \A v \in Workers : v # w => job'[v] = job[v]
    /\ events' \in Seq(Elements(events')) /\ Len(events') = Len(events)
    /\ \A k \in 1 .. Len(events) : k # i => events'[k] = events[k]
    /\ DOMAIN events'[i] = E!EventFields
    /\ \/ job'[w].pc = "idle" /\ events'[i].outcome \in Final
       \/ /\ job'[w].pc # "idle" /\ job'[w].id = i
          /\ events'[i].outcome = events[i].outcome

\* The two steps of an update: of the stack and of the history.
LEMMA Works ==
    ASSUME Shape, NEW w \in Workers, NEW i \in 1 .. Len(events),
           NEW j, job' = [job EXCEPT ![w] = j], DOMAIN j = DOMAIN E!Idle,
           NEW e,
           \/ events' = [events EXCEPT ![i] = e]
           \/ UNCHANGED events /\ e = events[i],
           DOMAIN e = E!EventFields,
           \/ j.pc = "idle" /\ e.outcome \in Final
           \/ j.pc # "idle" /\ j.id = i /\ e.outcome = events[i].outcome
    PROVE  WorksOn(w, i)
<1>1. DOMAIN job' = Workers /\ job'[w] = j
      /\ \A v \in Workers : v # w => job'[v] = job[v]
    BY DEF Shape
<1>2. events' \in Seq(Elements(events')) /\ Len(events') = Len(events)
      /\ events'[i] = e
      /\ \A k \in 1 .. Len(events) : k # i => events'[k] = events[k]
  <2>1. CASE events' = [events EXCEPT ![i] = e]
      BY <2>1, Replaced
  <2>2. CASE UNCHANGED events /\ e = events[i]
      BY <2>2 DEF Shape
  <2> QED
      BY <2>1, <2>2
<1> QED
    BY <1>1, <1>2 DEF WorksOn

\* After the clears a worker is at a call.
LEMMA NeverIdle == ASSUME NEW todo, NEW route PROVE E!NextCall(todo, route) # "idle"
    BY DEF E!NextCall, E!AfterClears

\* Every step of HandleEvent does so.
LEMMA WorkEffect ==
    ASSUME Shape, NEW w \in Workers, HandOK(w), E!Work(w)
    PROVE  Busy(w) /\ WorksOn(w, job[w].id)
<1> DEFINE i == job[w].id
<1>1. Busy(w)
    BY DEF E!Work, E!HandleEvent, E!ApplyAlarmClearRule, E!FailMatch, E!DedupGet,
           E!DedupTouch, E!DedupPut, E!Send, Busy
<1>0. i \in 1 .. Len(events) /\ DOMAIN events[i] = E!EventFields
      /\ DOMAIN job[w] = DOMAIN E!Idle /\ w \in DOMAIN job
    BY <1>1 DEF HandOK, Shape
<1>2. /\ i \in DOMAIN events /\ w \in DOMAIN job
      /\ DOMAIN events[i] = {"at", "after", "outcome", "gen", "route", "opened", "first",
                             "cleared", "evicted", "missed", "alerts"}
      /\ DOMAIN job[w] = {"pc", "id", "at", "event", "gen", "route", "todo", "logged"}
  <2>1. events \in Seq(Elements(events))
      BY DEF Shape
  <2>2. DOMAIN events = 1 .. Len(events)
      BY <2>1, LenProperties
  <2> QED
      BY <1>0, <2>2 DEF E!EventFields, E!Idle
<1>3. ASSUME NEW o \in Final, E!Finish(w, o) PROVE WorksOn(w, i)
  <2>1. job' = [job EXCEPT ![w] = E!Idle] /\ E!Idle.pc = "idle"
      BY <1>3 DEF E!Finish, E!Idle
  <2> DEFINE e == [events[i] EXCEPT !.outcome = o]
  <2>2. events' = [events EXCEPT ![i] = e]
      BY <1>3 DEF E!Finish
  <2>3. DOMAIN e = E!EventFields /\ e.outcome \in Final
      BY <1>2 DEF E!EventFields
  <2> HIDE DEF e
  <2> QED
      BY <1>0, <1>1, <2>1, <2>2, <2>3, Works
<1>4. CASE E!HandleEvent(w)
  <2> DEFINE h == E!Handling[current][job[w].event]
  <2>1. CASE E!Finish(w, "handle_failed") \/ E!Finish(w, "filtered")
      BY <1>1, <1>3, <2>1 DEF Final, E!Outcomes
  <2>2. CASE /\ job' = [job EXCEPT ![w].pc = E!NextCall(h.clears, h.route),
                                   ![w].gen = current,
                                   ![w].route = h.route,
                                   ![w].todo = h.clears]
             /\ events' = [events EXCEPT ![i].gen = current, ![i].route = h.route]
    <3> DEFINE j == [job[w] EXCEPT !.pc = E!NextCall(h.clears, h.route),
                                   !.gen = current, !.route = h.route,
                                   !.todo = h.clears]
               e == [events[i] EXCEPT !.gen = current, !.route = h.route]
    <3> HIDE DEF h
    <3>1. job' = [job EXCEPT ![w] = j] /\ events' = [events EXCEPT ![i] = e]
        BY <1>2, <2>2
    <3>2. DOMAIN j = DOMAIN E!Idle /\ j.pc # "idle" /\ j.id = i
        BY <1>2, NeverIdle DEF E!Idle
    <3>3. DOMAIN e = E!EventFields /\ e.outcome = events[i].outcome
        BY <1>2 DEF E!EventFields
    <3> HIDE DEF j, e
    <3> QED
        BY <1>0, <1>1, <3>1, <3>2, <3>3, Works
  <2> QED
      BY <1>4, <2>1, <2>2 DEF E!HandleEvent, E!Ruling
<1>5. CASE E!ApplyAlarmClearRule(w)
  <2> DEFINE rest == E!Rest(job[w].todo)
             j == [job[w] EXCEPT !.todo = rest,
                                 !.pc = E!NextCall(rest, job[w].route),
                                 !.logged = @ \/ E!WritesAlert(w)]
             e == [events[i] EXCEPT !.cleared = @ \cup {E!NextKey(job[w].todo)},
                                    !.alerts = @ + E!AlertWritten(w)]
  <2>1. job' = [job EXCEPT ![w] = j] /\ events' = [events EXCEPT ![i] = e]
      BY <1>2, <1>5 DEF E!ApplyAlarmClearRule
  <2>2. DOMAIN j = DOMAIN E!Idle /\ j.pc # "idle" /\ j.id = i
      BY <1>2, NeverIdle DEF E!Idle
  <2>3. DOMAIN e = E!EventFields /\ e.outcome = events[i].outcome
      BY <1>2 DEF E!EventFields
  <2> HIDE DEF j, e
  <2> QED
      BY <1>0, <1>1, <2>1, <2>2, <2>3, Works
<1>6. CASE E!FailMatch(w)
    BY <1>1, <1>3, <1>6 DEF E!FailMatch, Final, E!Outcomes
<1>7. CASE E!DedupGet(w)
  <2>1. PICK pc : pc # "idle" /\ job' = [job EXCEPT ![w].pc = pc] /\ UNCHANGED events
      BY <1>7 DEF E!DedupGet
  <2> DEFINE j == [job[w] EXCEPT !.pc = pc]
  <2>2. job' = [job EXCEPT ![w] = j]
      BY <1>2, <2>1
  <2>3. DOMAIN j = DOMAIN E!Idle /\ j.pc # "idle" /\ j.id = i
      BY <1>2, <2>1 DEF E!Idle
  <2> HIDE DEF j
  <2> QED
      BY <1>0, <1>1, <2>1, <2>2, <2>3, Works
<1>8. CASE E!DedupTouch(w)
  <2>1. CASE /\ job' = [job EXCEPT ![w] = E!Idle]
             /\ events' = [events EXCEPT ![i].outcome = "duplicate",
                                         ![i].first = states[job[w].route.key].first]
    <3> DEFINE e == [events[i] EXCEPT !.outcome = "duplicate",
                                      !.first = states[job[w].route.key].first]
    <3>1. events' = [events EXCEPT ![i] = e]
        BY <1>2, <2>1
    <3>2. DOMAIN e = E!EventFields /\ e.outcome \in Final
        BY <1>2 DEF Final, E!Outcomes, E!EventFields
    <3>3. E!Idle.pc = "idle"
        BY DEF E!Idle
    <3> HIDE DEF e
    <3> QED
        BY <1>0, <1>1, <2>1, <3>1, <3>2, <3>3, Works
  <2>2. CASE job' = [job EXCEPT ![w].pc = "put"] /\ UNCHANGED events
    <3> DEFINE j == [job[w] EXCEPT !.pc = "put"]
    <3>1. job' = [job EXCEPT ![w] = j]
        BY <1>2, <2>2
    <3>2. DOMAIN j = DOMAIN E!Idle /\ j.pc # "idle" /\ j.id = i
        BY <1>2 DEF E!Idle
    <3> HIDE DEF j
    <3> QED
        BY <1>0, <1>1, <2>2, <3>1, <3>2, Works
  <2> QED
      BY <1>8, <2>1, <2>2 DEF E!DedupTouch
<1>9. CASE E!DedupPut(w)
  <2> DEFINE j == [job[w] EXCEPT !.pc = "send"]
             e == [events[i] EXCEPT !.opened = now,
                                    !.evicted = DOMAIN states \ DOMAIN states']
  <2>1. job' = [job EXCEPT ![w] = j] /\ events' = [events EXCEPT ![i] = e]
      BY <1>2, <1>9 DEF E!DedupPut
  <2>2. DOMAIN j = DOMAIN E!Idle /\ j.pc # "idle" /\ j.id = i
      BY <1>2 DEF E!Idle
  <2>3. DOMAIN e = E!EventFields /\ e.outcome = events[i].outcome
      BY <1>2 DEF E!EventFields
  <2> HIDE DEF j, e
  <2> QED
      BY <1>0, <1>1, <2>1, <2>2, <2>3, Works
<1>10. CASE E!Send(w)
  <2>1. PICK missed, o, a :
           /\ job' = [job EXCEPT ![w] = E!Idle]
           /\ events' = [events EXCEPT ![i].missed = missed, ![i].outcome = o,
                                       ![i].alerts = @ + a]
           /\ o \in {"forward_failed", E!Forwarded(job[w].route)}
      BY <1>10 DEF E!Send
  <2>5. o \in Final
      BY <2>1 DEF E!Forwarded, Final, E!Outcomes
  <2> DEFINE e == [events[i] EXCEPT !.missed = missed, !.outcome = o, !.alerts = @ + a]
  <2>2. events' = [events EXCEPT ![i] = e]
      BY <1>2, <2>1
  <2>3. DOMAIN e = E!EventFields /\ e.outcome \in Final
      BY <1>2, <2>5 DEF E!EventFields
  <2>4. E!Idle.pc = "idle"
      BY DEF E!Idle
  <2> HIDE DEF e
  <2> QED
      BY <1>0, <1>1, <2>1, <2>2, <2>3, <2>4, Works
<1> QED
    BY <1>1, <1>4, <1>5, <1>6, <1>7, <1>8, <1>9, <1>10 DEF E!Work

\* Parse gives the worker the next event, with a stack for it if the datagram was one.
Takes(w, e) ==
    /\ events' \in Seq(Elements(events')) /\ Len(events) \in Nat
    /\ Len(events') = Len(events) + 1
    /\ \A i \in 1 .. Len(events) : events'[i] = events[i]
    /\ events'[Len(events) + 1] = e
    /\ DOMAIN e = E!EventFields
    /\ DOMAIN job' = Workers /\ DOMAIN job'[w] = DOMAIN E!Idle
    /\ \A v \in Workers : v # w => job'[v] = job[v]
    /\ \/ /\ e.outcome = "pending"
          /\ job'[w].pc # "idle" /\ job'[w].id = Len(events) + 1
       \/ e.outcome = "parse_failed" /\ job'[w].pc = "idle"

\* Engine.Parse does so.
LEMMA ParseEffect ==
    ASSUME Shape, NEW w \in Workers, NEW p, E!ParsePacket(w, p)
    PROVE  ~Busy(w) /\ \E e : Takes(w, e)
<1>1. ~Busy(w)
    BY DEF E!ParsePacket, Busy
<1>2. CASE p.valid
  <2> DEFINE e == E!Arrived
             j == [E!Idle EXCEPT !.pc = "handle", !.at = now, !.id = Len(events) + 1,
                     !.event = E!packetToEvent(p, Configs[current].aliases)]
  <2>1. events' = Append(events, e) /\ job' = [job EXCEPT ![w] = j]
      BY <1>2 DEF E!ParsePacket
  <2>2. DOMAIN j = DOMAIN E!Idle /\ j.pc # "idle" /\ j.id = Len(events) + 1
      BY DEF E!Idle
  <2>3. DOMAIN e = E!EventFields /\ e.outcome = "pending"
      BY DEF E!Arrived, E!EventFields
  <2> HIDE DEF e, j
  <2>4. DOMAIN job' = Workers /\ job'[w] = j
        /\ \A v \in Workers : v # w => job'[v] = job[v]
      BY <2>1 DEF Shape
  <2>5. Takes(w, e)
      BY <2>1, <2>2, <2>3, <2>4, Appended DEF Takes
  <2> QED
      BY <1>1, <2>5
<1>3. CASE ~p.valid
  <2> DEFINE e == [E!Arrived EXCEPT !.outcome = "parse_failed"]
  <2>1. events' = Append(events, e) /\ UNCHANGED job
      BY <1>3 DEF E!ParsePacket
  <2>2. DOMAIN e = E!EventFields /\ e.outcome = "parse_failed"
      BY DEF E!Arrived, E!EventFields
  <2> HIDE DEF e
  <2>3. Takes(w, e)
      BY <1>1, <2>1, <2>2, Appended DEF Takes, Shape, Busy
  <2> QED
      BY <1>1, <2>3
<1> QED
    BY <1>2, <1>3

-----------------------------------------------------------------------------
\* What a step of the server does to what the invariant is about.

\* A counter goes up by one or stays.
LEMMA Counts ==
    ASSUME Shape, NEW C, S!Count(C)
    PROVE  /\ stats' \in [S!Counters -> Nat]
           /\ \A c \in S!Counters : stats'[c] = IF c \in C THEN stats[c] + 1
                                                ELSE stats[c]
    BY DEF S!Count, Shape

\* The names of the counters.
LEMMA CounterNames ==
    /\ {"received", "queueDropped"} \subseteq S!Counters
    /\ DOMAIN Meaning \subseteq S!Counters \ {"received", "queueDropped"}
    BY DEF S!Counters, S!Reasons, Meaning

\* The steps of the reader and the workers with which no datagram changes hands.
Idles ==
    /\ UNCHANGED <<worker, packets, stats, hand, job, events, datagrams>>
    /\ reader # "offer" /\ reader' \notin {"offer", "returned"}

\* Sorts the steps of the relay by what they do to what the invariant is about.
LEMMA Steps ==
    ASSUME [Next]_vars
    PROVE  \/ Idles
           \/ UNCHANGED <<reader, worker, packets, stats, hand, job, events, datagrams>>
           \/ S!Enqueue /\ UNCHANGED <<hand, job, events, datagrams>>
           \/ S!DropPacket /\ UNCHANGED <<hand, job, events, datagrams>>
           \/ S!Return /\ UNCHANGED <<hand, job, events, datagrams>>
           \/ ReadPacket
           \/ \E w \in Workers :
                 \/ /\ worker[w] = "recv" /\ worker' = [worker EXCEPT ![w] = "exited"]
                    /\ UNCHANGED <<reader, packets, stats, hand, job, events, datagrams>>
                 \/ /\ worker[w] = "depth" /\ worker' = [worker EXCEPT ![w] = "process"]
                    /\ UNCHANGED <<reader, packets, stats, hand, job, events, datagrams>>
                 \/ Receive(w) \/ Parse(w) \/ Handle(w) \/ CountOutcome(w)
<1> USE DEF S!readerVars, S!queueVars, S!ticks
<1>1. CASE ServerOnly
  <2>1. UNCHANGED <<hand, job, events, datagrams>>
      BY <1>1 DEF ServerOnly, engineVars, relayVars
  <2>2. CASE S!SelectDone \/ S!SelectDefault \/ S!ReadTimeout \/ S!ReadError \/ S!RaiseDepth
      BY <2>1, <2>2 DEF Idles, S!SelectDone, S!SelectDefault, S!ReadTimeout, S!ReadError,
                        S!RaiseDepth
  <2>3. CASE S!Enqueue \/ S!DropPacket \/ S!Return
      BY <2>1, <2>3
  <2>4. ASSUME NEW w \in Workers, S!WorkerDone(w) \/ S!WorkerChanClosed(w)
        PROVE  /\ worker[w] = "recv" /\ worker' = [worker EXCEPT ![w] = "exited"]
               /\ UNCHANGED <<reader, packets, stats>>
      BY <2>4 DEF S!WorkerDone, S!WorkerChanClosed
  <2>5. ASSUME NEW w \in Workers, S!LowerDepth(w)
        PROVE  /\ worker[w] = "depth" /\ worker' = [worker EXCEPT ![w] = "process"]
               /\ UNCHANGED <<reader, packets, stats>>
      BY <2>5 DEF S!LowerDepth
  <2>6. CASE S!CleanupFires \/ S!Cancel
      BY <2>1, <2>6 DEF S!CleanupFires, S!Cancel
  <2> QED
      BY <1>1, <2>1, <2>2, <2>3, <2>4, <2>5, <2>6 DEF ServerOnly
<1>2. CASE SelectCleanup
    BY <1>2 DEF SelectCleanup, Idles, S!SelectCleanup, E!CleanupTick, relayVars
<1>3. CASE Tick
    BY <1>3 DEF Tick, E!Tick, serverVars, relayVars
<1>4. CASE UNCHANGED vars
    BY <1>4 DEF vars, serverVars, engineVars, relayVars
<1> QED
    BY <1>1, <1>2, <1>3, <1>4 DEF Next

-----------------------------------------------------------------------------
\* Types.

\* The steps that give something to a worker or take it away, with what they leave.
LEMMA ParseStep ==
    ASSUME Shape, NEW w \in Workers, Parse(w)
    PROVE  /\ worker[w] = "process" /\ hand[w].event = 0 /\ ~Busy(w)
           /\ hand' = [hand EXCEPT ![w] = [@ EXCEPT !.event = Len(events) + 1]]
           /\ hand'[w].event = Len(events) + 1 /\ hand'[w].datagram = hand[w].datagram
           /\ \A v \in Workers : v # w => hand'[v] = hand[v]
           /\ \E e : Takes(w, e)
           /\ UNCHANGED <<reader, worker, packets, stats, datagrams>>
<1>1. ~Busy(w) /\ \E e : Takes(w, e)
    BY ParseEffect DEF Parse
<1>2. Len(events') = Len(events) + 1
    BY <1>1 DEF Takes
<1>3. /\ worker[w] = "process" /\ hand[w].event = 0
      /\ hand' = [hand EXCEPT ![w].event = Len(events')]
      /\ UNCHANGED <<reader, worker, packets, stats, datagrams>>
    BY DEF Parse, serverVars
<1> QED
    BY <1>1, <1>2, <1>3 DEF Shape

\* Receive takes the head of the queue.
LEMMA ReceiveStep ==
    ASSUME Shape, NEW w \in Workers, Receive(w)
    PROVE  /\ worker[w] = "recv" /\ worker' = [worker EXCEPT ![w] = "depth"]
           /\ packets # <<>> /\ packets' = Tail(packets)
           /\ packets' \in Seq(Nat) /\ Len(packets') = Len(packets) - 1
           /\ Head(packets) \in Nat
           /\ hand' = [hand EXCEPT ![w] = [@ EXCEPT !.datagram = Head(packets)]]
           /\ UNCHANGED <<reader, stats, job, events, datagrams>>
<1> USE DEF S!readerVars, S!queueVars, S!ticks
<1>1. /\ worker[w] = "recv" /\ worker' = [worker EXCEPT ![w] = "depth"]
      /\ packets # <<>> /\ packets' = Tail(packets)
      /\ UNCHANGED <<reader, stats, job, events, datagrams>>
    BY DEF Receive, S!WorkerReceive, engineVars
<1>2. packets \in Seq(Nat)
    BY DEF Shape
<1>3. packets' \in Seq(Nat) /\ Len(packets') = Len(packets) - 1 /\ Head(packets) \in Nat
    BY <1>1, <1>2, HeadTailProperties
<1>4. hand' = [hand EXCEPT ![w].datagram = Head(packets)]
    BY DEF Receive
<1> QED
    BY <1>1, <1>3, <1>4

\* CountOutcome empties the worker's hands.
LEMMA CountStep ==
    ASSUME Shape, NEW w \in Workers, CountOutcome(w)
    PROVE  /\ Answered(w)
           /\ worker' = [worker EXCEPT ![w] = "recv"]
           /\ hand' = [hand EXCEPT ![w] = Empty]
           /\ S!Count(Counted(events[hand[w].event].outcome))
           /\ UNCHANGED <<reader, packets, job, events, datagrams>>
BY DEF CountOutcome, S!processPacket, S!readerVars, S!queueVars, engineVars

\* Every step keeps the types.
LEMMA ShapeStep == Shape /\ HandInv /\ [Next]_vars => Shape'
<1> SUFFICES ASSUME Shape, HandInv, [Next]_vars PROVE Shape'
    OBVIOUS
<1>t. worker \in [Workers -> WorkerPCs] /\ hand \in [Workers -> [datagram : Nat, event : Nat]]
    BY DEF Shape
<1>1. CASE \/ Idles
           \/ UNCHANGED <<reader, worker, packets, stats, hand, job, events, datagrams>>
           \/ S!Return /\ UNCHANGED <<hand, job, events, datagrams>>
  <2>1. UNCHANGED <<worker, packets, stats, hand, job, events, datagrams>>
      BY <1>1 DEF Idles, S!Return, S!queueVars
  <2> QED
      BY <2>1 DEF Shape
<1>2. CASE S!Enqueue /\ UNCHANGED <<hand, job, events, datagrams>>
  <2>1. packets' \in Seq(Nat)
      BY <1>2, CounterNames, AppendProperties DEF S!Enqueue, Shape
  <2> QED
      BY <1>2, <2>1 DEF Shape, S!Enqueue
<1>3. CASE S!DropPacket /\ UNCHANGED <<hand, job, events, datagrams>>
    BY <1>3, Counts DEF Shape, S!DropPacket, S!queueVars
<1>4. CASE ReadPacket
  <2>1. datagrams' \in Seq(Packets)
      BY <1>4, AppendProperties DEF ReadPacket, Shape
  <2>2. stats' \in [S!Counters -> Nat]
      BY <1>4, Counts DEF ReadPacket, S!ReadPacket
  <2> QED
      BY <1>4, <2>1, <2>2 DEF Shape, ReadPacket, S!ReadPacket, S!queueVars, engineVars
<1>5. ASSUME NEW w \in Workers, NEW pc \in WorkerPCs,
             worker' = [worker EXCEPT ![w] = pc],
             UNCHANGED <<packets, stats, hand, job, events, datagrams>>
      PROVE  Shape'
    BY <1>5 DEF Shape
<1>6. ASSUME NEW w \in Workers, Receive(w) PROVE Shape'
  <2>1. worker' \in [Workers -> WorkerPCs]
      BY <1>t, <1>6, ReceiveStep DEF WorkerPCs
  <2>2. hand' \in [Workers -> [datagram : Nat, event : Nat]]
    <3>1. PICK n \in Nat : hand' = [hand EXCEPT ![w] = [@ EXCEPT !.datagram = n]]
        BY <1>6, ReceiveStep
    <3> QED
        BY <1>t, <3>1
  <2> QED
      BY <1>6, <2>1, <2>2, ReceiveStep DEF Shape
<1>7. ASSUME NEW w \in Workers, Parse(w) PROVE Shape'
  <2>1. PICK e : Takes(w, e)
      BY <1>7, ParseStep
  <2>2. hand' \in [Workers -> [datagram : Nat, event : Nat]]
    <3>1. Len(events) + 1 \in Nat
        BY <2>1 DEF Takes
    <3> QED
        BY <1>t, <1>7, <3>1, ParseStep
  <2>3. \A i \in 1 .. Len(events') :
          DOMAIN events'[i] = E!EventFields /\ events'[i].outcome \in E!Outcomes
    <3>1. ASSUME NEW i \in 1 .. Len(events')
          PROVE  i \in 1 .. Len(events) \/ i = Len(events) + 1
        BY <2>1 DEF Takes
    <3>2. DOMAIN e = E!EventFields /\ e.outcome \in E!Outcomes
        BY <2>1 DEF Takes, E!Outcomes
    <3> QED
        BY <2>1, <3>1, <3>2 DEF Takes, Shape
  <2>4. \A v \in Workers : DOMAIN job'[v] = DOMAIN E!Idle
      BY <2>1 DEF Takes, Shape
  <2> QED
      BY <1>7, <2>1, <2>2, <2>3, <2>4, ParseStep DEF Shape, Takes
<1>8. ASSUME NEW w \in Workers, Handle(w) PROVE Shape'
  <2>1. Busy(w) /\ WorksOn(w, job[w].id) /\ job[w].id \in 1 .. Len(events)
      BY <1>8, WorkEffect DEF Handle, HandInv, HandOK
  <2>2. UNCHANGED <<worker, packets, stats, hand, datagrams>>
      BY <1>8 DEF Handle, serverVars, relayVars
  <2>3. \A i \in 1 .. Len(events') :
          DOMAIN events'[i] = E!EventFields /\ events'[i].outcome \in E!Outcomes
      BY <2>1 DEF WorksOn, Shape, Final
  <2>4. \A v \in Workers : DOMAIN job'[v] = DOMAIN E!Idle
      BY <2>1 DEF WorksOn, Shape
  <2> QED
      BY <2>1, <2>2, <2>3, <2>4 DEF Shape, WorksOn
<1>9. ASSUME NEW w \in Workers, CountOutcome(w) PROVE Shape'
  <2>1. hand' \in [Workers -> [datagram : Nat, event : Nat]]
      BY <1>t, <1>9, CountStep DEF Empty
  <2>2. worker' \in [Workers -> WorkerPCs]
      BY <1>t, <1>9, CountStep DEF WorkerPCs
  <2>3. stats' \in [S!Counters -> Nat]
      BY <1>9, CountStep, Counts
  <2> QED
      BY <1>9, <2>1, <2>2, <2>3, CountStep DEF Shape
<1> QED
    BY <1>1, <1>2, <1>3, <1>4, <1>5, <1>6, <1>7, <1>8, <1>9, Steps DEF WorkerPCs

-----------------------------------------------------------------------------
\* Who holds what.

\* A worker whose stack and hands a step leaves alone, like the event it has.
LEMMA HandKept ==
    ASSUME NEW w \in Workers, HandOK(w), worker'[w] = worker[w], hand'[w] = hand[w],
           job'[w] = job[w], Len(events) \in Nat, Len(events') \in Nat,
           Len(events') >= Len(events),
           hand[w].event # 0 => events'[hand[w].event] = events[hand[w].event]
    PROVE  HandOK(w)'
BY DEF HandOK, Busy, Empty

\* Every step keeps the invariant of the hands.
LEMMA HandStep == Shape /\ HandInv /\ [Next]_vars => HandInv'
<1> SUFFICES ASSUME Shape, HandInv, [Next]_vars PROVE HandInv'
    OBVIOUS
<1>l. Len(events) \in Nat
    BY LenProperties DEF Shape
<1>0. ASSUME UNCHANGED <<worker, hand, job, events>> PROVE HandInv'
    BY <1>0 DEF HandInv, HandOK, OneHand, PendingHeld, Busy, Empty
<1>1. CASE \/ Idles
           \/ UNCHANGED <<reader, worker, packets, stats, hand, job, events, datagrams>>
           \/ S!Enqueue /\ UNCHANGED <<hand, job, events, datagrams>>
           \/ S!DropPacket /\ UNCHANGED <<hand, job, events, datagrams>>
           \/ S!Return /\ UNCHANGED <<hand, job, events, datagrams>>
           \/ ReadPacket
    BY <1>0, <1>1 DEF Idles, S!Enqueue, S!DropPacket, S!Return, ReadPacket, S!ReadPacket,
                      engineVars
<1>2. ASSUME NEW w \in Workers, NEW from, NEW pc, worker[w] = from,
             <<from, pc>> \in {<<"recv", "exited">>, <<"depth", "process">>},
             worker' = [worker EXCEPT ![w] = pc], UNCHANGED <<hand, job, events>>
      PROVE  HandInv'
  <2>1. worker'[w] = pc /\ \A v \in Workers : v # w => worker'[v] = worker[v]
      BY <1>2 DEF Shape
  <2>2. HandOK(w)'
      BY <1>2, <2>1 DEF HandInv, HandOK, Busy, Empty
  <2>3. ASSUME NEW v \in Workers, v # w PROVE HandOK(v)'
      BY <1>2, <1>l, <2>1, <2>3, HandKept DEF HandInv
  <2> QED
      BY <1>2, <2>2, <2>3 DEF HandInv, OneHand, PendingHeld
<1>3. ASSUME NEW w \in Workers, Receive(w) PROVE HandInv'
  <2>1. /\ worker'[w] = "depth" /\ worker[w] = "recv"
        /\ \A v \in Workers : v # w => worker'[v] = worker[v] /\ hand'[v] = hand[v]
        /\ hand'[w].event = hand[w].event
        /\ UNCHANGED <<job, events>>
      BY <1>3, ReceiveStep DEF Shape
  <2>2. hand[w].event = 0 /\ ~Busy(w)
      BY <2>1 DEF HandInv, HandOK, Empty
  <2>3. HandOK(w)'
      BY <2>1, <2>2 DEF HandOK, Busy
  <2>4. ASSUME NEW v \in Workers, v # w PROVE HandOK(v)'
      BY <1>l, <2>1, <2>4, HandKept DEF HandInv
  <2>5. \A v \in Workers : hand'[v].event = hand[v].event
      BY <2>1
  <2> QED
      BY <2>1, <2>3, <2>4, <2>5 DEF HandInv, OneHand, PendingHeld
<1>4. ASSUME NEW w \in Workers, Parse(w) PROVE HandInv'
  <2> DEFINE n == Len(events) + 1
  <2>1. PICK e : Takes(w, e)
      BY <1>4, ParseStep
  <2>2. /\ hand'[w].event = n /\ hand[w].event = 0 /\ worker'[w] = "process"
        /\ \A v \in Workers : v # w => hand'[v] = hand[v]
        /\ UNCHANGED worker
      BY <1>4, ParseStep
  <2>3. \A v \in Workers : /\ hand[v].event # n
                           /\ hand[v].event # 0 => hand[v].event \in 1 .. Len(events)
      BY <1>l DEF HandInv, HandOK
  <2>4. HandOK(w)'
      BY <1>l, <2>1, <2>2 DEF Takes, HandOK, Busy
  <2>5. ASSUME NEW v \in Workers, v # w PROVE HandOK(v)'
      BY <1>l, <2>1, <2>2, <2>3, <2>5, HandKept DEF Takes, HandInv
  <2>6. OneHand'
      BY <2>2, <2>3 DEF HandInv, OneHand
  <2>7. PendingHeld'
    <3>1. ASSUME NEW i \in 1 .. Len(events'), events'[i].outcome = "pending", i # n
          PROVE  \E v \in Workers : hand'[v].event = i
      <4>1. i \in 1 .. Len(events) /\ events'[i] = events[i]
          BY <1>l, <2>1, <3>1 DEF Takes
      <4>2. PICK v \in Workers : hand[v].event = i
          BY <3>1, <4>1 DEF HandInv, PendingHeld
      <4>3. v # w
          BY <1>l, <2>2, <4>1, <4>2
      <4> QED
          BY <2>2, <4>2, <4>3
    <3> QED
        BY <2>2, <3>1 DEF PendingHeld
  <2> QED
      BY <2>4, <2>5, <2>6, <2>7 DEF HandInv
<1>5. ASSUME NEW w \in Workers, Handle(w) PROVE HandInv'
  <2>0. PICK i : i = job[w].id
      OBVIOUS
  <2>1. /\ Busy(w) /\ WorksOn(w, i)
        /\ hand[w].event = i /\ i # 0 /\ i \in 1 .. Len(events)
        /\ events[i].outcome = "pending"
        /\ worker[w] = "process"
    <3>1. Busy(w) /\ WorksOn(w, i)
        BY <1>5, <2>0, WorkEffect DEF Handle, HandInv
    <3>2. hand[w].event = i /\ i # 0 /\ i \in 1 .. Len(events)
          /\ events[i].outcome = "pending"
        BY <2>0, <3>1 DEF HandInv, HandOK
    <3>3. worker[w] \in WorkerPCs
        BY DEF Shape
    <3> QED
        BY <3>1, <3>2, <3>3 DEF HandInv, HandOK, WorkerPCs, Empty
  <2>2. UNCHANGED <<worker, hand>>
      BY <1>5 DEF Handle, serverVars, relayVars
  <2>3. HandOK(w)'
      BY <1>l, <2>1, <2>2 DEF WorksOn, HandOK, Busy, Final
  <2>4. ASSUME NEW v \in Workers, v # w PROVE HandOK(v)'
    <3>1. hand[v].event # i
        BY <2>1, <2>4 DEF HandInv, OneHand
    <3>2. hand[v].event # 0 => events'[hand[v].event] = events[hand[v].event]
        BY <2>1, <3>1 DEF HandInv, HandOK, WorksOn
    <3> QED
        BY <1>l, <2>1, <2>2, <2>4, <3>2, HandKept DEF HandInv, WorksOn
  <2>5. PendingHeld'
      BY <2>1, <2>2 DEF HandInv, PendingHeld, WorksOn
  <2> QED
      BY <2>2, <2>3, <2>4, <2>5 DEF HandInv, OneHand
<1>6. ASSUME NEW w \in Workers, CountOutcome(w) PROVE HandInv'
  <2>1. /\ Answered(w) /\ UNCHANGED <<job, events>>
        /\ worker'[w] = "recv" /\ hand'[w] = Empty
        /\ \A v \in Workers : v # w => worker'[v] = worker[v] /\ hand'[v] = hand[v]
      BY <1>6, CountStep DEF Shape
  <2>2. events[hand[w].event].outcome # "pending"
      BY <2>1 DEF Answered, HandInv, HandOK, Busy
  <2>3. HandOK(w)'
      BY <2>1 DEF HandOK, Empty, Answered, Busy
  <2>4. ASSUME NEW v \in Workers, v # w PROVE HandOK(v)'
      BY <1>l, <2>1, <2>4, HandKept DEF HandInv
  <2>5. OneHand'
      BY <2>1 DEF HandInv, OneHand, Empty
  <2>6. PendingHeld'
      BY <2>1, <2>2 DEF HandInv, PendingHeld
  <2> QED
      BY <2>3, <2>4, <2>5, <2>6 DEF HandInv
<1> QED
    BY <1>1, <1>2, <1>3, <1>4, <1>5, <1>6, Steps

-----------------------------------------------------------------------------
\* The datagrams have numbers, and Run waits for its workers.

\* Every step keeps the numbers in the queue and in the hands those of datagrams.
LEMMA NumberedStep == Shape /\ HandInv /\ Numbered /\ [Next]_vars => Numbered'
<1> SUFFICES ASSUME Shape, HandInv, Numbered, [Next]_vars PROVE Numbered'
    OBVIOUS
<1>l. Len(datagrams) \in Nat /\ Len(packets) \in Nat /\ packets \in Seq(Nat)
      /\ stats["received"] \in Nat
    BY LenProperties, CounterNames DEF Shape
<1>1. CASE \/ Idles
           \/ UNCHANGED <<reader, worker, packets, stats, hand, job, events, datagrams>>
           \/ S!Return /\ UNCHANGED <<hand, job, events, datagrams>>
    BY <1>1 DEF Idles, S!Return, S!queueVars, Numbered
<1>2. CASE S!Enqueue /\ UNCHANGED <<hand, job, events, datagrams>>
  <2>1. /\ packets' = Append(packets, stats["received"]) /\ UNCHANGED <<stats, worker>>
        /\ reader = "offer" /\ reader' = "depth"
      BY <1>2 DEF S!Enqueue
  <2>2. stats["received"] \in 1 .. Len(datagrams)
      BY <1>l, <2>1 DEF Numbered
  <2>3. \A i \in 1 .. Len(packets') : packets'[i] \in 1 .. Len(datagrams)
      BY <1>l, <2>1, <2>2, AppendProperties DEF Numbered
  <2> QED
      BY <1>2, <2>1, <2>3 DEF Numbered
<1>3. CASE S!DropPacket /\ UNCHANGED <<hand, job, events, datagrams>>
  <2>1. stats'["received"] = stats["received"]
      BY <1>3, Counts, CounterNames DEF S!DropPacket
  <2> QED
      BY <1>3, <2>1 DEF Numbered, S!DropPacket, S!queueVars
<1>4. CASE ReadPacket
  <2>1. stats'["received"] = stats["received"] + 1
      BY <1>4, Counts, CounterNames DEF ReadPacket, S!ReadPacket
  <2>2. Len(datagrams') = Len(datagrams) + 1
      BY <1>4, AppendProperties DEF ReadPacket, Shape
  <2>3. UNCHANGED <<worker, packets, hand>>
      BY <1>4 DEF ReadPacket, S!ReadPacket, S!queueVars
  <2>4. 1 .. Len(datagrams) \subseteq 1 .. Len(datagrams')
      BY <1>l, <2>2
  <2> QED
      BY <1>l, <2>1, <2>2, <2>3, <2>4 DEF Numbered
<1>5. ASSUME NEW w \in Workers, NEW from, NEW pc, worker[w] = from,
             <<from, pc>> \in {<<"recv", "exited">>, <<"depth", "process">>},
             worker' = [worker EXCEPT ![w] = pc],
             UNCHANGED <<reader, packets, stats, hand, datagrams>>
      PROVE  Numbered'
  <2>1. worker'[w] = pc /\ \A v \in Workers : v # w => worker'[v] = worker[v]
      BY <1>5 DEF Shape
  <2> QED
      BY <1>5, <2>1 DEF Numbered
<1>6. ASSUME NEW w \in Workers, Receive(w) PROVE Numbered'
  <2>1. /\ packets # <<>> /\ packets' = Tail(packets)
        /\ hand'[w].datagram = Head(packets)
        /\ \A v \in Workers : v # w => worker'[v] = worker[v] /\ hand'[v] = hand[v]
        /\ UNCHANGED <<reader, stats, datagrams>>
    <3>1. PICK n : n = Head(packets) /\ hand' = [hand EXCEPT ![w] = [@ EXCEPT !.datagram = n]]
        BY <1>6, ReceiveStep
    <3>2. hand'[w].datagram = Head(packets)
        BY <3>1 DEF Shape
    <3> QED
        BY <1>6, <3>1, <3>2, ReceiveStep DEF Shape
  <2>2. /\ Head(packets) = packets[1] /\ 1 \in 1 .. Len(packets)
        /\ \A i \in 1 .. Len(packets') :
              i + 1 \in 1 .. Len(packets) /\ packets'[i] = packets[i + 1]
      BY <1>l, <2>1, HeadTailProperties, EmptySeq
  <2> QED
      BY <2>1, <2>2 DEF Numbered
<1>7. ASSUME NEW w \in Workers, Parse(w) PROVE Numbered'
    BY <1>7, ParseStep DEF Numbered
<1>8. ASSUME NEW w \in Workers, Handle(w) PROVE Numbered'
    BY <1>8 DEF Handle, serverVars, relayVars, Numbered
<1>9. ASSUME NEW w \in Workers, CountOutcome(w) PROVE Numbered'
  <2>1. /\ worker'[w] = "recv"
        /\ \A v \in Workers : v # w => worker'[v] = worker[v] /\ hand'[v] = hand[v]
        /\ UNCHANGED <<reader, packets, datagrams>>
      BY <1>9, CountStep DEF Shape
  <2>2. stats'["received"] = stats["received"]
    <3>1. PICK C : S!Count(C) /\ "received" \notin C
        BY <1>9 DEF CountOutcome, S!processPacket, S!recordOutcome, S!Reasons
    <3> QED
        BY <3>1, Counts, CounterNames
  <2> QED
      BY <2>1, <2>2 DEF Numbered
<1> QED
    BY <1>1, <1>2, <1>3, <1>4, <1>5, <1>6, <1>7, <1>8, <1>9, Steps

\* Every step keeps the workers gone when Run returned.
LEMMA ReturnedStep == Shape /\ HandInv /\ Returned /\ [Next]_vars => Returned'
<1> SUFFICES ASSUME Shape, HandInv, Returned, [Next]_vars PROVE Returned'
    OBVIOUS
<1>1. CASE \/ Idles
           \/ UNCHANGED <<reader, worker, packets, stats, hand, job, events, datagrams>>
    BY <1>1 DEF Idles, Returned
<1>2. CASE S!Enqueue \/ S!DropPacket \/ ReadPacket
    BY <1>2 DEF S!Enqueue, S!DropPacket, ReadPacket, S!ReadPacket, Returned
<1>3. CASE S!Return
    BY <1>3 DEF S!Return, Returned
<1>4. ASSUME NEW w \in Workers, worker[w] # "exited", UNCHANGED reader PROVE Returned'
    BY <1>4 DEF Returned
<1>5. ASSUME NEW w \in Workers, Receive(w) PROVE Returned'
    BY <1>4, <1>5, ReceiveStep
<1>6. ASSUME NEW w \in Workers, Parse(w) \/ Handle(w) PROVE Returned'
    BY <1>6 DEF Parse, Handle, serverVars, Returned
<1>7. ASSUME NEW w \in Workers, CountOutcome(w) PROVE Returned'
    BY <1>4, <1>7, CountStep DEF Answered
<1> QED
    BY <1>1, <1>2, <1>3, <1>4, <1>5, <1>6, <1>7, Steps

-----------------------------------------------------------------------------
\* Every datagram is somewhere.

\* A set of workers is finite, and has a number of elements.
LEMMA FiniteWorkers ==
    ASSUME NEW X \in SUBSET Workers
    PROVE  /\ IsFiniteSet(X) /\ Cardinality(X) \in Nat
           /\ \A w : w \notin X => Cardinality(X \cup {w}) = Cardinality(X) + 1
           /\ \A w \in X : Cardinality(X \ {w}) = Cardinality(X) - 1
<1>1. IsFiniteSet(X)
    BY WorkersAssumption, FS_Subset
<1> QED
    BY <1>1, FS_CardinalityType, FS_AddElement, FS_RemoveElement

\* Every step moves a datagram from one place to the next.
LEMMA WhereaboutsStep ==
    Shape /\ HandInv /\ Whereabouts /\ [Next]_vars => Whereabouts'
<1> SUFFICES ASSUME Shape, HandInv, Whereabouts, [Next]_vars PROVE Whereabouts'
    OBVIOUS
<1>l. /\ Len(packets) \in Nat /\ packets \in Seq(Nat) /\ Len(events) \in Nat
      /\ stats["received"] \in Nat /\ stats["queueDropped"] \in Nat
    BY LenProperties, CounterNames DEF Shape
<1>u. Unparsed \in SUBSET Workers /\ Cardinality(Unparsed) \in Nat
    BY FiniteWorkers DEF Unparsed
<1>0. ASSUME UNCHANGED <<worker, hand>> PROVE Unparsed' = Unparsed
    BY <1>0 DEF Unparsed
<1>m. ASSUME Len(packets') + Cardinality(Unparsed') + Len(events')
                = Len(packets) + Cardinality(Unparsed) + Len(events),
             {Len(packets'), Cardinality(Unparsed'), Len(events')} \subseteq Nat,
             UNCHANGED <<reader, stats>>
      PROVE  Whereabouts'
  <2>1. PICK o \in Nat : o = (IF reader = "offer" THEN 1 ELSE 0)
      OBVIOUS
  <2>2. PICK p \in Nat, n \in Nat, e \in Nat :
           p = Len(packets') /\ n = Cardinality(Unparsed') /\ e = Len(events')
      BY <1>m
  <2>3. PICK m \in Nat : m = Cardinality(Unparsed)
      BY <1>u
  <2>4. stats["received"] = o + Len(packets) + m + Len(events) + stats["queueDropped"]
      BY <2>1, <2>3 DEF Whereabouts
  <2>5. p + n + e = Len(packets) + m + Len(events)
      BY <1>m, <2>2, <2>3
  <2>6. stats["received"] = o + p + n + e + stats["queueDropped"]
      BY <1>l, <2>4, <2>5
  <2> QED
      BY <1>m, <2>1, <2>2, <2>6 DEF Whereabouts
<1>1. CASE \/ Idles
           \/ UNCHANGED <<reader, worker, packets, stats, hand, job, events, datagrams>>
           \/ S!Return /\ UNCHANGED <<hand, job, events, datagrams>>
  <2>1. /\ UNCHANGED <<worker, packets, stats, hand, events>>
        /\ reader' = "offer" <=> reader = "offer"
      BY <1>1 DEF Idles, S!Return, S!queueVars
  <2> QED
      BY <1>0, <2>1 DEF Whereabouts
<1>2. CASE S!Enqueue /\ UNCHANGED <<hand, job, events, datagrams>>
  <2>1. Len(packets') = Len(packets) + 1
      BY <1>2, <1>l, AppendProperties DEF S!Enqueue
  <2> QED
      BY <1>0, <1>2, <1>l, <1>u, <2>1 DEF Whereabouts, S!Enqueue
<1>3. CASE S!DropPacket /\ UNCHANGED <<hand, job, events, datagrams>>
  <2>1. /\ stats'["received"] = stats["received"]
        /\ stats'["queueDropped"] = stats["queueDropped"] + 1
      BY <1>3, Counts, CounterNames DEF S!DropPacket
  <2> QED
      BY <1>0, <1>3, <1>l, <1>u, <2>1 DEF Whereabouts, S!DropPacket, S!queueVars
<1>4. CASE ReadPacket
  <2>1. /\ stats'["received"] = stats["received"] + 1
        /\ stats'["queueDropped"] = stats["queueDropped"]
      BY <1>4, Counts, CounterNames DEF ReadPacket, S!ReadPacket
  <2>2. UNCHANGED <<worker, hand, packets, events>> /\ reader = "read" /\ reader' = "offer"
      BY <1>4 DEF ReadPacket, S!ReadPacket, S!queueVars, engineVars
  <2> QED
      BY <1>0, <1>l, <1>u, <2>1, <2>2 DEF Whereabouts
<1>5. ASSUME NEW w \in Workers, NEW from, NEW pc, worker[w] = from,
             <<from, pc>> \in {<<"recv", "exited">>, <<"depth", "process">>},
             worker' = [worker EXCEPT ![w] = pc],
             UNCHANGED <<reader, packets, stats, hand, events>>
      PROVE  Whereabouts'
  <2>1. worker'[w] = pc /\ \A v \in Workers : v # w => worker'[v] = worker[v]
      BY <1>5 DEF Shape
  <2>2. Unparsed' = Unparsed
      BY <1>5, <2>1 DEF Unparsed
  <2> QED
      BY <1>5, <2>2 DEF Whereabouts
<1>6. ASSUME NEW w \in Workers, Receive(w) PROVE Whereabouts'
  <2>1. /\ worker[w] = "recv" /\ worker'[w] = "depth"
        /\ Len(packets') = Len(packets) - 1
        /\ hand'[w].event = hand[w].event
        /\ \A v \in Workers : v # w => worker'[v] = worker[v] /\ hand'[v] = hand[v]
        /\ UNCHANGED <<reader, stats, events>>
      BY <1>6, ReceiveStep DEF Shape
  <2>2. hand[w].event = 0
      BY <2>1 DEF HandInv, HandOK, Empty
  <2>3. w \notin Unparsed /\ Unparsed' = Unparsed \cup {w}
      BY <2>1, <2>2 DEF Unparsed
  <2>4. Cardinality(Unparsed') = Cardinality(Unparsed) + 1
      BY <1>u, <2>3, FiniteWorkers
  <2>5. Len(packets') \in Nat /\ Len(events') = Len(events)
      BY <1>6, <2>1, ReceiveStep, LenProperties
  <2> QED
      BY <1>l, <1>m, <1>u, <2>1, <2>4, <2>5
<1>7. ASSUME NEW w \in Workers, Parse(w) PROVE Whereabouts'
  <2>1. /\ worker[w] = "process" /\ hand[w].event = 0 /\ hand'[w].event # 0
        /\ \A v \in Workers : v # w => hand'[v] = hand[v]
        /\ UNCHANGED <<reader, worker, packets, stats>>
      BY <1>7, <1>l, ParseStep
  <2>2. Len(events') = Len(events) + 1
      BY <1>7, ParseStep DEF Takes
  <2>3. w \in Unparsed /\ Unparsed' = Unparsed \ {w}
      BY <2>1 DEF Unparsed
  <2>4. Cardinality(Unparsed') = Cardinality(Unparsed) - 1 /\ Cardinality(Unparsed') \in Nat
      BY <1>u, <2>3, FiniteWorkers
  <2>5. Len(packets') = Len(packets)
      BY <2>1
  <2>6. {Len(packets'), Cardinality(Unparsed'), Len(events')} \subseteq Nat
      BY <1>l, <2>2, <2>4, <2>5
  <2>7. Len(packets') + Cardinality(Unparsed') + Len(events')
          = Len(packets) + Cardinality(Unparsed) + Len(events)
    <3>1. PICK p \in Nat, n \in Nat, e \in Nat :
             p = Len(packets) /\ n = Cardinality(Unparsed) /\ e = Len(events)
        BY <1>l, <1>u
    <3>2. Len(packets') = p /\ Cardinality(Unparsed') = n - 1 /\ Len(events') = e + 1
        BY <2>2, <2>4, <2>5, <3>1
    <3>3. p + (n - 1) + (e + 1) = p + n + e
        OBVIOUS
    <3> QED
        BY <3>1, <3>2, <3>3
  <2> QED
      BY <1>m, <2>1, <2>6, <2>7
<1>8. ASSUME NEW w \in Workers, Handle(w) PROVE Whereabouts'
  <2>1. Len(events') = Len(events)
      BY <1>8, WorkEffect DEF Handle, HandInv, WorksOn
  <2>2. UNCHANGED <<reader, worker, packets, stats, hand>>
      BY <1>8 DEF Handle, serverVars, relayVars
  <2> QED
      BY <1>0, <2>1, <2>2 DEF Whereabouts
<1>9. ASSUME NEW w \in Workers, CountOutcome(w) PROVE Whereabouts'
  <2>1. /\ worker'[w] = "recv" /\ Answered(w)
        /\ \A v \in Workers : v # w => worker'[v] = worker[v] /\ hand'[v] = hand[v]
        /\ UNCHANGED <<reader, packets, events>>
      BY <1>9, CountStep DEF Shape
  <2>2. Unparsed' = Unparsed
      BY <2>1 DEF Unparsed, Answered
  <2>3. /\ stats'["received"] = stats["received"]
        /\ stats'["queueDropped"] = stats["queueDropped"]
    <3>1. PICK C : S!Count(C) /\ "received" \notin C /\ "queueDropped" \notin C
        BY <1>9 DEF CountOutcome, S!processPacket, S!recordOutcome, S!Reasons
    <3> QED
        BY <3>1, Counts, CounterNames
  <2> QED
      BY <2>1, <2>2, <2>3 DEF Whereabouts
<1> QED
    BY <1>1, <1>2, <1>3, <1>4, <1>5, <1>6, <1>7, <1>8, <1>9, Steps

-----------------------------------------------------------------------------
\* The counters.

DecidedIn(O)   == {i \in DOMAIN events : events[i].outcome \in O}
UncountedIn(O) == {w \in Workers : Answered(w) /\ events[hand[w].event].outcome \in O}

\* There are finitely many events, and finitely many workers.
LEMMA LedgerType ==
    ASSUME Shape, NEW CONSTANT O
    PROVE  /\ IsFiniteSet(DecidedIn(O)) /\ Decided(O) \in Nat
           /\ Decided(O) = Cardinality(DecidedIn(O))
           /\ UncountedIn(O) \in SUBSET Workers /\ Uncounted(O) \in Nat
           /\ Uncounted(O) = Cardinality(UncountedIn(O))
<1>1. Decided(O) = Cardinality(DecidedIn(O)) /\ Uncounted(O) = Cardinality(UncountedIn(O))
    BY DEF Decided, DecidedIn, Uncounted, UncountedIn
<1>2. DOMAIN events = 1 .. Len(events) /\ Len(events) \in Nat
    BY LenProperties DEF Shape
<1>3. IsFiniteSet(DOMAIN events)
    BY <1>2, FS_Interval
<1>4. DecidedIn(O) \in SUBSET (DOMAIN events)
    BY DEF DecidedIn
<1>5. IsFiniteSet(DecidedIn(O)) /\ Cardinality(DecidedIn(O)) \in Nat
    BY <1>3, <1>4, FS_Subset, FS_CardinalityType
<1>6. UncountedIn(O) \in SUBSET Workers
    BY DEF UncountedIn
<1> QED
    BY <1>1, <1>5, <1>6, FiniteWorkers

\* A step after which as many outcomes more are owed to the counters as are decided.
Even(O) == \E k \in {0, 1} : /\ Decided(O)' = Decided(O) + k
                             /\ Uncounted(O)' = Uncounted(O) + k

\* Nothing is decided.
LEMMA NothingDecided ==
    ASSUME Shape, NEW CONSTANT O,
           DecidedIn(O)' = DecidedIn(O), UncountedIn(O)' = UncountedIn(O)
    PROVE  Even(O)
<1>1. Decided(O)' = Decided(O) /\ Uncounted(O)' = Uncounted(O)
    BY DEF Decided, DecidedIn, Uncounted, UncountedIn
<1> QED
    BY <1>1, LedgerType DEF Even

\* An event is decided by the worker that has it.
LEMMA OneDecided ==
    ASSUME Shape, NEW CONSTANT O, NEW i, NEW w \in Workers,
           i \notin DecidedIn(O), DecidedIn(O)' = DecidedIn(O) \cup {i},
           w \notin UncountedIn(O), UncountedIn(O)' = UncountedIn(O) \cup {w}
    PROVE  Even(O)
<1>1. Cardinality(DecidedIn(O) \cup {i}) = Cardinality(DecidedIn(O)) + 1
    BY LedgerType, FS_AddElement
<1>2. Cardinality(UncountedIn(O) \cup {w}) = Cardinality(UncountedIn(O)) + 1
    BY LedgerType, FiniteWorkers
<1>3. /\ Decided(O)' = Cardinality(DecidedIn(O)')
      /\ Uncounted(O)' = Cardinality(UncountedIn(O)')
    BY DEF Decided, DecidedIn, Uncounted, UncountedIn
<1> QED
    BY <1>1, <1>2, <1>3, LedgerType DEF Even

\* The workers a step leaves alone, with their events, owe what they owed.
LEMMA SameDebts ==
    ASSUME NEW CONSTANT O, NEW v \in Workers, worker'[v] = worker[v], hand'[v] = hand[v],
           job'[v] = job[v],
           hand[v].event # 0 => events'[hand[v].event] = events[hand[v].event]
    PROVE  v \in UncountedIn(O)' <=> v \in UncountedIn(O)
BY DEF UncountedIn, Answered

\* Every step but CountOutcome is even, for any outcomes of decided events.
LEMMA EvenStep ==
    ASSUME Shape, HandInv, [Next]_vars, NEW CONSTANT O, "pending" \notin O,
           \A w \in Workers : ~CountOutcome(w)
    PROVE  Even(O)
<1>d. DOMAIN events = 1 .. Len(events) /\ Len(events) \in Nat
    BY LenProperties DEF Shape
<1>h. \A v \in Workers : hand[v].event # 0 => hand[v].event \in 1 .. Len(events)
    BY DEF HandInv, HandOK
<1>s. UncountedIn(O)' \subseteq Workers /\ UncountedIn(O) \subseteq Workers
    BY DEF UncountedIn
<1>0. ASSUME UNCHANGED <<worker, hand, job, events>> PROVE Even(O)
  <2>1. DecidedIn(O)' = DecidedIn(O) /\ UncountedIn(O)' = UncountedIn(O)
      BY <1>0 DEF DecidedIn, UncountedIn, Answered
  <2> QED
      BY <2>1, NothingDecided
<1>1. CASE \/ Idles
           \/ UNCHANGED <<reader, worker, packets, stats, hand, job, events, datagrams>>
           \/ S!Enqueue /\ UNCHANGED <<hand, job, events, datagrams>>
           \/ S!DropPacket /\ UNCHANGED <<hand, job, events, datagrams>>
           \/ S!Return /\ UNCHANGED <<hand, job, events, datagrams>>
           \/ ReadPacket
    BY <1>0, <1>1 DEF Idles, S!Enqueue, S!DropPacket, S!Return, ReadPacket, S!ReadPacket,
                      engineVars
<1>2. ASSUME NEW w \in Workers, UNCHANGED events,
             \A v \in Workers : v # w =>
                worker'[v] = worker[v] /\ hand'[v] = hand[v] /\ job'[v] = job[v],
             ~Answered(w), ~Answered(w)'
      PROVE  Even(O)
  <2>1. ASSUME NEW v \in Workers PROVE v \in UncountedIn(O)' <=> v \in UncountedIn(O)
    <3>1. CASE v = w
        BY <1>2, <3>1 DEF UncountedIn
    <3>2. CASE v # w
        BY <1>2, <3>2, SameDebts
    <3> QED
        BY <3>1, <3>2
  <2>2. UncountedIn(O)' = UncountedIn(O)
      BY <1>s, <2>1
  <2>3. DecidedIn(O)' = DecidedIn(O)
      BY <1>2 DEF DecidedIn
  <2> QED
      BY <2>2, <2>3, NothingDecided
<1>3. ASSUME NEW w \in Workers, NEW from, NEW pc, worker[w] = from,
             <<from, pc>> \in {<<"recv", "exited">>, <<"depth", "process">>},
             worker' = [worker EXCEPT ![w] = pc], UNCHANGED <<hand, job, events>>
      PROVE  Even(O)
  <2>1. worker'[w] = pc /\ \A v \in Workers : v # w => worker'[v] = worker[v]
      BY <1>3 DEF Shape
  <2>2. hand[w].event = 0
      BY <1>3 DEF HandInv, HandOK, Empty
  <2> QED
      BY <1>2, <1>3, <2>1, <2>2 DEF Answered
<1>4. ASSUME NEW w \in Workers, Receive(w) PROVE Even(O)
  <2>1. /\ worker'[w] = "depth" /\ worker[w] = "recv"
        /\ \A v \in Workers : v # w => worker'[v] = worker[v] /\ hand'[v] = hand[v]
        /\ UNCHANGED <<job, events>>
      BY <1>4, ReceiveStep DEF Shape
  <2> QED
      BY <1>2, <2>1 DEF Answered
<1>5. ASSUME NEW w \in Workers, NEW i, NEW o,
             o = "pending" \/ o \in Final,
             i \in DOMAIN events => events[i].outcome = "pending",
             DOMAIN events' = DOMAIN events \cup {i},
             \A k \in DOMAIN events : k # i => events'[k] = events[k],
             events'[i].outcome = o, hand'[w].event = i, i # 0, ~Answered(w),
             worker'[w] = "process", job'[w].pc = "idle" <=> o # "pending",
             \A v \in Workers : v # w =>
                /\ hand[v].event # i
                /\ worker'[v] = worker[v] /\ hand'[v] = hand[v] /\ job'[v] = job[v]
      PROVE  Even(O)
  <2>1. ASSUME NEW v \in Workers, v # w
        PROVE  v \in UncountedIn(O)' <=> v \in UncountedIn(O)
      BY <1>5, <1>d, <1>h, <2>1, SameDebts
  <2>2. w \notin UncountedIn(O) /\ (w \in UncountedIn(O)' <=> o \in O)
      BY <1>5 DEF UncountedIn, Answered
  <2>3. i \notin DecidedIn(O)
      BY <1>5 DEF DecidedIn
  <2>4. CASE o \in O
    <3>1. UncountedIn(O)' = UncountedIn(O) \cup {w}
        BY <1>s, <2>1, <2>2, <2>4
    <3>2. DecidedIn(O)' = DecidedIn(O) \cup {i}
        BY <1>5, <2>4 DEF DecidedIn
    <3> QED
        BY <2>2, <2>3, <3>1, <3>2, OneDecided
  <2>5. CASE o \notin O
    <3>1. UncountedIn(O)' = UncountedIn(O)
        BY <1>s, <2>1, <2>2, <2>5
    <3>2. DecidedIn(O)' = DecidedIn(O)
        BY <1>5, <2>5 DEF DecidedIn
    <3> QED
        BY <3>1, <3>2, NothingDecided
  <2> QED
      BY <2>4, <2>5
<1>6. ASSUME NEW w \in Workers, Parse(w) PROVE Even(O)
  <2>1. PICK e : Takes(w, e)
      BY <1>6, ParseStep
  <2>2. PICK n : n = Len(events) + 1
      OBVIOUS
  <2>3. DOMAIN events' = DOMAIN events \cup {n} /\ n \notin DOMAIN events /\ n # 0
    <3>1. DOMAIN events' = 1 .. Len(events')
        BY <2>1, LenProperties DEF Takes
    <3> QED
        BY <1>d, <2>1, <2>2, <3>1 DEF Takes
  <2>4. /\ hand'[w].event = n /\ hand[w].event = 0 /\ worker'[w] = "process"
        /\ \A v \in Workers : v # w => hand'[v] = hand[v]
        /\ UNCHANGED worker
      BY <1>6, <2>2, ParseStep
  <2>5. \A v \in Workers : hand[v].event # n
      BY <1>d, <1>h, <2>2
  <2>6. /\ e.outcome = "pending" \/ e.outcome \in Final
        /\ job'[w].pc = "idle" <=> e.outcome # "pending"
        /\ events'[n].outcome = e.outcome
        /\ \A k \in DOMAIN events : events'[k] = events[k]
        /\ \A v \in Workers : v # w => job'[v] = job[v]
      BY <1>d, <2>1, <2>2 DEF Takes, Final, E!Outcomes
  <2>7. ~Answered(w)
      BY <2>4 DEF Answered
  <2> QED
      BY <1>5, <2>3, <2>4, <2>5, <2>6, <2>7
<1>7. ASSUME NEW w \in Workers, Handle(w) PROVE Even(O)
  <2>0. PICK i : i = job[w].id
      OBVIOUS
  <2>1. /\ Busy(w) /\ WorksOn(w, i)
        /\ hand[w].event = i /\ i # 0 /\ i \in 1 .. Len(events)
        /\ events[i].outcome = "pending"
    <3>1. Busy(w) /\ WorksOn(w, i)
        BY <1>7, <2>0, WorkEffect DEF Handle, HandInv
    <3> QED
        BY <2>0, <3>1 DEF HandInv, HandOK
  <2>2. worker[w] = "process"
    <3>1. worker[w] \in WorkerPCs
        BY DEF Shape
    <3> QED
        BY <2>1, <3>1 DEF HandInv, HandOK, WorkerPCs, Empty
  <2>3. UNCHANGED <<worker, hand>>
      BY <1>7 DEF Handle, serverVars, relayVars
  <2>4. PICK o : o = events'[i].outcome
      OBVIOUS
  <2>5. DOMAIN events' = DOMAIN events \cup {i}
    <3>1. DOMAIN events' = 1 .. Len(events')
        BY <2>1, LenProperties DEF WorksOn
    <3> QED
        BY <1>d, <2>1, <3>1 DEF WorksOn
  <2>6. /\ o = "pending" \/ o \in Final
        /\ job'[w].pc = "idle" <=> o # "pending"
        /\ \A k \in DOMAIN events : k # i => events'[k] = events[k]
        /\ \A v \in Workers : v # w => job'[v] = job[v]
      BY <1>d, <2>1, <2>4 DEF WorksOn, Final
  <2>7. \A v \in Workers : v # w => hand[v].event # i
      BY <2>1 DEF HandInv, OneHand
  <2>8. ~Answered(w)
      BY <2>1 DEF Answered, Busy
  <2> QED
      BY <1>5, <2>1, <2>2, <2>3, <2>4, <2>5, <2>6, <2>7, <2>8
<1> QED
    BY <1>1, <1>3, <1>4, <1>6, <1>7, Steps

\* CountOutcome pays what the worker owes.
LEMMA PaidStep ==
    ASSUME Shape, HandInv, NEW w \in Workers, CountOutcome(w), NEW CONSTANT O
    PROVE  /\ Decided(O)' = Decided(O)
           /\ Uncounted(O)' = Uncounted(O)
                 - (IF events[hand[w].event].outcome \in O THEN 1 ELSE 0)
<1>1. /\ Answered(w) /\ UNCHANGED <<job, events>>
      /\ worker'[w] = "recv"
      /\ \A v \in Workers : v # w => worker'[v] = worker[v] /\ hand'[v] = hand[v]
    BY CountStep DEF Shape
<1>2. Decided(O)' = Decided(O)
    BY <1>1 DEF Decided
<1>3. ASSUME NEW v \in Workers, v # w
      PROVE  v \in UncountedIn(O)' <=> v \in UncountedIn(O)
    BY <1>1, <1>3, SameDebts
<1>4. w \notin UncountedIn(O)'
    BY <1>1 DEF UncountedIn, Answered
<1>5. w \in UncountedIn(O) <=> events[hand[w].event].outcome \in O
    BY <1>1 DEF UncountedIn
<1>6. UncountedIn(O) \subseteq Workers /\ UncountedIn(O)' \subseteq Workers
    BY DEF UncountedIn
<1>7. UncountedIn(O)' = UncountedIn(O) \ {w}
    BY <1>3, <1>4, <1>6
<1>8. Uncounted(O)' = Cardinality(UncountedIn(O)')
    BY DEF Uncounted, UncountedIn
<1>9. CASE w \in UncountedIn(O)
    BY <1>2, <1>5, <1>7, <1>8, <1>9, FiniteWorkers, LedgerType
<1>10. CASE w \notin UncountedIn(O)
  <2>1. UncountedIn(O)' = UncountedIn(O)
      BY <1>7, <1>10
  <2> QED
      BY <1>2, <1>5, <1>8, <1>10, <2>1, LedgerType
<1> QED
    BY <1>9, <1>10

\* A counter c that is to tell how often an outcome of O was decided.
Tells(c, O) == stats[c] + Uncounted(O) = Decided(O)

\* It does after any step in which it goes up for exactly the outcomes of O.
LEMMA TellsStep ==
    ASSUME Shape, HandInv, [Next]_vars, NEW CONSTANT O, "pending" \notin O,
           NEW CONSTANT c \in S!Counters \ {"received", "queueDropped"},
           \A o \in Final : c \in Counted(o) <=> o \in O, Tells(c, O)
    PROVE  Tells(c, O)'
<1>1. ASSUME NEW w \in Workers, CountOutcome(w) PROVE Tells(c, O)'
  <2>1. PICK o : o = events[hand[w].event].outcome
      OBVIOUS
  <2>2. o \in Final
    <3>1. Answered(w)
        BY <1>1, CountStep
    <3>2. hand[w].event \in 1 .. Len(events) /\ o # "pending"
        BY <2>1, <3>1 DEF Answered, HandInv, HandOK, Busy
    <3> QED
        BY <2>1, <3>2 DEF Shape, Final
  <2>3. stats'[c] = stats[c] + (IF o \in O THEN 1 ELSE 0) /\ stats[c] \in Nat
    <3>1. S!Count(Counted(o))
        BY <1>1, <2>1, CountStep
    <3> QED
        BY <2>2, <3>1, Counts DEF Shape
  <2>4. /\ Decided(O)' = Decided(O)
        /\ Uncounted(O)' = Uncounted(O) - (IF o \in O THEN 1 ELSE 0)
      BY <1>1, <2>1, PaidStep
  <2>5. Decided(O) \in Nat /\ Uncounted(O) \in Nat
      BY LedgerType
  <2> QED
      BY <2>3, <2>4, <2>5 DEF Tells
<1>2. ASSUME \A w \in Workers : ~CountOutcome(w) PROVE Tells(c, O)'
  <2>1. stats'[c] = stats[c] /\ stats[c] \in Nat
    <3>1. stats[c] \in Nat
        BY DEF Shape
    <3>2. ASSUME S!DropPacket \/ S!ReadPacket PROVE stats'[c] = stats[c]
        BY <3>2, Counts DEF S!DropPacket, S!ReadPacket
    <3>3. ASSUME NEW w \in Workers, Receive(w) PROVE stats'[c] = stats[c]
        BY <3>3, ReceiveStep
    <3>4. ASSUME NEW w \in Workers, Parse(w) \/ Handle(w) PROVE stats'[c] = stats[c]
        BY <3>4 DEF Parse, Handle, serverVars
    <3> QED
        BY <1>2, <3>1, <3>2, <3>3, <3>4, Steps
           DEF Idles, S!Enqueue, S!Return, ReadPacket
  <2>2. PICK k \in {0, 1} : /\ Decided(O)' = Decided(O) + k
                            /\ Uncounted(O)' = Uncounted(O) + k
      BY <1>2, EvenStep DEF Even
  <2>3. Decided(O) \in Nat /\ Uncounted(O) \in Nat
      BY LedgerType
  <2> QED
      BY <2>1, <2>2, <2>3 DEF Tells
<1> QED
    BY <1>1, <1>2

\* What processPacket adds for each outcome is what the counters are named for.
LEMMA CountersNamed ==
    ASSUME NEW c \in DOMAIN Meaning, NEW o \in Final
    PROVE  c \in Counted(o) <=> o \in Meaning[c]
BY DEF Final, E!Outcomes, Counted, S!recordOutcome, Meaning

\* The counters, one by one.
Ledger == \A c \in DOMAIN Meaning : Tells(c, Meaning[c])

\* Every step keeps them.
LEMMA LedgerStep == Shape /\ HandInv /\ Ledger /\ [Next]_vars => Ledger'
<1> SUFFICES ASSUME Shape, HandInv, Ledger, [Next]_vars,
                    NEW CONSTANT c \in DOMAIN Meaning
             PROVE  Tells(c, Meaning[c])'
    BY DEF Ledger
<1>1. c \in S!Counters \ {"received", "queueDropped"}
    BY CounterNames
<1>2. "pending" \notin Meaning[c]
    BY DEF Meaning
<1>3. \A o \in Final : c \in Counted(o) <=> o \in Meaning[c]
    BY CountersNamed
<1>4. Tells(c, Meaning[c])
    BY DEF Ledger
<1> QED
    BY <1>1, <1>2, <1>3, <1>4, TellsStep

-----------------------------------------------------------------------------
\* The theorems.

\* The inductive invariant.
RelayInv == Shape /\ HandInv /\ Whereabouts /\ Returned /\ Numbered /\ Ledger

\* Before the first datagram.
LEMMA RelayInit == Init => RelayInv
<1> SUFFICES ASSUME Init PROVE RelayInv
    OBVIOUS
<1>1. /\ worker = [w \in Workers |-> "recv"] /\ packets = <<>> /\ reader = "select"
      /\ stats = [c \in S!Counters |-> 0]
      /\ job = [w \in Workers |-> E!Idle] /\ events = <<>>
      /\ datagrams = <<>> /\ hand = [w \in Workers |-> Empty]
    BY DEF Init, S!Init, E!Init
<1>2. Len(events) = 0 /\ Len(packets) = 0 /\ Len(datagrams) = 0 /\ DOMAIN events = {}
    BY <1>1
<1>3. Shape
  <2>1. events \in Seq(Elements(events)) /\ packets \in Seq(Nat)
        /\ datagrams \in Seq(Packets)
      BY <1>1
  <2> QED
      BY <1>1, <1>2, <2>1 DEF Shape, WorkerPCs, Empty
<1>4. HandInv
    BY <1>1, <1>2 DEF HandInv, HandOK, OneHand, PendingHeld, Busy, Empty, E!Idle
<1>5. /\ \A c \in S!Counters : stats[c] = 0
      /\ stats["received"] = 0 /\ stats["queueDropped"] = 0
    BY <1>1, CounterNames
<1>6. Whereabouts
  <2>1. Unparsed = {}
      BY <1>1 DEF Unparsed
  <2>2. Cardinality(Unparsed) = 0
      BY <2>1, FS_EmptySet
  <2> QED
      BY <1>1, <1>2, <1>5, <2>2 DEF Whereabouts
<1>7. Returned /\ Numbered
    BY <1>1, <1>2, <1>5 DEF Returned, Numbered
<1>8. ASSUME NEW CONSTANT O, NEW CONSTANT c \in S!Counters PROVE Tells(c, O)
  <2>1. DecidedIn(O) = {} /\ UncountedIn(O) = {}
      BY <1>1, <1>2 DEF DecidedIn, UncountedIn, Answered
  <2>2. Decided(O) = 0 /\ Uncounted(O) = 0
      BY <1>3, <2>1, LedgerType, FS_EmptySet
  <2> QED
      BY <1>5, <2>2 DEF Tells
<1>9. Ledger
    BY <1>8, CounterNames DEF Ledger
<1> QED
    BY <1>3, <1>4, <1>6, <1>7, <1>9 DEF RelayInv

\* The invariant holds.
LEMMA RelayCorrect == Spec => []RelayInv
<1>1. RelayInv /\ [Next]_vars => RelayInv'
    BY ShapeStep, HandStep, WhereaboutsStep, ReturnedStep, NumberedStep, LedgerStep
       DEF RelayInv
<1> QED
    BY <1>1, RelayInit, PTL DEF Spec

\* With any number of workers, each counter a scrape reads, accepted_total apart, is
\* the number of events that the engine decided the way the counter is named for,
\* up to what workers are about to count.
THEOREM CountersAreOutcomes == Spec => []CountersTellOutcomes
<1>1. RelayInv => CountersTellOutcomes
    BY DEF RelayInv, Ledger, Tells, CountersTellOutcomes
<1> QED
    BY <1>1, RelayCorrect, PTL

\* When Run returns and main goes on to close what the workers used, every datagram
\* that left the queue was decided and counted, and no other is missing.
THEOREM NothingLeftHalfHandled == Spec => []NothingHalfHandled
<1>1. RelayInv => NothingHalfHandled
  <2> SUFFICES ASSUME RelayInv, reader = "returned"
               PROVE  /\ \A i \in DOMAIN events : events[i].outcome # "pending"
                      /\ \A w \in Workers : hand[w] = Empty
                      /\ stats["received"] = Len(events) + stats["queueDropped"]
                                             + Len(packets)
      BY DEF NothingHalfHandled
  <2>1. Shape /\ HandInv /\ Whereabouts /\ Returned
      BY DEF RelayInv
  <2>2. \A w \in Workers : worker[w] = "exited" /\ hand[w] = Empty
      BY <2>1 DEF Returned, HandInv, HandOK
  <2>3. DOMAIN events = 1 .. Len(events) /\ Len(events) \in Nat /\ Len(packets) \in Nat
      BY <2>1, LenProperties DEF Shape
  <2>4. \A i \in DOMAIN events : events[i].outcome # "pending"
    <3>1. SUFFICES ASSUME NEW i \in 1 .. Len(events), events[i].outcome = "pending"
                   PROVE  FALSE
        BY <2>3
    <3>2. PICK w \in Workers : hand[w].event = i
        BY <2>1, <3>1 DEF HandInv, PendingHeld
    <3> QED
        BY <2>2, <2>3, <3>1, <3>2 DEF Empty
  <2>5. Unparsed = {}
      BY <2>2 DEF Unparsed
  <2>6. Cardinality(Unparsed) = 0
      BY <2>5, FS_EmptySet
  <2>7. stats["queueDropped"] \in Nat
      BY <2>1, CounterNames DEF Shape
  <2>8. stats["received"] = 0 + Len(packets) + 0 + Len(events) + stats["queueDropped"]
      BY <2>1, <2>6 DEF Whereabouts
  <2> QED
      BY <2>2, <2>3, <2>4, <2>7, <2>8
<1> QED
    BY <1>1, RelayCorrect, PTL

\* The workers of the server hand the engine datagrams that were received, and nothing
\* the reader or a worker does comes between the engine's steps: the relay's runtime
\* state, store and history behave as module Engine says, without a reload.
THEOREM ImplementsEngine == Spec => E!Spec
<1>1. Init => E!Init
    BY DEF Init
<1>2. RelayInv /\ [Next]_vars => [E!Next]_(E!vars)
  <2> SUFFICES ASSUME RelayInv, [Next]_vars PROVE [E!Next]_(E!vars)
      OBVIOUS
  <2>1. CASE ServerOnly \/ ReadPacket \/ UNCHANGED vars
      BY <2>1 DEF ServerOnly, ReadPacket, vars, engineVars, E!vars
  <2>2. CASE SelectCleanup
      BY <2>2 DEF SelectCleanup, E!Next
  <2>3. ASSUME NEW w \in Workers, Receive(w) \/ CountOutcome(w) PROVE UNCHANGED E!vars
      BY <2>3 DEF Receive, CountOutcome, engineVars, E!vars
  <2>4. ASSUME NEW w \in Workers, Parse(w) PROVE E!Next
    <3>1. worker[w] = "process" /\ E!ParsePacket(w, datagrams[hand[w].datagram])
        BY <2>4 DEF Parse
    <3>2. hand[w].datagram \in 1 .. Len(datagrams) /\ datagrams \in Seq(Packets)
        BY <3>1 DEF RelayInv, Numbered, Shape
    <3>3. datagrams[hand[w].datagram] \in Packets
        BY <3>2, ElementOfSeq
    <3> QED
        BY <3>1, <3>3 DEF E!Next, E!Parse
  <2>5. ASSUME NEW w \in Workers, Handle(w) PROVE E!Next
      BY <2>5 DEF Handle, E!Next
  <2>6. CASE Tick
      BY <2>6 DEF Tick, E!Next
  <2> QED
      BY <2>1, <2>2, <2>3, <2>4, <2>5, <2>6 DEF Next
<1> QED
    BY <1>1, <1>2, RelayCorrect, PTL DEF Spec, E!Spec
=============================================================================
