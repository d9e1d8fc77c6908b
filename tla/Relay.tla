--------------------------------- MODULE Relay ---------------------------------
(***************************************************************************)
(* The relay between two reloads: the reader and the workers of module     *)
(* Server with the calls they make into module Engine.  The reader takes   *)
(* datagrams in the order they arrive and cleans the store up when a tick  *)
(* waits; a worker that received a datagram parses it, handles it call by  *)
(* call, and only then adds to the counters of its outcome; cancel() may   *)
(* fall anywhere.                                                          *)
(*                                                                         *)
(* Left to the modules of the two parts: reloads (Engine), and the ticker  *)
(* of the log line with the counters, which the engine does not see        *)
(* (Server).                                                               *)
(***************************************************************************)
EXTENDS Integers, Sequences, FiniteSets

CONSTANTS Workers, QueueSize, MaxReceived,               \* of Server
          Packets, Configs, Faulty, MaxTime, Limit       \* of Engine

ASSUME WorkersAssumption == IsFiniteSet(Workers)

VARIABLES reader, worker, packets, chanClosed, ctxDone, cleanupDue, statsDue,
          queueDepth, stats, connOpen,                   \* of Server
          states, now, current, closed, job, events,     \* of Engine
          datagrams,   \* what was received, in the order it was
          hand         \* per worker, the datagram and the event in its hands

S == INSTANCE Server
E == INSTANCE Engine WITH MaxEvents <- MaxReceived

serverVars == <<reader, worker, packets, chanClosed, ctxDone, cleanupDue, statsDue,
                queueDepth, stats, connOpen>>
engineVars == <<states, now, current, closed, job, events>>
relayVars  == <<datagrams, hand>>

vars == <<serverVars, engineVars, relayVars>>

Empty == [datagram |-> 0, event |-> 0]

Init == /\ S!Init
        /\ E!Init
        /\ datagrams = <<>>
        /\ hand = [w \in Workers |-> Empty]

-----------------------------------------------------------------------------
\* The steps of the reader and the workers that leave the engine alone.

ServerOnly ==
    /\ \/ S!SelectDone \/ S!SelectDefault \/ S!ReadTimeout \/ S!ReadError
       \/ S!Enqueue \/ S!RaiseDepth \/ S!DropPacket \/ S!Return
       \/ \E w \in Workers :
             S!WorkerDone(w) \/ S!WorkerChanClosed(w) \/ S!LowerDepth(w)
       \/ S!CleanupFires \/ S!Cancel
    /\ UNCHANGED <<engineVars, relayVars>>

ReadPacket ==
    /\ S!ReadPacket
    /\ \E p \in Packets : datagrams' = Append(datagrams, p)
    /\ UNCHANGED <<engineVars, hand>>

\* The tick's case of the select calls Engine.Cleanup with the tick's time.
SelectCleanup ==
    /\ S!SelectCleanup
    /\ E!CleanupTick
    /\ UNCHANGED relayVars

Receive(w) ==
    /\ S!WorkerReceive(w)
    /\ hand' = [hand EXCEPT ![w].datagram = Head(packets)]
    /\ UNCHANGED <<engineVars, datagrams>>

-----------------------------------------------------------------------------
\* processPacket: Parse, HandleEvent, and the counters.

Parse(w) ==
    /\ worker[w] = "process"
    /\ hand[w].event = 0
    /\ E!ParsePacket(w, datagrams[hand[w].datagram])
    /\ hand' = [hand EXCEPT ![w].event = Len(events')]
    /\ UNCHANGED <<serverVars, datagrams>>

Handle(w) ==
    /\ E!Work(w)
    /\ UNCHANGED <<serverVars, relayVars>>

\* Mutant of Counted: the error of a failed forward is not told from the others.
CountedPlain(outcome) ==
    CASE outcome = "parse_failed"   -> {"parseFailed"}
      [] outcome = "handle_failed"  -> {"handleFailed"}
      [] outcome = "forward_failed" -> {"handleFailed"}
      [] outcome = "filtered"       -> S!recordOutcome("filtered")
      [] outcome = "duplicate"      -> S!recordOutcome("duplicates")
      [] outcome = "pass-through"   -> S!recordOutcome("passThrough")
      [] outcome = "alarm"          -> S!recordOutcome("alarms")
      [] outcome = "dedup_disabled" -> S!recordOutcome("dedupDisabled")

\* The counters processPacket adds to for an outcome of the engine.
Counted(outcome) ==
    CASE outcome = "parse_failed"   -> {"parseFailed"}
      [] outcome = "handle_failed"  -> {"handleFailed"}
      [] outcome = "forward_failed" -> {"handleFailed", "forwardFailed"}
      [] outcome = "filtered"       -> S!recordOutcome("filtered")
      [] outcome = "duplicate"      -> S!recordOutcome("duplicates")
      [] outcome = "pass-through"   -> S!recordOutcome("passThrough")
      [] outcome = "alarm"          -> S!recordOutcome("alarms")
      [] outcome = "dedup_disabled" -> S!recordOutcome("dedupDisabled")

\* Has the engine answered for the datagram in w's hands?
Answered(w) == /\ worker[w] = "process"
               /\ hand[w].event # 0
               /\ job[w].pc = "idle"

CountOutcome(w) ==
    /\ Answered(w)
    /\ S!Count(Counted(events[hand[w].event].outcome))
    /\ S!processPacket(w)
    /\ hand' = [hand EXCEPT ![w] = Empty]
    /\ UNCHANGED <<engineVars, datagrams>>

Tick == E!Tick /\ UNCHANGED <<serverVars, relayVars>>

Next == \/ ServerOnly
        \/ ReadPacket
        \/ SelectCleanup
        \/ \E w \in Workers : Receive(w) \/ Parse(w) \/ Handle(w) \/ CountOutcome(w)
        \/ Tick

Spec == Init /\ [][Next]_vars

-----------------------------------------------------------------------------
\* Properties

Decided(O) == Cardinality({i \in DOMAIN events : events[i].outcome \in O})

Uncounted(O) == Cardinality({w \in Workers :
                    Answered(w) /\ events[hand[w].event].outcome \in O})

\* The outcomes that the counters are named for.
Meaning == [parseFailed   |-> {"parse_failed"},
            handleFailed  |-> {"handle_failed", "forward_failed"},
            forwardFailed |-> {"forward_failed"},
            filtered      |-> {"filtered"},
            duplicates    |-> {"duplicate"},
            passThrough   |-> {"pass-through"},
            alarms        |-> {"alarm"},
            dedupDisabled |-> {"dedup_disabled"},
            forwarded     |-> {"alarm", "pass-through", "dedup_disabled"}]

\* README.md, Counters: "total traps that could not be parsed", "total events
\* actually forwarded to downstream receivers", "total events suppressed by
\* deduplication", ...  Each of these counters is, at any moment of a scrape, the
\* number of datagrams for which the engine really had that outcome, less those
\* whose workers are about to count: no outcome is counted under another name,
\* twice or not at all.  accepted_total is not among them: README.md:201 has
\* forward_failed traffic as accepted and HandleEvent returns Accepted for it, but
\* processPacket returns before recordOutcome on an error, so it counts the
\* forwarded events only.
CountersTellOutcomes ==
    \A c \in DOMAIN Meaning :
        stats[c] + Uncounted(Meaning[c]) = Decided(Meaning[c])

\* When Run has returned, and main goes on to close the forwarder and the files, no
\* trap is half handled: every datagram a worker took was decided and counted, and
\* what was received and not dropped is still in the queue.
NothingHalfHandled ==
    reader = "returned" =>
        /\ \A i \in DOMAIN events : events[i].outcome # "pending"
        /\ \A w \in Workers : hand[w] = Empty
        /\ stats["received"] = Len(events) + stats["queueDropped"] + Len(packets)
=============================================================================
