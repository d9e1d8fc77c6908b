-------------------------------- MODULE Server --------------------------------
(***************************************************************************)
(* internal/server: the reader goroutine (Run) takes datagrams from the    *)
(* UDP socket and offers them to a buffered channel, worker goroutines     *)
(* (runWorker) take them out and push them through the engine, and both    *)
(* keep the counters that the metrics endpoint exports.                    *)
(*                                                                         *)
(* The engine is a nondeterministic outcome here; module Engine is about   *)
(* how it is reached.  A step is one operation that another goroutine can  *)
(* see: a channel operation, an atomic counter, a read of the socket.      *)
(* The counters one packet adds to in processPacket are one step: they are *)
(* only ever read for a log line and a scrape.                             *)
(***************************************************************************)
EXTENDS Integers, Sequences, FiniteSets

CONSTANTS Workers,      \* server.worker_count goroutines
          QueueSize,    \* server.queue_size
          MaxReceived   \* bound: datagrams that arrive

ASSUME QueueSizeAssumption == QueueSize \in Nat \ {0}

ASSUME WorkersAssumption == IsFiniteSet(Workers)

VARIABLES reader,       \* where Run is
          worker,       \* per worker, where runWorker is
          packets,      \* the buffer of the channel
          chanClosed,   \* close(packets) was called
          ctxDone,      \* the main goroutine called cancel()
          cleanupDue,   \* a tick waits in ticker.C
          statsDue,     \* a tick waits in statsTicker.C
          queueDepth,   \* the gauge
          stats,        \* runtimeStats
          connOpen      \* the UDP socket is open

vars == <<reader, worker, packets, chanClosed, ctxDone, cleanupDue, statsDue,
          queueDepth, stats, connOpen>>

readerVars == <<reader, chanClosed, connOpen>>
queueVars  == <<packets, queueDepth>>
ticks      == <<cleanupDue, statsDue>>

\* Reasons for which an engine outcome is counted, besides the errors.
Reasons == {"filtered", "duplicates", "passThrough", "alarms", "dedupDisabled"}

Counters == {"received", "queueDropped", "parseFailed", "handleFailed",
             "accepted", "forwarded", "forwardFailed"} \cup Reasons

Init == /\ reader = "select"
        /\ worker = [w \in Workers |-> "recv"]
        /\ packets = <<>>
        /\ chanClosed = FALSE
        /\ ctxDone = FALSE
        /\ cleanupDue = FALSE
        /\ statsDue = FALSE
        /\ queueDepth = 0
        /\ stats = [c \in Counters |-> 0]
        /\ connOpen = TRUE

Count(C) == stats' = [c \in Counters |-> IF c \in C THEN stats[c] + 1
                                         ELSE stats[c]]

-----------------------------------------------------------------------------
\* Run.  The select takes any case that is ready, and goes on if none is.

\* Mutant of SelectDone: the loop goes on after ctx is done.
SelectDoneGoesOn ==
    /\ reader = "select" /\ ctxDone
    /\ reader' = "read"
    /\ UNCHANGED <<worker, queueVars, chanClosed, ctxDone, ticks, stats, connOpen>>

SelectDone ==
    /\ reader = "select" /\ ctxDone
    /\ chanClosed' = TRUE
    /\ reader' = "wait"
    /\ UNCHANGED <<worker, queueVars, ctxDone, ticks, stats, connOpen>>

\* Mutant of SelectCleanup: the tick is not taken out of its channel.
SelectCleanupKeepsTick ==
    /\ reader = "select" /\ cleanupDue
    /\ reader' = "read"
    /\ UNCHANGED <<worker, queueVars, chanClosed, ctxDone, ticks, stats, connOpen>>

SelectCleanup ==
    /\ reader = "select" /\ cleanupDue
    /\ cleanupDue' = FALSE
    /\ reader' = "read"
    /\ UNCHANGED <<worker, queueVars, chanClosed, ctxDone, statsDue, stats,
                   connOpen>>

SelectStats ==
    /\ reader = "select" /\ statsDue
    /\ statsDue' = FALSE
    /\ reader' = "read"
    /\ UNCHANGED <<worker, queueVars, chanClosed, ctxDone, cleanupDue, stats,
                   connOpen>>

SelectDefault ==
    /\ reader = "select" /\ ~ctxDone /\ ~cleanupDue /\ ~statsDue
    /\ reader' = "read"
    /\ UNCHANGED <<worker, queueVars, chanClosed, ctxDone, ticks, stats, connOpen>>

\* ReadFromUDP: the 500 ms deadline passes, ...
ReadTimeout ==
    /\ reader = "read"
    /\ reader' = "select"
    /\ UNCHANGED <<worker, queueVars, chanClosed, ctxDone, ticks, stats, connOpen>>

\* ... a datagram arrives, ...
ReadPacket ==
    /\ reader = "read"
    /\ stats["received"] < MaxReceived
    /\ Count({"received"})
    /\ reader' = "offer"
    /\ UNCHANGED <<worker, queueVars, chanClosed, ctxDone, ticks, connOpen>>

\* ... or the socket fails.  Run returns, which runs its deferred calls: it waits
\* for the workers before it closes the socket.
ReadError ==
    /\ reader = "read"
    /\ reader' = IF ctxDone THEN "wait" ELSE "failed"
    /\ UNCHANGED <<worker, queueVars, chanClosed, ctxDone, ticks, stats, connOpen>>

\* Mutant of Enqueue: the channel takes one packet too many.
EnqueueOneMore ==
    /\ reader = "offer"
    /\ Len(packets) <= QueueSize
    /\ packets' = Append(packets, stats["received"])
    /\ reader' = "depth"
    /\ UNCHANGED <<worker, chanClosed, ctxDone, ticks, queueDepth, stats, connOpen>>

Enqueue ==
    /\ reader = "offer"
    /\ Len(packets) < QueueSize
    /\ packets' = Append(packets, stats["received"])
    /\ reader' = "depth"
    /\ UNCHANGED <<worker, chanClosed, ctxDone, ticks, queueDepth, stats, connOpen>>

\* The gauge is raised after the channel already has the packet.
RaiseDepth ==
    /\ reader = "depth"
    /\ queueDepth' = queueDepth + 1
    /\ reader' = "select"
    /\ UNCHANGED <<worker, packets, chanClosed, ctxDone, ticks, stats, connOpen>>

\* Mutant of DropPacket: a dropped datagram is not counted.
DropSilently ==
    /\ reader = "offer"
    /\ Len(packets) >= QueueSize
    /\ reader' = "select"
    /\ UNCHANGED <<worker, queueVars, chanClosed, ctxDone, ticks, stats, connOpen>>

DropPacket ==
    /\ reader = "offer"
    /\ Len(packets) >= QueueSize
    /\ Count({"queueDropped"})
    /\ reader' = "select"
    /\ UNCHANGED <<worker, queueVars, chanClosed, ctxDone, ticks, connOpen>>

\* Mutant of Return: Run does not wait for the workers.
ReturnAtOnce ==
    /\ reader \in {"wait", "failed"}
    /\ reader' = "returned"
    /\ connOpen' = FALSE
    /\ UNCHANGED <<worker, queueVars, chanClosed, ctxDone, ticks, stats>>

\* workers.Wait() ends, conn.Close() runs, Run returns to the main goroutine.
Return ==
    /\ reader \in {"wait", "failed"}
    /\ \A w \in Workers : worker[w] = "exited"
    /\ reader' = "returned"
    /\ connOpen' = FALSE
    /\ UNCHANGED <<worker, queueVars, chanClosed, ctxDone, ticks, stats>>

Reader == \/ SelectDone \/ SelectCleanup \/ SelectStats \/ SelectDefault
          \/ ReadTimeout \/ ReadPacket \/ ReadError
          \/ Enqueue \/ RaiseDepth \/ DropPacket
          \/ Return

-----------------------------------------------------------------------------
\* runWorker.  Its select may take a packet although ctx is done.

WorkerDone(w) ==
    /\ worker[w] = "recv" /\ ctxDone
    /\ worker' = [worker EXCEPT ![w] = "exited"]
    /\ UNCHANGED <<readerVars, queueVars, ctxDone, ticks, stats>>

WorkerChanClosed(w) ==
    /\ worker[w] = "recv" /\ chanClosed /\ packets = <<>>
    /\ worker' = [worker EXCEPT ![w] = "exited"]
    /\ UNCHANGED <<readerVars, queueVars, ctxDone, ticks, stats>>

WorkerReceive(w) ==
    /\ worker[w] = "recv" /\ packets # <<>>
    /\ packets' = Tail(packets)
    /\ worker' = [worker EXCEPT ![w] = "depth"]
    /\ UNCHANGED <<readerVars, queueDepth, ctxDone, ticks, stats>>

\* Mutant of LowerDepth: the gauge is not lowered.
DepthNotLowered(w) ==
    /\ worker[w] = "depth"
    /\ worker' = [worker EXCEPT ![w] = "process"]
    /\ UNCHANGED <<readerVars, queueVars, ctxDone, ticks, stats>>

LowerDepth(w) ==
    /\ worker[w] = "depth"
    /\ queueDepth' = queueDepth - 1
    /\ worker' = [worker EXCEPT ![w] = "process"]
    /\ UNCHANGED <<readerVars, packets, ctxDone, ticks, stats>>

\* What recordOutcome adds for an outcome with a reason.
recordOutcome(reason) ==
    {reason} \cup (IF reason \in {"passThrough", "alarms", "dedupDisabled"}
                   THEN {"accepted", "forwarded"} ELSE {})

\* Mutant of processPacket: runWorker returns on a packet that cannot be handled.
WorkerStopsOnError(w) ==
    /\ worker[w] = "process"
    /\ \/ Count({"handleFailed"}) /\ worker' = [worker EXCEPT ![w] = "exited"]
       \/ \E reason \in Reasons : /\ Count(recordOutcome(reason))
                                  /\ worker' = [worker EXCEPT ![w] = "recv"]
    /\ UNCHANGED <<readerVars, queueVars, ctxDone, ticks>>

\* The counters of processPacket, for every way the engine can answer.
processPacket(w) ==
    /\ worker[w] = "process"
    /\ \/ Count({"parseFailed"})
       \/ Count({"handleFailed"})
       \/ Count({"handleFailed", "forwardFailed"})
       \/ \E reason \in Reasons : Count(recordOutcome(reason))
    /\ worker' = [worker EXCEPT ![w] = "recv"]
    /\ UNCHANGED <<readerVars, queueVars, ctxDone, ticks>>

Worker(w) == \/ WorkerDone(w) \/ WorkerChanClosed(w) \/ WorkerReceive(w)
             \/ LowerDepth(w) \/ processPacket(w)

-----------------------------------------------------------------------------
\* The tickers, and cancel() in the main goroutine.

CleanupFires == /\ ~cleanupDue /\ cleanupDue' = TRUE
                /\ UNCHANGED <<readerVars, worker, queueVars, ctxDone, statsDue,
                               stats>>

StatsFires == /\ ~statsDue /\ statsDue' = TRUE
              /\ UNCHANGED <<readerVars, worker, queueVars, ctxDone, cleanupDue,
                             stats>>

Cancel == /\ ~ctxDone /\ ctxDone' = TRUE
          /\ UNCHANGED <<readerVars, worker, queueVars, ticks, stats>>

Next == \/ Reader
        \/ \E w \in Workers : Worker(w)
        \/ CleanupFires \/ StatsFires \/ Cancel

\* Every goroutine that can run runs.  A select chooses uniformly among its ready
\* cases, so a case that is ready again and again is taken: this is strong
\* fairness of each case.
Fairness == /\ WF_vars(Reader)
            /\ SF_vars(SelectDone)
            /\ SF_vars(SelectCleanup)
            /\ SF_vars(SelectStats)
            /\ \A w \in Workers : WF_vars(Worker(w)) /\ SF_vars(WorkerDone(w))

Spec == Init /\ [][Next]_vars

FairSpec == Spec /\ Fairness

-----------------------------------------------------------------------------
\* Properties

\* Type invariant.
TypeOK ==
    /\ reader \in {"select", "read", "offer", "depth", "wait", "failed", "returned"}
    /\ worker \in [Workers -> {"recv", "depth", "process", "exited"}]
    /\ packets \in Seq(Nat) /\ Len(packets) <= QueueSize
    /\ {chanClosed, ctxDone, cleanupDue, statsDue, connOpen} \subseteq BOOLEAN
    /\ queueDepth \in Int
    /\ stats \in [Counters -> Nat]

At(pc) == Cardinality({w \in Workers : worker[w] = pc})

IfAt(pc) == IF reader = pc THEN 1 ELSE 0

\* The datagrams that were dropped or handled.
Settled == stats["queueDropped"] + stats["parseFailed"] + stats["handleFailed"]
           + stats["filtered"] + stats["duplicates"] + stats["passThrough"]
           + stats["alarms"] + stats["dedupDisabled"]

\* Every datagram read is dropped, queued, in the hands of the reader or of one
\* worker, or counted under exactly one outcome: none is lost or counted twice
\* (until shutdown, which leaves what is queued).
EveryPacketAccounted ==
    stats["received"] =
        IfAt("offer") + Len(packets) + At("depth") + At("process") + Settled

\* The gauge is the length of the queue, except for the packet whose increment or
\* decrement is still to come.
DepthTracksQueue ==
    queueDepth = Len(packets) - IfAt("depth") + At("depth")

\* Once Run has closed the socket, nothing is done behind the back of the main
\* goroutine, which goes on to close the forwarder, the files and the metrics
\* endpoint: no worker takes another step, takes a packet or adds to a counter.
QuietAfterReturn ==
    [][(~connOpen \/ reader = "returned") =>
          UNCHANGED <<worker, packets, queueDepth, stats>>]_vars

\* After cancel() Run returns, whatever the reader and the workers were doing: the
\* main goroutine waits for it.
ShutdownReturns == ctxDone ~> reader = "returned"

\* Until cancel() every datagram that was read is dropped at once or handled in the
\* end, whatever became of the ones before it, and even if the socket has failed.
EveryPacketSettled ==
    \A n \in 1 .. MaxReceived :
        stats["received"] >= n ~> Settled >= n \/ ctxDone

\* A cleanup tick is served as long as the reader reads: a flood of datagrams does
\* not starve the expiry of the dedup store.
CleanupServed == cleanupDue ~> (~cleanupDue \/ reader \in {"wait", "failed", "returned"})

\* main.go answers an error of Run with exit code 1, so that the service manager
\* restarts the relay: when the socket fails, Run returns.
FatalReadReturns == reader = "failed" ~> reader = "returned"
=============================================================================
