----------------------------- MODULE ServerProofs -----------------------------
(***************************************************************************)
(* The server for any number of workers, any queue and any traffic: every  *)
(* datagram is accounted for, the gauge follows the queue, and nothing is  *)
(* done any more once Run has returned.                                    *)
(*                                                                         *)
(* The first two are equations between counters, the length of the queue   *)
(* and the number of workers at a point of runWorker.  They need no more   *)
(* than the type invariant; the work is in counting workers, which the     *)
(* lemma Moves does once for all of their steps.                           *)
(***************************************************************************)
EXTENDS Server, FiniteSetTheorems, SequenceTheorems, TLAPS

PCs == {"recv", "depth", "process", "exited"}

\* The number of workers at a place is a number.
LEMMA AtType == ASSUME NEW pc PROVE At(pc) \in Nat
<1>1. {w \in Workers : worker[w] = pc} \in SUBSET Workers
    OBVIOUS
<1> QED
    BY <1>1, WorkersAssumption, FS_Subset, FS_CardinalityType DEF At

\* A worker that goes from one place to another is one less here and one more there.
LEMMA Moves ==
    ASSUME NEW w \in Workers, NEW to, worker \in [Workers -> PCs],
           worker[w] # to, worker' = [worker EXCEPT ![w] = to], NEW pc
    PROVE  At(pc)' = IF pc = worker[w] THEN At(pc) - 1
                     ELSE IF pc = to THEN At(pc) + 1 ELSE At(pc)
<1> DEFINE S == {v \in Workers : worker[v] = pc}
           T == {v \in Workers : worker'[v] = pc}
<1>1. IsFiniteSet(S)
  <2>1. S \in SUBSET Workers
      OBVIOUS
  <2> QED
      BY <2>1, WorkersAssumption, FS_Subset
<1>2. T = IF pc = worker[w] THEN S \ {w} ELSE IF pc = to THEN S \cup {w} ELSE S
    OBVIOUS
<1>3. w \in S <=> pc = worker[w]
    OBVIOUS
<1>4. At(pc) = Cardinality(S) /\ At(pc)' = Cardinality(T)
    BY DEF At
<1> HIDE DEF S, T
<1> QED
    BY <1>1, <1>2, <1>3, <1>4, FS_AddElement, FS_RemoveElement

\* A step in which no worker moves.
LEMMA Stay == ASSUME UNCHANGED worker, NEW pc PROVE At(pc)' = At(pc)
    BY DEF At

-----------------------------------------------------------------------------

\* A counter goes up by one or stays.
LEMMA CountType ==
    ASSUME stats \in [Counters -> Nat], NEW C, Count(C)
    PROVE  /\ stats' \in [Counters -> Nat]
           /\ \A c \in Counters : stats'[c] = IF c \in C THEN stats[c] + 1
                                              ELSE stats[c]
    BY DEF Count

\* The initial states.
LEMMA TypeInit == Init => TypeOK
<1> SUFFICES ASSUME Init PROVE TypeOK
    OBVIOUS
<1>1. packets \in Seq(Nat) /\ Len(packets) <= QueueSize
    BY QueueSizeAssumption DEF Init
<1>2. {chanClosed, ctxDone, cleanupDue, statsDue, connOpen} \subseteq BOOLEAN
    BY DEF Init
<1> QED
    BY <1>1, <1>2 DEF Init, TypeOK

\* Every step of the reader, of the workers, of the tickers and of main keeps the
\* types, and the channel within its capacity.
LEMMA TypeStep == TypeOK /\ [Next]_vars => TypeOK'
<1> SUFFICES ASSUME TypeOK, [Next]_vars PROVE TypeOK'
    OBVIOUS
<1> USE DEF readerVars, queueVars, ticks
<1>1. CASE SelectDone \/ SelectCleanup \/ SelectStats \/ SelectDefault
    BY <1>1 DEF TypeOK, SelectDone, SelectCleanup, SelectStats, SelectDefault
<1>2. CASE ReadTimeout \/ ReadError \/ RaiseDepth
    BY <1>2 DEF TypeOK, ReadTimeout, ReadError, RaiseDepth
<1>9. CASE Return
    BY <1>9 DEF TypeOK, Return
<1>3. CASE ReadPacket \/ DropPacket
  <2>1. stats' \in [Counters -> Nat]
      BY <1>3, CountType DEF TypeOK, ReadPacket, DropPacket
  <2> QED
      BY <1>3, <2>1 DEF TypeOK, ReadPacket, DropPacket
<1>4. CASE Enqueue
  <2>1. stats["received"] \in Nat
      BY DEF TypeOK, Counters
  <2>2. /\ packets' \in Seq(Nat) /\ Len(packets') = Len(packets) + 1
        /\ Len(packets) \in Nat
      BY <1>4, <2>1, AppendProperties, LenProperties DEF TypeOK, Enqueue
  <2> QED
      BY <1>4, <2>2, QueueSizeAssumption DEF TypeOK, Enqueue
<1>5. ASSUME NEW w \in Workers, WorkerReceive(w) PROVE TypeOK'
  <2>1. /\ packets' \in Seq(Nat) /\ Len(packets') = Len(packets) - 1
        /\ Len(packets) \in Nat
      BY <1>5, HeadTailProperties, LenProperties DEF TypeOK, WorkerReceive
  <2> QED
      BY <1>5, <2>1, QueueSizeAssumption DEF TypeOK, WorkerReceive
<1>6. ASSUME NEW w \in Workers, processPacket(w) PROVE TypeOK'
  <2>1. PICK C : Count(C)
      BY <1>6 DEF processPacket
  <2>2. stats' \in [Counters -> Nat]
      BY <2>1, CountType DEF TypeOK
  <2> QED
      BY <1>6, <2>2 DEF TypeOK, processPacket
<1>7. ASSUME NEW w \in Workers, WorkerDone(w) \/ WorkerChanClosed(w) \/ LowerDepth(w)
      PROVE  TypeOK'
    BY <1>7 DEF TypeOK, WorkerDone, WorkerChanClosed, LowerDepth
<1>8. CASE CleanupFires \/ StatsFires \/ Cancel \/ UNCHANGED vars
    BY <1>8 DEF TypeOK, CleanupFires, StatsFires, Cancel, vars
<1> QED
    BY <1>1, <1>2, <1>3, <1>4, <1>5, <1>6, <1>7, <1>8, <1>9 DEF Next, Reader, Worker

\* The channel never has more than server.queue_size packets, and every goroutine
\* is at one of its places.
THEOREM TypeCorrect == Spec => []TypeOK
    BY TypeInit, TypeStep, PTL DEF Spec

-----------------------------------------------------------------------------
\* Every datagram is accounted for.

\* The counters of the datagrams that are settled: each of them is under one.
Outcomes == {"queueDropped", "parseFailed", "handleFailed", "filtered", "duplicates",
             "passThrough", "alarms", "dedupDisabled"}

\* Counting one outcome settles one datagram.
LEMMA CountSettles ==
    ASSUME stats \in [Counters -> Nat], NEW C, Count(C), NEW o \in Outcomes,
           C \cap Outcomes = {o}, "received" \notin C
    PROVE  Settled' = Settled + 1 /\ stats'["received"] = stats["received"]
<1>1. \A c \in Outcomes \cup {"received"} : stats[c] \in Nat
    BY DEF Outcomes, Counters, Reasons
<1>2. \A c \in Outcomes \cup {"received"} :
         stats'[c] = IF c = o THEN stats[c] + 1 ELSE stats[c]
    BY CountType DEF Outcomes, Counters, Reasons
<1> QED
    BY <1>1, <1>2 DEF Settled, Outcomes

\* The counters processPacket adds to settle the worker's datagram, whatever the
\* engine answered.
LEMMA ProcessSettles ==
    ASSUME TypeOK, NEW w \in Workers, processPacket(w)
    PROVE  Settled' = Settled + 1 /\ stats'["received"] = stats["received"]
<1>1. PICK C : /\ Count(C) /\ "received" \notin C
               /\ \E o \in Outcomes : C \cap Outcomes = {o}
  <2>1. CASE Count({"parseFailed"})
      BY <2>1 DEF Outcomes
  <2>2. CASE Count({"handleFailed"})
      BY <2>2 DEF Outcomes
  <2>3. CASE Count({"handleFailed", "forwardFailed"})
      BY <2>3 DEF Outcomes
  <2>4. ASSUME NEW reason \in Reasons, Count(recordOutcome(reason))
        PROVE  \E C : /\ Count(C) /\ "received" \notin C
                      /\ \E o \in Outcomes : C \cap Outcomes = {o}
    <3>1. /\ reason \in Outcomes /\ "received" \notin recordOutcome(reason)
          /\ recordOutcome(reason) \cap Outcomes = {reason}
        BY DEF Reasons, Outcomes, recordOutcome
    <3> QED
        BY <2>4, <3>1
  <2> QED
      BY <2>1, <2>2, <2>3, <2>4 DEF processPacket
<1> QED
    BY <1>1, CountSettles DEF TypeOK

\* What one step does to the terms of the two equations is all that matters.
LEMMA AccountedStep ==
    TypeOK /\ EveryPacketAccounted /\ [Next]_vars => EveryPacketAccounted'
<1> SUFFICES ASSUME TypeOK, EveryPacketAccounted, [Next]_vars
             PROVE  EveryPacketAccounted'
    OBVIOUS
<1> USE DEF readerVars, queueVars, ticks
<1>t. /\ packets \in Seq(Nat)
      /\ worker \in [Workers -> PCs]
      /\ stats \in [Counters -> Nat]
    BY DEF TypeOK, PCs
<1>n. /\ Len(packets) \in Nat /\ Settled \in Nat /\ stats["received"] \in Nat
      /\ At("depth") \in Nat /\ At("process") \in Nat /\ IfAt("offer") \in Nat
  <2>1. \A c \in Outcomes \cup {"received"} : stats[c] \in Nat
      BY <1>t DEF Outcomes, Counters, Reasons
  <2>2. Settled \in Nat
      BY <2>1 DEF Settled, Outcomes
  <2>3. IfAt("offer") \in Nat
      BY DEF IfAt
  <2> QED
      BY <1>t, <2>1, <2>2, <2>3, AtType, LenProperties
<1>a. stats["received"] = IfAt("offer") + Len(packets) + At("depth")
                          + At("process") + Settled
    BY DEF EveryPacketAccounted
<1>u. ASSUME UNCHANGED <<worker, packets, stats>>, IfAt("offer")' = IfAt("offer")
      PROVE  EveryPacketAccounted'
    BY <1>u, Stay DEF EveryPacketAccounted, Settled
<1>1. CASE \/ SelectDone \/ SelectCleanup \/ SelectStats \/ SelectDefault
           \/ ReadTimeout \/ ReadError \/ RaiseDepth \/ Return
    BY <1>1, <1>u DEF SelectDone, SelectCleanup, SelectStats, SelectDefault,
                      ReadTimeout, ReadError, RaiseDepth, Return, IfAt
<1>2. CASE ReadPacket
  <2>0. Count({"received"})
      BY <1>2 DEF ReadPacket
  <2>1. /\ stats'["received"] = stats["received"] + 1
        /\ \A c \in Outcomes : stats'[c] = stats[c]
    <3>1. \A c \in Counters : stats'[c] = IF c \in {"received"} THEN stats[c] + 1
                                            ELSE stats[c]
        BY <2>0, <1>t, CountType
    <3>2. "received" \in Counters /\ Outcomes \subseteq Counters \ {"received"}
        BY DEF Counters, Outcomes, Reasons
    <3> QED
        BY <3>1, <3>2
  <2>2. Settled' = Settled
      BY <2>1 DEF Settled, Outcomes
  <2> QED
      BY <1>2, <1>n, <1>a, <2>1, <2>2, Stay DEF ReadPacket, IfAt, EveryPacketAccounted
<1>3. CASE DropPacket
  <2>1. Settled' = Settled + 1 /\ stats'["received"] = stats["received"]
      BY <1>3, <1>t, CountSettles DEF DropPacket, Outcomes
  <2>2. IfAt("offer") = 1 /\ IfAt("offer")' = 0
      BY <1>3 DEF DropPacket, IfAt
  <2>3. /\ At("depth")' = At("depth") /\ At("process")' = At("process")
        /\ Len(packets)' = Len(packets)
      BY <1>3, Stay DEF DropPacket
  <2>4. stats["received"] = Len(packets) + At("depth") + At("process") + Settled'
      BY <1>n, <1>a, <2>1, <2>2
  <2>5. stats'["received"] = 0 + Len(packets)' + At("depth")' + At("process")' + Settled'
      BY <1>n, <2>1, <2>3, <2>4
  <2> QED
      BY <2>2, <2>5 DEF EveryPacketAccounted
<1>4. CASE Enqueue
  <2>1. Len(packets') = Len(packets) + 1
      BY <1>4, <1>t, AppendProperties DEF Enqueue
  <2> QED
      BY <1>4, <1>n, <1>a, <2>1, Stay DEF Enqueue, IfAt, EveryPacketAccounted, Settled
<1>5. ASSUME NEW w \in Workers, WorkerReceive(w) PROVE EveryPacketAccounted'
  <2>1. Len(packets') = Len(packets) - 1
      BY <1>5, <1>t, HeadTailProperties DEF WorkerReceive
  <2>2. At("depth")' = At("depth") + 1 /\ At("process")' = At("process")
      BY <1>5, <1>t, Moves DEF WorkerReceive
  <2>3. Settled' = Settled /\ IfAt("offer")' = IfAt("offer") /\ UNCHANGED stats
      BY <1>5 DEF WorkerReceive, Settled, IfAt
  <2> QED
      BY <1>n, <1>a, <2>1, <2>2, <2>3 DEF EveryPacketAccounted
<1>6. ASSUME NEW w \in Workers, LowerDepth(w) PROVE EveryPacketAccounted'
  <2>1. At("depth")' = At("depth") - 1 /\ At("process")' = At("process") + 1
      BY <1>6, <1>t, Moves DEF LowerDepth
  <2>2. /\ Settled' = Settled /\ IfAt("offer")' = IfAt("offer")
        /\ UNCHANGED <<stats, packets>>
      BY <1>6 DEF LowerDepth, Settled, IfAt
  <2> QED
      BY <1>n, <1>a, <2>1, <2>2 DEF EveryPacketAccounted
<1>7. ASSUME NEW w \in Workers, processPacket(w) PROVE EveryPacketAccounted'
  <2>1. At("depth")' = At("depth") /\ At("process")' = At("process") - 1
      BY <1>7, <1>t, Moves DEF processPacket
  <2>2. Settled' = Settled + 1 /\ stats'["received"] = stats["received"]
      BY <1>7, ProcessSettles
  <2>3. IfAt("offer")' = IfAt("offer") /\ Len(packets)' = Len(packets)
      BY <1>7 DEF processPacket, IfAt
  <2> QED
      BY <1>n, <1>a, <2>1, <2>2, <2>3 DEF EveryPacketAccounted
<1>8. ASSUME NEW w \in Workers, WorkerDone(w) \/ WorkerChanClosed(w)
      PROVE  EveryPacketAccounted'
  <2>1. At("depth")' = At("depth") /\ At("process")' = At("process")
      BY <1>8, <1>t, Moves DEF WorkerDone, WorkerChanClosed
  <2> QED
      BY <1>8, <2>1 DEF WorkerDone, WorkerChanClosed, IfAt, EveryPacketAccounted, Settled
<1>9. CASE CleanupFires \/ StatsFires \/ Cancel \/ UNCHANGED vars
    BY <1>9, <1>u DEF CleanupFires, StatsFires, Cancel, vars, IfAt
<1> QED
    BY <1>1, <1>2, <1>3, <1>4, <1>5, <1>6, <1>7, <1>8, <1>9 DEF Next, Reader, Worker

\* At the start nobody is anywhere.
LEMMA NobodyAt == ASSUME Init, NEW pc, pc # "recv" PROVE At(pc) = 0
<1>1. {w \in Workers : worker[w] = pc} = {}
    BY DEF Init
<1> QED
    BY <1>1, FS_EmptySet DEF At

\* However many workers there are and however full the queue is, no datagram is lost
\* or counted twice.
THEOREM PacketsConserved == Spec => []EveryPacketAccounted
<1>1. Init => EveryPacketAccounted
  <2> SUFFICES ASSUME Init PROVE EveryPacketAccounted
      OBVIOUS
  <2>1. At("depth") = 0 /\ At("process") = 0 /\ Len(packets) = 0 /\ IfAt("offer") = 0
      BY NobodyAt DEF Init, IfAt
  <2>2. \A c \in Outcomes \cup {"received"} : stats[c] = 0
      BY DEF Init, Outcomes, Counters, Reasons
  <2> QED
      BY <2>1, <2>2 DEF EveryPacketAccounted, Settled, Outcomes
<1> QED
    BY <1>1, AccountedStep, TypeCorrect, PTL DEF Spec

-----------------------------------------------------------------------------
\* The gauge follows the queue.

\* Each step of the reader or of a worker moves the queue and the gauge apart by the
\* one update that its goroutine does next.
LEMMA DepthStep == TypeOK /\ DepthTracksQueue /\ [Next]_vars => DepthTracksQueue'
<1> SUFFICES ASSUME TypeOK, DepthTracksQueue, [Next]_vars PROVE DepthTracksQueue'
    OBVIOUS
<1> USE DEF readerVars, queueVars, ticks
<1>t. packets \in Seq(Nat) /\ worker \in [Workers -> PCs]
    BY DEF TypeOK, PCs
<1>n. /\ Len(packets) \in Nat /\ queueDepth \in Int
      /\ At("depth") \in Nat /\ IfAt("depth") \in Nat
  <2>1. IfAt("depth") \in Nat
      BY DEF IfAt
  <2> QED
      BY <1>t, <2>1, AtType, LenProperties DEF TypeOK
<1>a. queueDepth = Len(packets) - IfAt("depth") + At("depth")
    BY DEF DepthTracksQueue
<1>u. ASSUME UNCHANGED <<packets, queueDepth>>, IfAt("depth")' = IfAt("depth"),
             At("depth")' = At("depth")
      PROVE  DepthTracksQueue'
    BY <1>u DEF DepthTracksQueue
<1>1. CASE \/ SelectDone \/ SelectCleanup \/ SelectStats \/ SelectDefault
           \/ ReadTimeout \/ ReadPacket \/ ReadError \/ DropPacket \/ Return
    BY <1>1, <1>u, Stay
       DEF SelectDone, SelectCleanup, SelectStats, SelectDefault, ReadTimeout,
           ReadPacket, ReadError, DropPacket, Return, IfAt
<1>2. CASE Enqueue
  <2>1. Len(packets') = Len(packets) + 1
    <3>1. stats["received"] \in Nat
        BY DEF TypeOK, Counters
    <3> QED
        BY <1>2, <1>t, <3>1, AppendProperties DEF Enqueue
  <2>2. IfAt("depth") = 0 /\ IfAt("depth")' = 1
      BY <1>2 DEF Enqueue, IfAt
  <2>3. At("depth")' = At("depth") /\ UNCHANGED queueDepth
      BY <1>2, Stay DEF Enqueue
  <2> QED
      BY <1>n, <1>a, <2>1, <2>2, <2>3 DEF DepthTracksQueue
<1>3. CASE RaiseDepth
  <2>1. IfAt("depth") = 1 /\ IfAt("depth")' = 0
      BY <1>3 DEF RaiseDepth, IfAt
  <2>2. /\ At("depth")' = At("depth") /\ UNCHANGED packets
        /\ queueDepth' = queueDepth + 1
      BY <1>3, Stay DEF RaiseDepth
  <2> QED
      BY <1>n, <1>a, <2>1, <2>2 DEF DepthTracksQueue
<1>4. ASSUME NEW w \in Workers, WorkerReceive(w) PROVE DepthTracksQueue'
  <2>1. Len(packets') = Len(packets) - 1
      BY <1>4, <1>t, HeadTailProperties DEF WorkerReceive
  <2>2. At("depth")' = At("depth") + 1
      BY <1>4, <1>t, Moves DEF WorkerReceive
  <2>3. IfAt("depth")' = IfAt("depth") /\ UNCHANGED queueDepth
      BY <1>4 DEF WorkerReceive, IfAt
  <2> QED
      BY <1>n, <1>a, <2>1, <2>2, <2>3 DEF DepthTracksQueue
<1>5. ASSUME NEW w \in Workers, LowerDepth(w) PROVE DepthTracksQueue'
  <2>1. At("depth")' = At("depth") - 1
      BY <1>5, <1>t, Moves DEF LowerDepth
  <2>2. /\ IfAt("depth")' = IfAt("depth") /\ UNCHANGED packets
        /\ queueDepth' = queueDepth - 1
      BY <1>5 DEF LowerDepth, IfAt
  <2> QED
      BY <1>n, <1>a, <2>1, <2>2 DEF DepthTracksQueue
<1>6. ASSUME NEW w \in Workers,
             WorkerDone(w) \/ WorkerChanClosed(w) \/ processPacket(w)
      PROVE  DepthTracksQueue'
  <2>1. At("depth")' = At("depth")
      BY <1>6, <1>t, Moves DEF WorkerDone, WorkerChanClosed, processPacket
  <2> QED
      BY <1>6, <1>u, <2>1 DEF WorkerDone, WorkerChanClosed, processPacket, IfAt
<1>7. CASE CleanupFires \/ StatsFires \/ Cancel \/ UNCHANGED vars
    BY <1>7, <1>u, Stay DEF CleanupFires, StatsFires, Cancel, vars, IfAt
<1> QED
    BY <1>1, <1>2, <1>3, <1>4, <1>5, <1>6, <1>7 DEF Next, Reader, Worker

\* The gauge a scrape reads is off by at most the packets whose increment or
\* decrement is still to come: it never drifts, whatever the reader and the workers
\* interleave.
THEOREM DepthFollowsQueue == Spec => []DepthTracksQueue
<1>1. Init => DepthTracksQueue
  <2> SUFFICES ASSUME Init PROVE DepthTracksQueue
      OBVIOUS
  <2>1. At("depth") = 0 /\ Len(packets) = 0 /\ IfAt("depth") = 0 /\ queueDepth = 0
      BY NobodyAt DEF Init, IfAt
  <2> QED
      BY <2>1 DEF DepthTracksQueue
<1> QED
    BY <1>1, DepthStep, TypeCorrect, PTL DEF Spec

-----------------------------------------------------------------------------
\* Run returns after the workers.

\* The deferred calls of Run: the socket is closed when it returns and not before,
\* and by then every worker has left its loop for good.
ReturnInv ==
    /\ reader = "returned" <=> ~connOpen
    /\ reader = "returned" => \A w \in Workers : worker[w] = "exited"

\* A worker that left its loop never comes back, and only Return closes the socket.
LEMMA ReturnStep == TypeOK /\ ReturnInv /\ [Next]_vars => ReturnInv'
<1> SUFFICES ASSUME TypeOK, ReturnInv, [Next]_vars PROVE ReturnInv'
    OBVIOUS
<1> USE DEF readerVars, queueVars, ticks
<1>1. CASE Reader /\ ~Return
    BY <1>1 DEF ReturnInv, Reader, SelectDone, SelectCleanup, SelectStats,
                SelectDefault, ReadTimeout, ReadPacket, ReadError, Enqueue,
                RaiseDepth, DropPacket
<1>2. CASE Return
    BY <1>2 DEF ReturnInv, Return
<1>3. ASSUME NEW w \in Workers, Worker(w) PROVE ReturnInv'
  <2>1. worker[w] # "exited" /\ UNCHANGED <<reader, connOpen>>
      BY <1>3 DEF Worker, WorkerDone, WorkerChanClosed, WorkerReceive, LowerDepth,
                  processPacket
  <2> QED
      BY <2>1 DEF ReturnInv
<1>4. CASE CleanupFires \/ StatsFires \/ Cancel \/ UNCHANGED vars
    BY <1>4 DEF ReturnInv, CleanupFires, StatsFires, Cancel, vars
<1> QED
    BY <1>1, <1>2, <1>3, <1>4 DEF Next, Reader

\* main closes the forwarder and the files as soon as Run returned: however many
\* workers there are and whatever they were doing when the reader left its loop, none
\* of them moves after the socket is closed.
THEOREM QuietOnceReturned == Spec => QuietAfterReturn
<1>1. Init => ReturnInv
    BY DEF Init, ReturnInv
<1>2. TypeOK /\ ReturnInv /\ [Next]_vars =>
        [(~connOpen \/ reader = "returned") =>
            UNCHANGED <<worker, packets, queueDepth, stats>>]_vars
  <2> SUFFICES ASSUME ReturnInv, Next, ~connOpen \/ reader = "returned"
               PROVE  UNCHANGED <<worker, packets, queueDepth, stats>>
      BY DEF vars
  <2>1. reader = "returned" /\ \A w \in Workers : worker[w] = "exited"
      BY DEF ReturnInv
  <2>2. ~Reader
      BY <2>1 DEF Reader, SelectDone, SelectCleanup, SelectStats, SelectDefault,
                  ReadTimeout, ReadPacket, ReadError, Enqueue, RaiseDepth, DropPacket,
                  Return
  <2>3. \A w \in Workers : ~Worker(w)
      BY <2>1 DEF Worker, WorkerDone, WorkerChanClosed, WorkerReceive, LowerDepth,
                  processPacket
  <2> QED
      BY <2>2, <2>3 DEF Next, CleanupFires, StatsFires, Cancel, queueVars
<1> QED
    BY <1>1, <1>2, ReturnStep, TypeCorrect, PTL DEF Spec, QuietAfterReturn
=============================================================================
