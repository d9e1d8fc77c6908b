----------------------------- MODULE EngineProofs -----------------------------
(***************************************************************************)
(* The engine for every set of workers, every sequence of configurations,  *)
(* every limit and any traffic: its type invariant, the bound of the dedup *)
(* table, and, for a single worker, that a window is never restarted.      *)
(***************************************************************************)
EXTENDS Engine, FiniteSetTheorems, SequenceTheorems, WellFoundedInduction, TLAPS

-----------------------------------------------------------------------------
\* The methods of the store keep the table a finite map of DedupState records that
\* never outgrows the limit, for every key and every order of calls.

\* What every method of Store keeps, and what the engine relies on.
StoreInv == StoreTypeOK /\ StoreBounded

\* An empty table is a correct one (NewStore).
LEMMA StoreInitCorrect == StoreInit => StoreInv
<1> SUFFICES ASSUME StoreInit PROVE StoreInv
    OBVIOUS
<1>1. DOMAIN states = {}
    BY DEF StoreInit
<1>2. IsFiniteSet(DOMAIN states) /\ Cardinality(DOMAIN states) = 0
    BY <1>1, FS_EmptySet
<1>3. StoreTypeOK
    BY <1>1, <1>2 DEF StoreInit, StoreTypeOK
<1>4. StoreBounded
    BY <1>2, LimitAssumption DEF StoreBounded
<1> QED
    BY <1>3, <1>4 DEF StoreInv

\* Deleting entries, which is all Get, Clear and Cleanup ever do, keeps the
\* invariant and leaves the other entries as they were.
LEMMA WithoutCorrect ==
    ASSUME StoreInv, NEW K, states' = Without(K)
    PROVE  /\ StoreInv'
           /\ DOMAIN states' = DOMAIN states \ K
           /\ \A k \in DOMAIN states' : states'[k] = states[k]
<1>1. /\ DOMAIN states' = DOMAIN states \ K
      /\ \A k \in DOMAIN states' : states'[k] = states[k]
    BY DEF Without
<1>2. /\ IsFiniteSet(DOMAIN states')
      /\ Cardinality(DOMAIN states') <= Cardinality(DOMAIN states)
    BY <1>1, FS_Subset DEF StoreInv, StoreTypeOK
<1>3. /\ Cardinality(DOMAIN states') \in Nat
      /\ Cardinality(DOMAIN states) \in Nat
    BY <1>2, FS_CardinalityType DEF StoreInv, StoreTypeOK
<1>4. StoreTypeOK'
    BY <1>1, <1>2 DEF StoreInv, StoreTypeOK, Without
<1>5. StoreBounded'
    BY <1>2, <1>3, LimitAssumption DEF StoreInv, StoreBounded
<1> QED
    BY <1>1, <1>4, <1>5 DEF StoreInv

\* A step that does not touch the table.
LEMMA UnchangedCorrect ==
    ASSUME StoreInv, UNCHANGED states
    PROVE  StoreInv'
BY DEF StoreInv, StoreTypeOK, StoreBounded

\* Get deletes at most the expired entry it was asked for, and after a Get that
\* finds nothing the key is not in the table.
LEMMA GetCorrect ==
    ASSUME StoreInv, NEW k, NEW t, Get(k, t)
    PROVE  /\ StoreInv'
           /\ DOMAIN states' \subseteq DOMAIN states
           /\ \A x \in DOMAIN states' : states'[x] = states[x]
           /\ ~Found(k, t) => k \notin DOMAIN states'
<1>1. CASE k \in DOMAIN states /\ Expired(states[k], t)
    BY <1>1, WithoutCorrect DEF Get, Found
<1>2. CASE ~(k \in DOMAIN states /\ Expired(states[k], t))
    BY <1>2, UnchangedCorrect DEF Get, Found
<1> QED
    BY <1>1, <1>2

\* Clear deletes the entry of its key and leaves the others as they were.
LEMMA ClearCorrect ==
    ASSUME StoreInv, NEW k, Clear(k)
    PROVE  /\ StoreInv'
           /\ DOMAIN states' = DOMAIN states \ {k}
           /\ \A x \in DOMAIN states' : states'[x] = states[x]
BY WithoutCorrect DEF Clear

\* Cleanup deletes expired entries and leaves the others as they were.
LEMMA CleanupCorrect ==
    ASSUME StoreInv, NEW t, Cleanup(t)
    PROVE  /\ StoreInv'
           /\ DOMAIN states' \subseteq DOMAIN states
           /\ \A x \in DOMAIN states' : states'[x] = states[x]
<1> DEFINE K == {k \in DOMAIN states : Expired(states[k], t)}
<1>1. states' = Without(K)
    BY DEF Cleanup
<1> HIDE DEF K
<1> QED
    BY <1>1, WithoutCorrect

\* Touch counts a repetition: no entry comes or goes, and none changes its first
\* event.
LEMMA TouchCorrect ==
    ASSUME StoreInv, NEW k, NEW e, e.at \in Int, Touch(k, e)
    PROVE  /\ StoreInv'
           /\ DOMAIN states' = DOMAIN states
           /\ \A x \in DOMAIN states' : states'[x].first = states[x].first
<1>1. CASE k \notin DOMAIN states
    BY <1>1, UnchangedCorrect DEF Touch
<1>2. CASE k \in DOMAIN states
  <2>1. /\ states' = [states EXCEPT ![k] = Touched(states[k], e)]
        /\ states = [x \in DOMAIN states |-> states[x]]
        /\ \A x \in DOMAIN states : states[x] \in DedupState
      BY <1>2 DEF Touch, StoreInv, StoreTypeOK
  <2>2. /\ Touched(states[k], e) \in DedupState
        /\ Touched(states[k], e).first = states[k].first
    <3> DEFINE s == states[k]
               t == Touched(s, e)
    <3>1. s \in DedupState
        BY <1>2, <2>1
    <3> HIDE DEF s
    <3>2. t = [s EXCEPT !.lastSeenAt = e.at, !.suppressed = s.suppressed + 1]
        BY DEF Touched
    <3>3. s.suppressed + 1 \in Nat
        BY <3>1 DEF DedupState
    <3> HIDE DEF t
    <3> QED
        BY <3>1, <3>2, <3>3 DEF DedupState, s, t
  <2>3. /\ DOMAIN states' = DOMAIN states
        /\ states' = [x \in DOMAIN states' |-> states'[x]]
        /\ states'[k] = Touched(states[k], e)
        /\ \A x \in DOMAIN states : x # k => states'[x] = states[x]
      BY <1>2, <2>1
  <2>4. StoreTypeOK'
      BY <2>1, <2>2, <2>3 DEF StoreInv, StoreTypeOK
  <2>5. StoreBounded'
      BY <2>3 DEF StoreInv, StoreBounded
  <2> QED
      BY <2>2, <2>3, <2>4, <2>5 DEF StoreInv
<1> QED
    BY <1>1, <1>2

\* Put makes room before it inserts, so the table does not outgrow the limit,
\* whether or not the key was in it.
LEMMA PutCorrect ==
    ASSUME StoreInv, NEW k, NEW e, NEW ttl, NEW hold,
           e.id \in Nat, e.at \in Int, ttl \in Int, hold \in BOOLEAN,
           Put(k, e, ttl, hold)
    PROVE  /\ StoreInv'
           /\ DOMAIN states' \subseteq DOMAIN states \cup {k}
           /\ \A x \in DOMAIN states' : x # k => states'[x] = states[x]
<1>1. PICK kept \in Room :
         states' = [x \in kept \cup {k} |->
                      IF x = k THEN NewState(e, ttl, hold) ELSE states[x]]
    BY DEF Put
<1>2. /\ DOMAIN states' = kept \cup {k}
      /\ states'[k] = NewState(e, ttl, hold)
      /\ \A x \in DOMAIN states' : x # k => states'[x] = states[x]
    BY <1>1
<1>3. kept \subseteq DOMAIN states
    BY DEF Room
<1>4. NewState(e, ttl, hold) \in DedupState
    BY DEF NewState, DedupState
<1>5. /\ IsFiniteSet(DOMAIN states) /\ Cardinality(DOMAIN states) \in Nat
      /\ IsFiniteSet(kept) /\ Cardinality(kept) \in Nat
      /\ Cardinality(kept) <= Cardinality(DOMAIN states)
    BY <1>3, FS_Subset, FS_CardinalityType DEF StoreInv, StoreTypeOK
<1>6. /\ IsFiniteSet(kept \cup {k}) /\ Cardinality(kept \cup {k}) \in Nat
      /\ Cardinality(kept \cup {k}) <= Cardinality(kept) + 1
  <2>1. /\ IsFiniteSet(kept \cup {k})
        /\ \/ Cardinality(kept \cup {k}) = Cardinality(kept)
           \/ Cardinality(kept \cup {k}) = Cardinality(kept) + 1
      BY <1>5, FS_AddElement
  <2> QED
      BY <1>5, <2>1
<1>7. StoreTypeOK'
    BY <1>1, <1>2, <1>3, <1>4, <1>6 DEF StoreInv, StoreTypeOK
<1>8. StoreBounded'
  <2> SUFFICES ASSUME Limit > 0
               PROVE  Cardinality(kept \cup {k}) <= Limit
      BY <1>2 DEF StoreBounded
  <2>1. CASE Cardinality(DOMAIN states) >= Limit
    <3>1. PICK v \in Oldest : kept = DOMAIN states \ {v}
        BY <2>1 DEF Room
    <3>2. v \in DOMAIN states
        BY DEF Oldest
    <3>3. Cardinality(kept) = Cardinality(DOMAIN states) - 1
        BY <1>5, <3>1, <3>2, FS_RemoveElement
    <3>4. Cardinality(DOMAIN states) <= Limit
        BY DEF StoreInv, StoreBounded
    <3> QED
        BY <1>5, <1>6, <3>3, <3>4, LimitAssumption
  <2>2. CASE ~(Cardinality(DOMAIN states) >= Limit)
      BY <1>5, <1>6, <2>2, LimitAssumption
  <2> QED
      BY <2>1, <2>2
<1> QED
    BY <1>2, <1>3, <1>7, <1>8 DEF StoreInv

-----------------------------------------------------------------------------
\* The rules, and the history

\* A set of naturals that is not empty has the minimum that FirstIndex takes.
LEMMA MinInSet == ASSUME NEW S \in SUBSET Nat, S # {} PROVE Min(S) \in S
<1>1. PICK m \in S : \A y \in S : ~(<<y, m>> \in OpToRel(<, Nat))
    BY WFMin, NatLessThanWellFounded
<1>2. \A y \in S : y < m => <<y, m>> \in OpToRel(<, Nat)
    BY DEF OpToRel
<1>3. \A y \in S : ~(y < m)
    BY <1>1, <1>2, Zenon
<1>4. \A y \in S : m <= y
    BY <1>3
<1> QED
    BY <1>4 DEF Min

\* The index FirstRule returns is 0 or one of the rules (the loop of matchAlarm).
LEMMA FirstRuleIndex ==
    ASSUME NEW event, NEW rules, Len(rules) \in Nat
    PROVE  FirstRule(event, rules) \in 0 .. Len(rules)
<1> DEFINE I == {i \in 1 .. Len(rules) : Matches(event, rules[i].match) # "no"}
<1>1. FirstRule(event, rules) = IF I # {} THEN Min(I) ELSE 0
    BY DEF FirstRule, FirstIndex
<1>2. I \in SUBSET Nat /\ I \subseteq 1 .. Len(rules)
    OBVIOUS
<1> HIDE DEF I
<1>3. I # {} => Min(I) \in I
    BY <1>2, MinInSet
<1>4. CASE I = {}
    BY <1>1, <1>4
<1>5. CASE I # {}
  <2>1. FirstRule(event, rules) = Min(I)
      BY <1>1, <1>5
  <2>2. Min(I) \in 1 .. Len(rules)
      BY <1>2, <1>3, <1>5
  <2> QED
      BY <2>1, <2>2
<1> QED
    BY <1>4, <1>5

\* An event that goes to the dedup store has an alarm rule of its configuration.
LEMMA RouteAlarm ==
    ASSUME NEW cfg, NEW event, Len(cfg.alarms) \in Nat,
           Route(cfg, event).to = "dedup"
    PROVE  Route(cfg, event).alarm \in 1 .. Len(cfg.alarms)
<1> DEFINE i == matchAlarm(cfg, event)
           route == Route(cfg, event)
<1>1. i \in 0 .. Len(cfg.alarms)
    BY FirstRuleIndex DEF matchAlarm
<1>2. i # 0 /\ route.alarm = i
    BY DEF Route
<1> QED
    BY <1>1, <1>2

\* What Append and EXCEPT make of the history.
LEMMA AppendSeq ==
    ASSUME NEW s, s \in Seq(Range(s)), NEW e
    PROVE  LET t == Append(s, e)
           IN  /\ t \in Seq(Range(t))
               /\ Len(s) \in Nat
               /\ Len(t) = Len(s) + 1
               /\ \A i \in 1 .. Len(s) : t[i] = s[i]
               /\ t[Len(s) + 1] = e
<1> DEFINE T == Range(s) \cup {e}
           t == Append(s, e)
<1>1. s \in Seq(T) /\ e \in T
    BY SeqMonotonic
<1>2. /\ t \in Seq(T)
      /\ Len(s) \in Nat
      /\ Len(t) = Len(s) + 1
      /\ \A i \in 1 .. Len(s) : t[i] = s[i]
      /\ t[Len(s) + 1] = e
    BY <1>1, AppendProperties, LenProperties
<1> HIDE DEF t
<1>3. t \in Seq(Range(t))
    BY <1>2, SeqOfRange
<1> QED
    BY <1>2, <1>3 DEF t

\* Replacing one element keeps the length and every other element.
LEMMA ExceptSeqRange ==
    ASSUME NEW s, s \in Seq(Range(s)), NEW i \in 1 .. Len(s), NEW e
    PROVE  LET t == [s EXCEPT ![i] = e]
           IN  /\ t \in Seq(Range(t))
               /\ Len(t) = Len(s)
               /\ t[i] = e
               /\ \A k \in 1 .. Len(s) : k # i => t[k] = s[k]
<1> DEFINE T == Range(s) \cup {e}
           t == [s EXCEPT ![i] = e]
<1>1. s \in Seq(T) /\ e \in T
    BY SeqMonotonic
<1>2. /\ t \in Seq(T)
      /\ Len(t) = Len(s)
      /\ t[i] = e
      /\ \A k \in 1 .. Len(s) : k # i => t[k] = s[k]
    BY <1>1, ExceptSeq
<1> HIDE DEF t
<1>3. t \in Seq(Range(t))
    BY <1>2, SeqOfRange
<1> QED
    BY <1>2, <1>3 DEF t

-----------------------------------------------------------------------------

\* The inductive invariant: no more than what the two theorems below say, because
\* TypeOK already ties the stack of a worker to the configuration it loaded.
Inv == TypeOK /\ StoreBounded

\* The relay starts with an empty store and idle workers.
LEMMA InvInit == Init => Inv
<1> SUFFICES ASSUME Init PROVE Inv
    OBVIOUS
<1>1. StoreTypeOK /\ StoreBounded
    BY StoreInitCorrect DEF Init, StoreInv
<1>2. now \in Nat /\ current \in Generations
    BY ConfigsAssumption DEF Init, Generations
<1>3. closed \in [alerts : Nat, forwarder : Nat]
    BY DEF Init
<1>4. DOMAIN job = Workers /\ \A w \in Workers : JobOK(job[w], Ids)
    BY DEF Init, JobOK, Idle, PCs
<1>5. events \in Seq(Range(events)) /\ \A i \in Ids : EventOK(events[i])
    BY EmptySeq DEF Init, Ids
<1> QED
    BY <1>1, <1>2, <1>3, <1>4, <1>5 DEF Inv, TypeOK

\* A step of worker w leaves the stacks of the other workers correct.
LEMMA JobStep ==
    ASSUME TypeOK, NEW w \in Workers, NEW j, NEW ids,
           job' = [job EXCEPT ![w] = j], JobOK(j, ids), Ids \subseteq ids
    PROVE  DOMAIN job' = Workers /\ \A v \in Workers : JobOK(job'[v], ids)
<1>1. DOMAIN job' = Workers /\ job'[w] = j
      /\ \A v \in Workers : v # w => job'[v] = job[v]
    BY DEF TypeOK
<1>2. \A v \in Workers : JobOK(job[v], ids)
    BY DEF TypeOK, JobOK
<1> QED
    BY <1>1, <1>2

\* A worker that returned to its loop is correct whatever has arrived.
LEMMA IdleOK == ASSUME NEW ids PROVE JobOK(Idle, ids)
BY DEF JobOK, Idle, PCs

\* Writing down what became of one event keeps the history correct.
LEMMA EventStep ==
    ASSUME TypeOK, NEW i \in Ids, NEW e, EventOK(e),
           events' = [events EXCEPT ![i] = e]
    PROVE  /\ events' \in Seq(Range(events'))
           /\ Ids' = Ids
           /\ \A k \in Ids' : EventOK(events'[k])
<1>1. events \in Seq(Range(events)) /\ i \in 1 .. Len(events)
    BY DEF TypeOK, Ids
<1> DEFINE t == [events EXCEPT ![i] = e]
<1>2. t \in Seq(Range(t))
    BY <1>1, ExceptSeqRange
<1>3. Len(t) = Len(events)
    BY <1>1, ExceptSeqRange
<1>4. t[i] = e
    BY <1>1, ExceptSeqRange
<1>5. \A k \in 1 .. Len(events) : k # i => t[k] = events[k]
    BY <1>1, ExceptSeqRange
<1> HIDE DEF t
<1>6. events' = t
    BY DEF t
<1> QED
    BY <1>1, <1>2, <1>3, <1>4, <1>5, <1>6 DEF TypeOK, Ids

\* A worker asks the dedup store only for an event with an alarm rule and a key.
LEMMA NextCallPC ==
    ASSUME NEW todo, NEW route
    PROVE  /\ NextCall(todo, route) \in {"clear", "get", "fail", "send"}
           /\ NextCall(todo, route) = "get" => route.to = "dedup"
BY DEF NextCall, AfterClears

\* A worker keeps Inv in a step in which it leaves the store, its stack and the
\* history of its event correct: what the step of each action below is shown from.
LEMMA WorkStep ==
    ASSUME TypeOK, StoreInv', UNCHANGED <<now, current, closed>>,
           NEW w \in Workers, job[w].pc # "idle",
           NEW j, JobOK(j, Ids), job' = [job EXCEPT ![w] = j],
           NEW e, EventOK(e),
           \/ events' = [events EXCEPT ![job[w].id] = e]
           \/ UNCHANGED events
    PROVE  Inv'
<1>1. job[w].id \in Ids
    BY DEF TypeOK, JobOK
<1>2. /\ events' \in Seq(Range(events'))
      /\ Ids' = Ids
      /\ \A k \in Ids' : EventOK(events'[k])
  <2>1. CASE events' = [events EXCEPT ![job[w].id] = e]
      BY <1>1, <2>1, EventStep
  <2>2. CASE UNCHANGED events
      BY <2>2 DEF TypeOK, Ids
  <2> QED
      BY <2>1, <2>2
<1>3. DOMAIN job' = Workers /\ \A v \in Workers : JobOK(job'[v], Ids)
    BY JobStep
<1> QED
    BY <1>2, <1>3 DEF Inv, TypeOK, StoreInv, Generations

\* Every step of every worker, of cleanup, of a reload and of the clock keeps Inv.
LEMMA InvStep == Inv /\ [Next]_vars => Inv'
<1> SUFFICES ASSUME Inv, [Next]_vars PROVE Inv'
    OBVIOUS
<1>s. StoreInv
    BY DEF Inv, TypeOK, StoreInv
<1>t. /\ now \in Nat /\ current \in Generations
      /\ closed \in [alerts : Nat, forwarder : Nat]
      /\ TypeOK
    BY DEF Inv, TypeOK
<1>1. ASSUME NEW w \in Workers, Parse(w) PROVE Inv'
  <2>1. PICK p \in Packets :
          IF p.valid
          THEN /\ events' = Append(events, Arrived)
               /\ job' = [job EXCEPT ![w] =
                    [Idle EXCEPT !.pc = "handle", !.at = now,
                       !.id = Len(events) + 1,
                       !.event = packetToEvent(p, Configs[current].aliases)]]
          ELSE /\ events' = Append(events,
                              [Arrived EXCEPT !.outcome = "parse_failed"])
               /\ UNCHANGED job
      BY <1>1 DEF Parse, ParsePacket
  <2>2. PICK e : EventOK(e) /\ events' = Append(events, e)
      BY <2>1 DEF EventOK, Arrived, EventFields, Outcomes
  <2>3. /\ events' \in Seq(Range(events'))
        /\ Len(events) \in Nat /\ Len(events') = Len(events) + 1
        /\ \A i \in 1 .. Len(events) : events'[i] = events[i]
        /\ events'[Len(events) + 1] = e
      BY <1>t, <2>2, AppendSeq DEF TypeOK
  <2>4. /\ Ids \subseteq Ids' /\ Len(events) + 1 \in Ids'
        /\ \A i \in Ids' : EventOK(events'[i])
      BY <1>t, <2>2, <2>3 DEF TypeOK, Ids
  <2>5. DOMAIN job' = Workers /\ \A v \in Workers : JobOK(job'[v], Ids')
    <3>1. CASE p.valid
      <4> DEFINE event == packetToEvent(p, Configs[current].aliases)
                 j == [Idle EXCEPT !.pc = "handle", !.at = now,
                         !.id = Len(events) + 1, !.event = event]
      <4>1. event \in Events
          BY <1>t DEF Events
      <4>2. JobOK(j, Ids')
        <5> HIDE DEF event
        <5> QED
          BY <1>t, <2>4, <4>1 DEF JobOK, Idle, PCs
      <4>3. job' = [job EXCEPT ![w] = j]
          BY <2>1, <3>1
      <4> HIDE DEF j
      <4> QED
          BY <1>t, <2>4, <4>2, <4>3, JobStep
    <3>2. CASE ~p.valid
        BY <1>t, <2>1, <2>4, <3>2 DEF TypeOK, JobOK
    <3> QED
        BY <3>1, <3>2
  <2>6. StoreInv' /\ UNCHANGED <<now, current, closed>>
      BY <1>1, <1>s, UnchangedCorrect DEF Parse, ParsePacket
  <2> QED
      BY <1>t, <2>3, <2>4, <2>5, <2>6 DEF Inv, TypeOK, StoreInv, Generations
<1>w. ASSUME NEW w \in Workers, job[w].pc # "idle"
      PROVE  /\ JobOK(job[w], Ids) /\ EventOK(events[job[w].id])
             /\ JobOK(Idle, Ids)
    BY <1>t, <1>w, IdleOK DEF TypeOK, JobOK
<1>f. ASSUME NEW w \in Workers, job[w].pc # "idle", UNCHANGED <<states, now, current, closed>>,
             NEW outcome \in Outcomes, Finish(w, outcome)
      PROVE  Inv'
  <2> DEFINE e == [events[job[w].id] EXCEPT !.outcome = outcome]
  <2>1. EventOK(e)
      BY <1>w, <1>f DEF EventOK, EventFields
  <2>2. job' = [job EXCEPT ![w] = Idle] /\ events' = [events EXCEPT ![job[w].id] = e]
      BY <1>f DEF Finish
  <2>3. StoreInv'
      BY <1>s, <1>f, UnchangedCorrect
  <2> HIDE DEF e
  <2> QED
      BY <1>t, <1>w, <1>f, <2>1, <2>2, <2>3, WorkStep
<1>2. ASSUME NEW w \in Workers, HandleEvent(w) PROVE Inv'
  <2> DEFINE h == Handling[current][job[w].event]
             j == [job[w] EXCEPT !.pc = NextCall(h.clears, h.route),
                                 !.gen = current, !.route = h.route,
                                 !.todo = h.clears]
             e == [events[job[w].id] EXCEPT !.gen = current, !.route = h.route]
  <2>1. /\ job[w].pc = "handle" /\ UNCHANGED <<states, now, current, closed>>
        /\ \/ h.filter = "error" /\ Finish(w, "handle_failed")
           \/ h.filter = "drop"  /\ Finish(w, "filtered")
           \/ /\ job' = [job EXCEPT ![w] = j]
              /\ events' = [events EXCEPT ![job[w].id] = e]
      BY <1>2 DEF HandleEvent, Ruling
  <2>2. job[w].event \in Events
      BY <1>t, <2>1 DEF TypeOK, JobOK
  <2>3. h.route = Route(Configs[current], job[w].event)
      BY <1>t, <2>2 DEF Handling
  <2>4. /\ Len(Configs[current].alarms) \in Nat
        /\ h.route.to = "dedup" => h.route.alarm \in 1 .. Len(Configs[current].alarms)
      BY <1>t, <2>3, RouteAlarm, ConfigsAssumption DEF Generations
  <2>5. CASE Finish(w, "handle_failed") \/ Finish(w, "filtered")
      BY <1>f, <2>1, <2>5 DEF Outcomes
  <2>6. CASE job' = [job EXCEPT ![w] = j] /\ events' = [events EXCEPT ![job[w].id] = e]
    <3> HIDE DEF h
    <3>1. JobOK(j, Ids)
        BY <1>t, <1>w, <2>1, <2>4, NextCallPC DEF JobOK, PCs, Idle
    <3>2. EventOK(e)
        BY <1>t, <1>w, <2>1, ConfigsAssumption DEF EventOK, EventFields, Generations
    <3>3. StoreInv'
        BY <1>s, <2>1, UnchangedCorrect
    <3> HIDE DEF j, e
    <3> QED
        BY <1>t, <2>1, <2>6, <3>1, <3>2, <3>3, WorkStep
  <2> QED
      BY <2>1, <2>5, <2>6
<1>3. ASSUME NEW w \in Workers, ApplyAlarmClearRule(w) PROVE Inv'
  <2> DEFINE todo == job[w].todo
             j == [job[w] EXCEPT !.todo = Rest(todo),
                                 !.pc = NextCall(Rest(todo), job[w].route),
                                 !.logged = @ \/ WritesAlert(w)]
             e == [events[job[w].id] EXCEPT !.cleared = @ \cup {NextKey(todo)},
                                            !.alerts = @ + AlertWritten(w)]
  <2>1. /\ job[w].pc = "clear" /\ Clear(NextKey(todo))
        /\ job' = [job EXCEPT ![w] = j]
        /\ events' = [events EXCEPT ![job[w].id] = e]
        /\ UNCHANGED <<now, current, closed>>
      BY <1>3 DEF ApplyAlarmClearRule
  <2>2. JobOK(j, Ids)
      BY <1>w, <2>1, NextCallPC DEF JobOK, PCs, Idle
  <2>3. EventOK(e)
      BY <1>w, <2>1 DEF EventOK, EventFields
  <2>4. StoreInv'
      BY <1>s, <2>1, ClearCorrect
  <2> HIDE DEF j, e
  <2> QED
      BY <1>t, <2>1, <2>2, <2>3, <2>4, WorkStep
<1>4. ASSUME NEW w \in Workers, FailMatch(w) PROVE Inv'
    BY <1>4, <1>f DEF FailMatch, Outcomes
<1>5. ASSUME NEW w \in Workers, DedupGet(w) PROVE Inv'
  <2> DEFINE key == job[w].route.key
             j == [job[w] EXCEPT !.pc =
                     IF Found(key, job[w].at) THEN "touch" ELSE "put"]
  <2>1. /\ job[w].pc = "get" /\ Get(key, job[w].at)
        /\ job' = [job EXCEPT ![w] = j]
        /\ UNCHANGED <<now, current, closed, events>>
      BY <1>5 DEF DedupGet
  <2>2. JobOK(j, Ids)
      BY <1>w, <2>1 DEF JobOK, PCs, Idle
  <2>3. StoreInv'
      BY <1>s, <2>1, GetCorrect
  <2> HIDE DEF j
  <2> QED
      BY <1>t, <1>w, <2>1, <2>2, <2>3, WorkStep
<1>6. ASSUME NEW w \in Workers, DedupTouch(w) PROVE Inv'
  <2> DEFINE key == job[w].route.key
             j == [job[w] EXCEPT !.pc = "put"]
             e == [events[job[w].id] EXCEPT !.outcome = "duplicate",
                                            !.first = states[key].first]
  <2>1. /\ job[w].pc = "touch" /\ Touch(key, job[w])
        /\ \/ job' = [job EXCEPT ![w] = Idle]
              /\ events' = [events EXCEPT ![job[w].id] = e]
           \/ job' = [job EXCEPT ![w] = j] /\ UNCHANGED events
        /\ UNCHANGED <<now, current, closed>>
      BY <1>6 DEF DedupTouch
  <2>2. JobOK(j, Ids) /\ job[w].at \in Int
      BY <1>w, <2>1 DEF JobOK, PCs, Idle
  <2>3. EventOK(e)
      BY <1>w, <2>1 DEF EventOK, EventFields, Outcomes
  <2>4. StoreInv'
      BY <1>s, <2>1, <2>2, TouchCorrect
  <2> HIDE DEF j, e
  <2> QED
      BY <1>t, <1>w, <2>1, <2>2, <2>3, <2>4, WorkStep
<1>7. ASSUME NEW w \in Workers, DedupPut(w) PROVE Inv'
  <2> DEFINE alarm == Configs[job[w].gen].alarms[job[w].route.alarm]
             j == [job[w] EXCEPT !.pc = "send"]
             e == [events[job[w].id] EXCEPT !.opened = now,
                     !.evicted = DOMAIN states \ DOMAIN states']
  <2>1. /\ job[w].pc = "put"
        /\ Put(job[w].route.key, job[w], alarm.ttl, alarm.hold)
        /\ job' = [job EXCEPT ![w] = j]
        /\ events' = [events EXCEPT ![job[w].id] = e]
        /\ UNCHANGED <<now, current, closed>>
      BY <1>7 DEF DedupPut
  <2>2. JobOK(j, Ids)
      BY <1>w, <2>1 DEF JobOK, PCs, Idle
  <2>3. EventOK(e)
      BY <1>w, <2>1 DEF EventOK, EventFields
  <2>4. job[w].at \in Int /\ job[w].id \in Nat
    <3>1. Len(events) \in Nat
        BY <1>t, LenProperties DEF TypeOK
    <3>2. job[w].at \in Nat /\ job[w].id \in 1 .. Len(events)
        BY <1>w, <2>1 DEF JobOK, Ids
    <3> QED
        BY <3>1, <3>2
  <2>5. alarm.ttl \in Int /\ alarm.hold \in BOOLEAN
      BY <1>w, <2>1, ConfigsAssumption DEF JobOK, Generations
  <2> HIDE DEF alarm
  <2>6. StoreInv'
      BY <1>s, <2>1, <2>4, <2>5, PutCorrect
  <2> HIDE DEF j, e
  <2> QED
      BY <1>t, <2>1, <2>2, <2>3, <2>6, WorkStep
<1>8. ASSUME NEW w \in Workers, Send(w) PROVE Inv'
  <2>1. PICK missed \in SUBSET Configs[job[w].gen].targets :
          /\ job' = [job EXCEPT ![w] = Idle]
          /\ events' = [events EXCEPT
                ![job[w].id].missed = missed,
                ![job[w].id].outcome = IF SendFails(missed)
                                       THEN "forward_failed"
                                       ELSE Forwarded(job[w].route),
                ![job[w].id].alerts = @ +
                   IF SendFails(missed) THEN 0
                   ELSE AlertWritten(w)]
      BY <1>8 DEF Send
  <2> DEFINE e == [events[job[w].id] EXCEPT
                     !.missed = missed,
                     !.outcome = IF SendFails(missed)
                                 THEN "forward_failed"
                                 ELSE Forwarded(job[w].route),
                     !.alerts = @ +
                        IF SendFails(missed) THEN 0
                        ELSE AlertWritten(w)]
  <2>2. /\ job[w].pc = "send" /\ UNCHANGED <<states, now, current, closed>>
      BY <1>8 DEF Send
  <2>5. events' = [events EXCEPT ![job[w].id] = e]
      BY <2>1
  <2>3. EventOK(e)
      BY <1>w, <2>2 DEF EventOK, EventFields, Outcomes, Forwarded
  <2>4. StoreInv'
      BY <1>s, <2>2, UnchangedCorrect
  <2> HIDE DEF e
  <2> QED
      BY <1>t, <1>w, <2>1, <2>2, <2>3, <2>4, <2>5, WorkStep
<1>9. CASE CleanupTick
  <2>1. PICK t \in {now - 1, now} : Cleanup(t)
      BY <1>9 DEF CleanupTick
  <2>2. StoreInv'
      BY <1>s, <2>1, CleanupCorrect
  <2> QED
      BY <1>t, <1>9, <2>2 DEF CleanupTick, Inv, TypeOK, StoreInv, Ids
<1>10. CASE Reload
    BY <1>t, <1>s, <1>10, ConfigsAssumption, UnchangedCorrect
       DEF Reload, Inv, TypeOK, StoreInv, Ids, Generations
<1>11. CASE CloseOldAlerts \/ CloseOldForwarder
  <2>1. closed' \in [alerts : Nat, forwarder : Nat]
      BY <1>t, <1>11, ConfigsAssumption
         DEF CloseOldAlerts, CloseOldForwarder, Generations
  <2> QED
      BY <1>t, <1>s, <1>11, <2>1, UnchangedCorrect
         DEF CloseOldAlerts, CloseOldForwarder, Inv, TypeOK, StoreInv, Ids
<1>12. CASE Tick
    BY <1>t, <1>s, <1>12, UnchangedCorrect
       DEF Tick, Inv, TypeOK, StoreInv, Ids
<1>13. CASE UNCHANGED vars
    BY <1>t, <1>s, <1>13, UnchangedCorrect
       DEF vars, Inv, TypeOK, StoreInv, Ids
<1> QED
    BY <1>1, <1>2, <1>3, <1>4, <1>5, <1>6, <1>7, <1>8, <1>9, <1>10, <1>11, <1>12, <1>13
       DEF Next, Work

\* A worker in the middle of HandleEvent handles an event that arrived, with an
\* alarm rule of the configuration it loaded, whatever reload comes in between.
THEOREM TypeCorrect == Spec => []TypeOK
<1>1. Inv => TypeOK
    BY DEF Inv
<1> QED
    BY InvInit, InvStep, <1>1, PTL DEF Spec

\* However the Get, Touch, Put and Clear calls of the workers interleave, the
\* table never has more than server.max_dedup_entries entries.
THEOREM Bounded == Spec => []StoreBounded
<1>1. Inv => StoreBounded
    BY DEF Inv
<1> QED
    BY InvInit, InvStep, <1>1, PTL DEF Spec

-----------------------------------------------------------------------------
\* With a single worker a window is never restarted.

\* Between a Get that found nothing and the Put after it, nobody else puts.
PutIsFresh == \A w \in Workers :
                 job[w].pc = "put" => job[w].route.key \notin DOMAIN states

\* server.worker_count is 1.
Alone == \A v, w \in Workers : v = w

\* Only a Put of an absent key adds an entry, and no other call changes the first
\* event of one: what a step does to the table when PutIsFresh holds.
LEMMA StableStep ==
    ASSUME Alone, Inv, PutIsFresh, [Next]_vars
    PROVE  /\ PutIsFresh'
           /\ \A k \in DOMAIN states \cap DOMAIN states' :
                 states'[k].first = states[k].first
<1> DEFINE Stable == \A k \in DOMAIN states \cap DOMAIN states' :
                        states'[k].first = states[k].first
<1>s. StoreInv /\ TypeOK /\ DOMAIN job = Workers
    BY DEF Inv, TypeOK, StoreInv
<1>u. ASSUME UNCHANGED <<states, job>> PROVE PutIsFresh' /\ Stable
    BY <1>u DEF PutIsFresh
<1>p. ASSUME NEW w \in Workers, job'[w].pc # "put" PROVE PutIsFresh'
    BY <1>p DEF PutIsFresh, Alone
<1>1. ASSUME NEW w \in Workers, Parse(w) PROVE PutIsFresh' /\ Stable
  <2>1. job[w].pc = "idle" /\ UNCHANGED states
      BY <1>1 DEF Parse, ParsePacket
  <2>2. \/ UNCHANGED job
        \/ \E event : job' = [job EXCEPT ![w] =
                       [Idle EXCEPT !.pc = "handle", !.at = now,
                          !.id = Len(events) + 1, !.event = event]]
      BY <1>1 DEF Parse, ParsePacket
  <2>3. job'[w].pc # "put"
      BY <1>s, <2>1, <2>2 DEF Idle
  <2> QED
      BY <1>p, <2>1, <2>3
<1>2. ASSUME NEW w \in Workers, HandleEvent(w) PROVE PutIsFresh' /\ Stable
  <2> DEFINE h == Handling[current][job[w].event]
  <2>1. \/ job' = [job EXCEPT ![w] = Idle]
        \/ job' = [job EXCEPT ![w].pc = NextCall(h.clears, h.route),
                              ![w].gen = current,
                              ![w].route = h.route,
                              ![w].todo = h.clears]
      BY <1>2 DEF HandleEvent, Ruling, Finish
  <2> HIDE DEF h
  <2>2. job'[w].pc # "put"
      BY <1>s, <2>1, NextCallPC DEF Idle, TypeOK, JobOK
  <2> QED
      BY <1>2, <1>p, <2>2 DEF HandleEvent, Ruling
<1>3. ASSUME NEW w \in Workers, ApplyAlarmClearRule(w) PROVE PutIsFresh' /\ Stable
  <2>1. /\ Clear(NextKey(job[w].todo))
        /\ job' = [job EXCEPT ![w].todo = Rest(job[w].todo),
                              ![w].pc = NextCall(Rest(job[w].todo), job[w].route),
                              ![w].logged = @ \/ WritesAlert(w)]
      BY <1>3 DEF ApplyAlarmClearRule
  <2>2. job'[w].pc # "put"
      BY <1>s, <2>1, NextCallPC DEF Idle, TypeOK, JobOK
  <2> QED
      BY <1>s, <1>p, <2>1, <2>2, ClearCorrect
<1>4. ASSUME NEW w \in Workers, FailMatch(w) \/ Send(w) PROVE PutIsFresh' /\ Stable
  <2>1. job' = [job EXCEPT ![w] = Idle] /\ UNCHANGED states
      BY <1>4 DEF FailMatch, Send, Finish
  <2>2. job'[w].pc # "put"
      BY <1>s, <2>1 DEF Idle
  <2> QED
      BY <1>p, <2>1, <2>2
<1>5. ASSUME NEW w \in Workers, DedupGet(w) PROVE PutIsFresh' /\ Stable
  <2> DEFINE key == job[w].route.key
  <2>1. /\ Get(key, job[w].at)
        /\ job' = [job EXCEPT ![w].pc =
                     IF Found(key, job[w].at) THEN "touch" ELSE "put"]
      BY <1>5 DEF DedupGet
  <2>2. /\ Stable
        /\ ~Found(key, job[w].at) => key \notin DOMAIN states'
      BY <1>s, <2>1, GetCorrect
  <2>3. /\ job'[w].pc = IF Found(key, job[w].at) THEN "touch" ELSE "put"
        /\ job'[w].route = job[w].route
      BY <1>s, <2>1 DEF TypeOK, JobOK, Idle
  <2>4. \A v \in Workers : v = w
      BY DEF Alone
  <2> QED
      BY <2>2, <2>3, <2>4 DEF PutIsFresh
<1>6. ASSUME NEW w \in Workers, DedupTouch(w) PROVE PutIsFresh' /\ Stable
  <2> DEFINE key == job[w].route.key
  <2>1. /\ job[w].pc = "touch" /\ Touch(key, job[w])
        /\ \/ job' = [job EXCEPT ![w] = Idle]
           \/ key \notin DOMAIN states /\ job' = [job EXCEPT ![w].pc = "put"]
      BY <1>6 DEF DedupTouch
  <2>2. job[w].at \in Int
      BY <1>s DEF TypeOK, JobOK
  <2>3. DOMAIN states' = DOMAIN states /\ Stable
      BY <1>s, <2>1, <2>2, TouchCorrect
  <2>4. \/ job'[w].pc # "put"
        \/ key \notin DOMAIN states /\ job'[w].route = job[w].route
      BY <1>s, <2>1 DEF TypeOK, JobOK, Idle
  <2>5. \A v \in Workers : v = w
      BY DEF Alone
  <2> QED
      BY <2>3, <2>4, <2>5 DEF PutIsFresh
<1>7. ASSUME NEW w \in Workers, DedupPut(w) PROVE PutIsFresh' /\ Stable
  <2> DEFINE key == job[w].route.key
             alarm == Configs[job[w].gen].alarms[job[w].route.alarm]
  <2>1. /\ job[w].pc = "put"
        /\ Put(key, job[w], alarm.ttl, alarm.hold)
        /\ job' = [job EXCEPT ![w].pc = "send"]
      BY <1>7 DEF DedupPut
  <2>2. job'[w].pc # "put"
      BY <1>s, <2>1 DEF TypeOK, JobOK, Idle
  <2>3. key \notin DOMAIN states
      BY <2>1 DEF PutIsFresh
  <2>4. Stable
      BY <2>1, <2>3 DEF Put, Room
  <2> QED
      BY <1>p, <2>2, <2>4
<1>8. CASE CleanupTick
  <2>1. PICK t \in {now - 1, now} : Cleanup(t)
      BY <1>8 DEF CleanupTick
  <2>2. Stable /\ DOMAIN states' \subseteq DOMAIN states
      BY <1>s, <2>1, CleanupCorrect
  <2> QED
      BY <1>8, <2>2 DEF CleanupTick, PutIsFresh
<1>9. CASE Reload \/ CloseOldAlerts \/ CloseOldForwarder \/ Tick \/ UNCHANGED vars
    BY <1>9, <1>u DEF Reload, CloseOldAlerts, CloseOldForwarder, Tick, vars
<1> QED
    BY <1>1, <1>2, <1>3, <1>4, <1>5, <1>6, <1>7, <1>8, <1>9 DEF Next, Work

\* With one worker, for every configuration, every traffic, every limit and any
\* number of reloads: no trap restarts a window that another one opened, although
\* HandleEvent holds no lock between Get and Put.
THEOREM WindowsNeverRestarted ==
    ASSUME Alone
    PROVE  Spec => FirstTrapStable
<1>1. Init => PutIsFresh
    BY DEF Init, PutIsFresh, Idle
<1>2. Inv /\ PutIsFresh /\ [Next]_vars => PutIsFresh'
    BY StableStep
<1>3. Inv /\ PutIsFresh /\ [Next]_vars =>
         [\A k \in DOMAIN states \cap DOMAIN states' :
             states'[k].first = states[k].first]_vars
    BY StableStep
<1> QED
    BY InvInit, InvStep, <1>1, <1>2, <1>3, PTL DEF Spec, FirstTrapStable
=============================================================================
