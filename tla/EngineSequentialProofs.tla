------------------------- MODULE EngineSequentialProofs -------------------------
(***************************************************************************)
(* Deduplication with a single worker (server.worker_count: 1), for any    *)
(* traffic, any number of reloads and every limit: the two promises of     *)
(* docs/configuration.md about the TTL window hold without exception, and  *)
(* the engine implements the windows of DedupWindows.                      *)
(***************************************************************************)
EXTENDS EngineWindowProofs, EngineWindows

-----------------------------------------------------------------------------
\* The invariant

\* The event in hand is the last one that was taken.
LastInHand == \A w \in Workers : Busy(w) => \A i \in Ids : i <= job[w].id

\* No event after the first one of an entry cleared its key.
Uncleared == \A k \in DOMAIN states, c \in Ids :
                c > states[k].first => k \notin events[c].cleared

\* The entry that Get found covers the event, or is gone, until Touch is called.
StillCovered == \A w \in Workers :
    LET k == job[w].route.key
    IN  (job[w].pc = "touch" /\ k \in DOMAIN states) =>
            ~Expired(states[k], job[w].at)

\* A window stays in the table until it is over, or a later event cleared or evicted
\* its key.
Stays == \A i \in Ids : Opened(i) =>
            \/ InTable(i)
            \/ ~InWindow(i, now)
            \/ \E c \in Ids : c > i /\ Removes(c, i)

\* The event a duplicate repeats is one of the history.
FirstKnown == \A j \in Ids : events[j].outcome = "duplicate" => events[j].first \in Ids

\* The inductive invariant of one worker.
OneWorkerInv == /\ PutIsFresh /\ LastInHand /\ Uncleared /\ StillCovered /\ Stays
                /\ FirstKnown /\ SuppressedInsideWindow /\ SuppressionJustified

-----------------------------------------------------------------------------
\* The invariant is inductive

\* The event in hand is the last one, and a worker that handles one takes no other.
LEMMA LastKept == ASSUME Alone, EngineInv, LastInHand, [Next]_vars PROVE LastInHand'
<1> SUFFICES ASSUME NEW w \in Workers, Busy(w)', NEW i \in Ids'
             PROVE  i <= job'[w].id
    BY DEF LastInHand
<1>t. TypeOK /\ HistoryInv
    BY DEF EngineInv, Inv
<1>1. ASSUME NEW v \in Workers, Takes(v) PROVE i <= job'[w].id
  <2>1. v = w
      BY DEF Alone
  <2>2. job'[w].id = Len(events) + 1 /\ Len(events) \in Nat
      BY <1>1, <2>1 DEF Takes, Busy
  <2>3. i \in 1 .. Len(events) \/ i = Len(events) + 1
      BY <1>1 DEF Takes, Ids
  <2> QED
      BY <2>2, <2>3
<1>2. ASSUME NEW v \in Workers, Busy(v), Alters(v) PROVE i <= job'[w].id
  <2>1. v = w
      BY DEF Alone
  <2> QED
      BY <1>2, <2>1 DEF Alters, Busy, LastInHand
<1>3. CASE Waits
    BY <1>3 DEF Waits, Busy, Ids, LastInHand
<1> QED
    BY <1>t, <1>1, <1>2, <1>3, NextIs

\* Only a Put adds an entry, and its first event is the last one.
LEMMA UnclearedKept ==
    ASSUME Alone, EngineInv, LastInHand, Uncleared, [Next]_vars PROVE Uncleared'
<1> SUFFICES ASSUME NEW k \in DOMAIN states', NEW c \in Ids', c > states'[k].first,
                    k \in events'[c].cleared
             PROVE  FALSE
    BY DEF Uncleared
<1>1. c \in Ids /\ k \in events[c].cleared
    BY ClearedBy
<1>2. CASE k \in DOMAIN states /\ SameWindow(states[k], states'[k])
    BY <1>1, <1>2 DEF SameWindow, Uncleared
<1>3. ASSUME NEW w \in Workers, Busy(w), Alters(w), Puts(w), job[w].route.key = k
      PROVE  FALSE
  <2>1. /\ states'[k].first = job[w].id /\ job[w].id \in Ids
        /\ c <= job[w].id
      BY <1>1, <1>3, PutWrites DEF LastInHand
  <2>2. c \in Nat /\ job[w].id \in Nat
      BY <1>1, <2>1 DEF Ids
  <2> QED
      BY <2>1, <2>2
<1> QED
    BY <1>2, <1>3, EntryStep

\* Between Get and Touch nobody else puts an entry.
LEMMA StillKept ==
    ASSUME Alone, EngineInv, StillCovered, [Next]_vars PROVE StillCovered'
<1> SUFFICES ASSUME NEW w \in Workers, job'[w].pc = "touch",
                    NEW k, k = job'[w].route.key, k \in DOMAIN states'
             PROVE  ~Expired(states'[k], job'[w].at)
    BY DEF StillCovered, Expired, ExpiresAt
<1>1. CASE job'[w] = job[w]
  <2>1. ~\E v \in Workers : Puts(v)
    <3>1. ~Puts(w)
        BY DEF Puts
    <3> QED
        BY <3>1 DEF Alone
  <2>2. k \in DOMAIN states /\ SameWindow(states[k], states'[k])
      BY <2>1, EntryStep
  <2>3. ~Expired(states[k], job[w].at)
      BY <1>1, <2>2 DEF StillCovered
  <2> QED
      BY <1>1, <2>2, <2>3 DEF SameWindow, Expired, ExpiresAt
<1>2. CASE Busy(w) /\ Alters(w) /\ Gets(w)
  <2>1. job'[w].at = job[w].at /\ k = job[w].route.key /\ Found(k, job[w].at)
      BY <1>2 DEF Gets, Alters
  <2>2. states' = states
      BY <1>2, <2>1 DEF Gets, Get, Found
  <2> QED
      BY <2>1, <2>2 DEF Found
<1> QED
    BY <1>1, <1>2, CallBy DEF Misses

\* The event in hand comes after an event that has opened a window.
LEMMA InHandLater ==
    ASSUME EngineInv, LastInHand, NEW w \in Workers, Busy(w), job[w].pc # "send",
           NEW i \in Ids, Opened(i)
    PROVE  job[w].id \in Ids /\ job[w].id > i
<1>1. job[w].id \in Ids /\ ~Opened(job[w].id)
    BY InHandLast
<1>2. i <= job[w].id /\ i # job[w].id
    BY <1>1 DEF LastInHand
<1>3. i \in Nat /\ job[w].id \in Nat
    BY <1>1 DEF Ids
<1> QED
    BY <1>1, <1>2, <1>3

\* A window leaves the table when it is over, or by a later event.
LEMMA StaysKept ==
    ASSUME Alone, EngineInv, EntryInv, OpenInv, PutIsFresh, LastInHand, Stays,
           [Next]_vars
    PROVE  Stays'
<1>t. now \in Nat /\ now' \in Nat /\ now <= now'
  <2>1. now \in Nat /\ TypeOK /\ HistoryInv
      BY DEF EngineInv, Inv, TypeOK
  <2> QED
      BY <2>1, NextIs DEF Takes, Alters, Waits
<1> SUFFICES ASSUME NEW i \in Ids', Opened(i)'
             PROVE  \/ InTable(i)'
                    \/ ~InWindow(i, now)'
                    \/ \E c \in Ids' : c > i /\ Removes(c, i)'
    BY DEF Stays
<1>1. CASE i \in Ids /\ Opened(i)
  <2>1. /\ AlarmOf(i)' = AlarmOf(i) /\ AlarmOf(i).ttl \in Int
        /\ events'[i].at = events[i].at /\ events'[i].route = events[i].route
        /\ events[i].at \in Int
      BY <1>1, OpenedStays DEF OpenInv, EngineInv, StackInv
  <2>2. ASSUME ~InWindow(i, now) PROVE ~InWindow(i, now)'
      BY <1>t, <2>1, <2>2 DEF InWindow
  <2>3. ASSUME NEW c \in Ids, c > i, Removes(c, i) PROVE c \in Ids' /\ Removes(c, i)'
      BY <1>1, <2>3, EndsStay, AfterStays
  <2>4. ASSUME InTable(i), NEW k, k = events[i].route.key
        PROVE  \/ InTable(i)'
               \/ ~InWindow(i, now)'
               \/ \E c \in Ids' : c > i /\ Removes(c, i)'
    <3>0. k \in DOMAIN states /\ states[k].first = i /\ events'[i].route.key = k
        BY <2>1, <2>4 DEF InTable
    <3>1. CASE k \in DOMAIN states'
      <4>1. ~\E w \in Workers : Puts(w) /\ job[w].route.key = k
          BY <3>0 DEF Puts, PutIsFresh
      <4>2. SameWindow(states[k], states'[k])
          BY <3>1, <4>1, EntryStep
      <4> QED
          BY <3>0, <3>1, <4>2 DEF InTable, SameWindow
    <3>2. CASE k \notin DOMAIN states'
      <4>1. ASSUME NEW w \in Workers, Busy(w), Alters(w), NEW c, c = job[w].id,
                   (Clears(w) /\ NextKey(job[w].todo) = k) \/ Puts(w)
            PROVE  c \in Ids' /\ c > i /\ Removes(c, i)'
        <5>1. c \in Ids' /\ c > i
            BY <1>1, <4>1, InHandLater DEF Clears, Puts, Alters
        <5>2. Removes(c, i)'
            BY <3>0, <3>2, <4>1 DEF Clears, Puts, Removes
        <5> QED
            BY <5>1, <5>2
      <4>2. CASE Expired(states[k], now)
        <5>1. ~InWindow(i, now)
            BY <1>t, <3>0, <4>2, FoundCovers
        <5> QED
            BY <2>2, <5>1
      <4> QED
          BY <3>0, <3>2, <4>1, <4>2, EntryGone
    <3> QED
        BY <3>1, <3>2
  <2> QED
      BY <1>1, <2>2, <2>3, <2>4 DEF Stays
<1>2. ASSUME NEW w \in Workers, Busy(w), Alters(w), Puts(w), job[w].id = i
      PROVE  InTable(i)'
    BY <1>2, PutWrites DEF InTable
<1> QED
    BY <1>1, <1>2, OpenedBy

\* A Put opens a window inside an earlier one only after a clear or an eviction.
LEMMA InsideKept ==
    ASSUME Alone, EngineInv, PutIsFresh, LastInHand, Stays, SuppressedInsideWindow,
           [Next]_vars
    PROVE  SuppressedInsideWindow'
<1> DEFINE Cleared(i, j, c)  == c \in i + 1 .. j /\ events[i].route.key \in events[c].cleared
           Evicted(i, j, c)  == c \in i + 1 .. j - 1
                                /\ events[i].route.key \in events[c].evicted
<1> SUFFICES ASSUME NEW i \in Ids', NEW j \in Ids', i < j, Opened(i)', Opened(j)',
                    SameKey(i, j)'
             PROVE  \/ ~InWindow(i, events[j].opened)'
                    \/ \E c : Cleared(i, j, c)'
                    \/ \E c : Evicted(i, j, c)'
    BY DEF SuppressedInsideWindow, ClearedBetween, EvictedBetween
<1>t. StackInv
    BY DEF EngineInv
<1>1. i \in Ids /\ j \in Ids
    BY OpenedBy DEF Alters
<1>n. i \in Nat /\ j \in Nat
    BY <1>1 DEF Ids
<1>2. Opened(i)
  <2>1. ASSUME NEW w \in Workers, Busy(w), job[w].id = i PROVE FALSE
    <3>1. j <= i
        BY <1>1, <2>1 DEF LastInHand
    <3> QED
        BY <1>n, <3>1
  <2> QED
      BY <2>1, OpenedBy
<1>3. /\ AlarmOf(i)' = AlarmOf(i) /\ events'[i].at = events[i].at
      /\ events'[i].route = events[i].route
    BY <1>1, <1>2, OpenedStays
<1>4. ASSUME NEW c \in Ids
      PROVE  /\ events[c].cleared \subseteq events'[c].cleared
             /\ events[c].evicted \subseteq events'[c].evicted
    BY HistoryGrows DEF EngineInv, Inv, Grows
<1>5. CASE Opened(j)
  <2>1. events'[j].opened = events[j].opened /\ events'[j].route = events[j].route
      BY <1>1, <1>5, OpenedStays
  <2>2. SameKey(i, j)
      BY <1>3, <2>1 DEF SameKey
  <2>3. \/ ~InWindow(i, events[j].opened)
        \/ ClearedBetween(i, j)
        \/ EvictedBetween(i, j)
      BY <1>1, <1>2, <1>5, <2>2 DEF SuppressedInsideWindow
  <2>4. CASE ~InWindow(i, events[j].opened)
      BY <1>3, <2>1, <2>4 DEF InWindow
  <2>5. \A c \in i + 1 .. j : c \in Ids
      BY <1>1, <1>n DEF Ids
  <2>6. CASE ClearedBetween(i, j)
    <3>1. PICK c \in i + 1 .. j : events[i].route.key \in events[c].cleared
        BY <2>6 DEF ClearedBetween
    <3> QED
        BY <1>3, <1>4, <2>5, <3>1
  <2>7. CASE EvictedBetween(i, j)
    <3>1. PICK c \in i + 1 .. j - 1 : events[i].route.key \in events[c].evicted
        BY <2>7 DEF EvictedBetween
    <3>2. c \in i + 1 .. j
        BY <1>n
    <3> QED
        BY <1>3, <1>4, <2>5, <3>1, <3>2
  <2> QED
      BY <2>3, <2>4, <2>6, <2>7
<1>6. ASSUME NEW w \in Workers, Busy(w), Alters(w), Puts(w), job[w].id = j
      PROVE  \/ ~InWindow(i, events[j].opened)'
             \/ \E c : Cleared(i, j, c)'
             \/ \E c : Evicted(i, j, c)'
  <2>1. /\ events'[j].opened = now /\ ~Opened(j)
        /\ events[i].route.key = job[w].route.key
      BY <1>3, <1>6, PutWrites DEF SameKey
  <2>2. ~InTable(i)
      BY <1>6, <2>1 DEF PutIsFresh, InTable, Puts
  <2>3. CASE ~InWindow(i, now)
      BY <1>3, <2>1, <2>3 DEF InWindow
  <2>4. ASSUME NEW c \in Ids, c > i, Removes(c, i)
        PROVE  Cleared(i, j, c)' \/ Evicted(i, j, c)'
    <3>1. c \in Nat /\ c <= j
        BY <1>6 DEF LastInHand, Ids
    <3>2. CASE events[i].route.key \in events[c].cleared
      <4>1. c \in i + 1 .. j
          BY <1>n, <2>4, <3>1
      <4> QED
          BY <1>3, <1>4, <3>2, <4>1
    <3>3. CASE events[i].route.key \in events[c].evicted
      <4>1. c # j
          BY <1>t, <1>1, <2>1, <3>3 DEF StackInv
      <4>2. c \in i + 1 .. j - 1
          BY <1>n, <2>4, <3>1, <4>1
      <4> QED
          BY <1>3, <1>4, <3>3, <4>2
    <3> QED
        BY <2>4, <3>2, <3>3 DEF Removes
  <2> HIDE DEF Cleared, Evicted
  <2> QED
      BY <1>1, <1>2, <2>2, <2>3, <2>4 DEF Stays
<1> QED
    BY <1>5, <1>6, OpenedBy

\* Nothing about the events up to a duplicate changes once it is one.
LEMMA SettledBefore ==
    ASSUME Alone, EngineInv, LastInHand, [Next]_vars,
           NEW j \in Ids, events[j].outcome = "duplicate", NEW c \in Ids, c <= j
    PROVE  events'[c] = events[c]
<1>t. TypeOK /\ HistoryInv
    BY DEF EngineInv, Inv
<1>1. ASSUME NEW w \in Workers, Busy(w), Alters(w) PROVE events'[c] = events[c]
  <2>1. j # job[w].id /\ job[w].id \in Ids
      BY <1>t, <1>1, HandledEvent DEF InHand
  <2>2. j <= job[w].id
      BY <1>1 DEF LastInHand
  <2>3. c # job[w].id
      BY <2>1, <2>2 DEF Ids
  <2> QED
      BY <1>1, <2>3 DEF Alters
<1> QED
    BY <1>t, <1>1, NextIs DEF Takes, Waits

\* Touch counts an event in the entry of an earlier one that covers it, with no
\* clear in between.
LEMMA JustifiedKept ==
    ASSUME Alone, EngineInv, EntryInv, LastInHand, Uncleared, StillCovered, FirstKnown,
           SuppressionJustified, [Next]_vars
    PROVE  SuppressionJustified' /\ FirstKnown'
<1>1. ASSUME NEW j \in Ids', events'[j].outcome = "duplicate",
             NEW i, i = events'[j].first
      PROVE  /\ i \in Ids' /\ i < j
             /\ SameKey(i, j)'
             /\ InWindow(i, events[j].at)'
             /\ \A c \in i + 1 .. j : events'[i].route.key \notin events'[c].cleared
  <2>1. CASE j \in Ids /\ events[j].outcome = "duplicate" /\ events'[j] = events[j]
    <3>1. /\ i \in Ids /\ i < j /\ i = events[j].first
          /\ SameKey(i, j) /\ InWindow(i, events[j].at) /\ ~ClearedBetween(i, j)
        BY <1>1, <2>1 DEF SuppressionJustified, FirstKnown
    <3>2. i \in Nat /\ j \in Nat
        BY <2>1, <3>1 DEF Ids
    <3>3. events'[i] = events[i] /\ i \in Ids'
        BY <2>1, <3>1, <3>2, SettledBefore, AfterStays
    <3>4. SameKey(i, j)' /\ InWindow(i, events[j].at)'
        BY <2>1, <3>1, <3>3 DEF SameKey, InWindow, AlarmOf
    <3>5. ASSUME NEW c \in i + 1 .. j
          PROVE  events'[i].route.key \notin events'[c].cleared
      <4>1. c \in Ids /\ c <= j
          BY <2>1, <3>2, <3>5 DEF Ids
      <4>2. events'[c] = events[c]
          BY <2>1, <4>1, SettledBefore
      <4> QED
          BY <3>1, <3>3, <4>2 DEF ClearedBetween
    <3> QED
        BY <3>1, <3>3, <3>4, <3>5
  <2>2. ASSUME NEW w \in Workers, Busy(w), Alters(w), Counts(w), job[w].id = j
        PROVE  /\ i \in Ids' /\ i < j
               /\ SameKey(i, j)'
               /\ InWindow(i, events[j].at)'
               /\ \A c \in i + 1 .. j : events'[i].route.key \notin events'[c].cleared
    <3> DEFINE k == job[w].route.key
    <3>t. TypeOK /\ HistoryInv /\ StackInv
        BY DEF EngineInv, Inv
    <3>1. k \in DOMAIN states /\ i = states[k].first /\ ~Expired(states[k], job[w].at)
        BY <1>1, <2>2 DEF Counts, StillCovered
    <3>2. /\ events'[j].route = job[w].route /\ events'[j].at = job[w].at
          /\ events'[j].cleared = events[j].cleared /\ job[w].at \in Int
      <4>1. Tracks(job[w], events[j], now) /\ job[w].at \in Int
          BY <2>2, <3>t DEF StackInv, EventOf, TypeOK, JobOK
      <4> QED
          BY <2>2, <4>1 DEF Counts, Kept, EventOf, Tracks
    <3>3. /\ i \in Ids /\ Opened(i) /\ events[i].route.key = k
          /\ InWindow(i, job[w].at)
        BY <3>1, <3>2, FoundCovers
    <3>4. j \in Ids /\ j > i
        BY <2>2, <3>3, InHandLater DEF Counts
    <3>5. i \in Nat /\ j \in Nat
        BY <3>3, <3>4 DEF Ids
    <3>6. events'[i] = events[i] /\ i \in Ids'
        BY <2>2, <3>3, <3>4, <3>5 DEF Alters
    <3>7. SameKey(i, j)' /\ InWindow(i, events[j].at)'
        BY <3>2, <3>3, <3>6 DEF SameKey, InWindow, AlarmOf
    <3>8. ASSUME NEW c \in i + 1 .. j
          PROVE  events'[i].route.key \notin events'[c].cleared
      <4>1. c \in Ids /\ c > i
          BY <3>4, <3>5 DEF Ids
      <4>2. k \notin events[c].cleared
          BY <3>1, <4>1 DEF Uncleared
      <4>3. events'[c].cleared = events[c].cleared
          BY <2>2, <3>2, <4>1 DEF Alters
      <4> QED
          BY <3>3, <3>6, <4>2, <4>3
    <3> QED
        BY <3>4, <3>5, <3>6, <3>7, <3>8
  <2> QED
      BY <1>1, <2>1, <2>2, DuplicateBy
<1>2. FirstKnown'
    BY <1>1 DEF FirstKnown
<1>3. SuppressionJustified'
    BY <1>1 DEF SuppressionJustified, ClearedBetween, SameKey, InWindow, AlarmOf
<1> QED
    BY <1>2, <1>3

\* The invariant of one worker holds at the start.
LEMMA OneWorkerInit == Init => OneWorkerInv
<1> SUFFICES ASSUME Init PROVE OneWorkerInv
    OBVIOUS
<1>1. DOMAIN states = {} /\ Ids = {} /\ \A w \in Workers : job[w].pc = "idle"
    BY DEF Init, StoreInit, Ids, Idle
<1> QED
    BY <1>1 DEF OneWorkerInv, PutIsFresh, LastInHand, Uncleared, StillCovered, Stays,
                FirstKnown, SuppressedInsideWindow, SuppressionJustified, Busy

\* The invariant of one worker is inductive.
LEMMA OneWorkerStep ==
    ASSUME Alone
    PROVE  EngineInv /\ DedupInv /\ OneWorkerInv /\ [Next]_vars => OneWorkerInv'
<1> SUFFICES ASSUME EngineInv, DedupInv, OneWorkerInv, [Next]_vars PROVE OneWorkerInv'
    OBVIOUS
<1>1. PutIsFresh'
    BY StableStep DEF OneWorkerInv, EngineInv
<1> QED
    BY <1>1, LastKept, UnclearedKept, StillKept, StaysKept, InsideKept, JustifiedKept
       DEF OneWorkerInv, DedupInv

\* The invariant of one worker holds in every state.
LEMMA OneWorkerCorrect ==
    ASSUME Alone PROVE Spec => [](EngineInv /\ DedupInv /\ OneWorkerInv)
BY DedupCorrect, OneWorkerInit, OneWorkerStep, PTL DEF Spec

\* With one worker, a trap whose key has an open window is suppressed, unless a clear
\* or an eviction came between.
THEOREM SuppressedWithoutRace ==
    ASSUME Alone PROVE Spec => []SuppressedInsideWindow
BY OneWorkerCorrect, PTL DEF OneWorkerInv

\* With one worker, a trap is suppressed only on account of an earlier trap with its
\* key, inside the window of that trap and with no clear after it.
THEOREM SuppressedWithReason ==
    ASSUME Alone PROVE Spec => []SuppressionJustified
BY OneWorkerCorrect, PTL DEF OneWorkerInv

-----------------------------------------------------------------------------
\* The keys and rules a worker uses are those of the configurations

\* The stack j of a worker past its load has the route that some configuration gives
\* some event, and Clear calls left that the clear rules ask for.
Known(j) ==
    /\ \E g \in Generations, e \in Events :
          LET h == Handling[g][e]
          IN  /\ j.gen = g
              /\ j.route = h.route
              /\ DOMAIN j.todo \subseteq DOMAIN h.clears
              /\ \A i \in DOMAIN j.todo : j.todo[i] = h.clears[i]
    /\ j.pc = "clear" => DOMAIN j.todo # {}

KnownInv == /\ Ids \subseteq 1 .. MaxEvents
            /\ \A w \in Workers : job[w].pc \notin {"idle", "handle"} => Known(job[w])

\* A Clear call is pending in "clear" only.
LEMMA ClearCallPC ==
    ASSUME NEW todo, NEW route, NextCall(todo, route) = "clear"
    PROVE  DOMAIN todo # {}
BY DEF NextCall, AfterClears

\* What a worker does to its own stack.
LEMMA KnownWork ==
    ASSUME TypeOK, KnownInv, NEW w \in Workers, Work(w),
           job'[w].pc \notin {"idle", "handle"}
    PROVE  Known(job'[w])
<1>j. /\ DOMAIN job = Workers /\ DOMAIN job[w] = DOMAIN Idle
    BY DEF TypeOK, JobOK
<1>f. DOMAIN Idle = {"pc", "id", "at", "event", "gen", "route", "todo", "logged"}
    BY DEF Idle
<1>p. ASSUME NEW pc, job' = [job EXCEPT ![w].pc = pc], pc # "clear",
             job[w].pc \notin {"idle", "handle"}
      PROVE  Known(job'[w])
  <2>1. /\ job'[w].gen = job[w].gen /\ job'[w].route = job[w].route
        /\ job'[w].todo = job[w].todo /\ job'[w].pc = pc
      BY <1>p, <1>j, <1>f
  <2> QED
      BY <1>p, <2>1 DEF KnownInv, Known
<1>e. ASSUME job' = [job EXCEPT ![w] = Idle] PROVE FALSE
    BY <1>e, <1>j DEF Idle
<1>1. CASE HandleEvent(w)
  <2> DEFINE h == Handling[current][job[w].event]
  <2>1. /\ job[w].pc = "handle"
        /\ job' = [job EXCEPT ![w].pc = NextCall(h.clears, h.route),
                              ![w].gen = current, ![w].route = h.route,
                              ![w].todo = h.clears]
      BY <1>1, <1>e DEF HandleEvent, Ruling, Finish
  <2>2. current \in Generations /\ job[w].event \in Events
      BY <2>1 DEF TypeOK, JobOK
  <2> HIDE DEF h
  <2>3. /\ job'[w].gen = current /\ job'[w].route = h.route /\ job'[w].todo = h.clears
        /\ job'[w].pc = NextCall(h.clears, h.route)
      BY <2>1, <1>j, <1>f
  <2> QED
      BY <2>2, <2>3, ClearCallPC DEF Known, h
<1>2. CASE ApplyAlarmClearRule(w)
  <2>1. /\ job[w].pc = "clear"
        /\ job' = [job EXCEPT ![w].todo = Rest(job[w].todo),
                              ![w].pc = NextCall(Rest(job[w].todo), job[w].route),
                              ![w].logged = @ \/ WritesAlert(w)]
      BY <1>2 DEF ApplyAlarmClearRule
  <2>2. /\ job'[w].gen = job[w].gen /\ job'[w].route = job[w].route
        /\ job'[w].todo = Rest(job[w].todo)
        /\ job'[w].pc = NextCall(Rest(job[w].todo), job[w].route)
      BY <2>1, <1>j, <1>f
  <2>3. /\ DOMAIN Rest(job[w].todo) \subseteq DOMAIN job[w].todo
        /\ \A i \in DOMAIN Rest(job[w].todo) : Rest(job[w].todo)[i] = job[w].todo[i]
      BY DEF Rest, Restrict
  <2>4. Known(job[w])
      BY <2>1 DEF KnownInv
  <2> QED
      BY <2>2, <2>3, <2>4, ClearCallPC DEF Known
<1>3. CASE FailMatch(w)
    BY <1>3, <1>e DEF FailMatch, Finish
<1>4. CASE DedupGet(w)
    BY <1>4, <1>p DEF DedupGet
<1>5. CASE DedupTouch(w)
    BY <1>5, <1>p, <1>e DEF DedupTouch
<1>6. CASE DedupPut(w)
    BY <1>6, <1>p DEF DedupPut
<1>7. CASE Send(w)
    BY <1>7, <1>e DEF Send
<1> QED
    BY <1>1, <1>2, <1>3, <1>4, <1>5, <1>6, <1>7 DEF Work

\* The invariant holds at the start.
LEMMA KnownInit == Init => KnownInv
BY DEF Init, KnownInv, Ids, Idle

\* The invariant is inductive.
LEMMA KnownStep == EngineInv /\ KnownInv /\ [Next]_vars => KnownInv'
<1> SUFFICES ASSUME EngineInv, KnownInv, [Next]_vars PROVE KnownInv'
    OBVIOUS
<1>t. TypeOK /\ HistoryInv
    BY DEF EngineInv, Inv
<1>u. ASSUME NEW v \in Workers, job'[v] = job[v], job'[v].pc \notin {"idle", "handle"}
      PROVE  Known(job'[v])
    BY <1>u DEF KnownInv
<1>1. ASSUME NEW w \in Workers, Parse(w) PROVE KnownInv'
  <2>1. Takes(w) /\ Len(events) < MaxEvents
      BY <1>t, <1>1, ParseIs DEF Parse, ParsePacket
  <2>2. Ids' \subseteq 1 .. MaxEvents
    <3>1. Len(events) \in Nat /\ Ids' = Ids \cup {Len(events) + 1}
        BY <2>1 DEF Takes
    <3>2. Len(events) + 1 \in 1 .. MaxEvents
        BY <2>1, <3>1, MaxEventsAssumption
    <3> QED
        BY <3>1, <3>2 DEF KnownInv
  <2>3. ASSUME NEW v \in Workers, job'[v].pc \notin {"idle", "handle"}
        PROVE  Known(job'[v])
      BY <2>1, <2>3, <1>u DEF Takes
  <2> QED
      BY <2>2, <2>3 DEF KnownInv
<1>2. ASSUME NEW w \in Workers, Work(w) PROVE KnownInv'
  <2>1. Ids' = Ids /\ \A v \in Workers \ {w} : job'[v] = job[v]
      BY <1>t, <1>2, WorkIs DEF Alters
  <2>2. ASSUME NEW v \in Workers, job'[v].pc \notin {"idle", "handle"}
        PROVE  Known(job'[v])
      BY <1>t, <1>2, <2>1, <2>2, <1>u, KnownWork
  <2> QED
      BY <2>1, <2>2 DEF KnownInv
<1>3. CASE UNCHANGED <<job, events>>
    BY <1>3 DEF KnownInv, Ids
<1> QED
    BY <1>1, <1>2, <1>3
       DEF Next, vars, CleanupTick, Reload, CloseOldAlerts, CloseOldForwarder, Tick

\* What DedupKeys consists of.
LEMMA InDedupKeys ==
    ASSUME NEW g \in Generations, NEW e \in Events, NEW k, k # NoKey,
           k \in {Handling[g][e].route.key} \cup Range(Handling[g][e].clears)
    PROVE  k \in DedupKeys
<1> DEFINE K(a, b) == {Handling[a][b].route.key} \cup Range(Handling[a][b].clears)
           U == {K(a, b) : a \in Generations, b \in Events}
<1>1. DedupKeys = (UNION U) \ {NoKey}
    BY DEF DedupKeys
<1>2. k \in K(g, e)
    OBVIOUS
<1> HIDE DEF K
<1>3. K(g, e) \in U
    OBVIOUS
<1> HIDE DEF U
<1> QED
    BY <1>1, <1>2, <1>3

\* The key of a Clear call is one of DedupKeys.
LEMMA ClearKeyKnown ==
    ASSUME KnownInv, NEW w \in Workers, job[w].pc = "clear"
    PROVE  NextKey(job[w].todo) \in DedupKeys
<1>1. Known(job[w])
    BY DEF KnownInv
<1>2. PICK g \in Generations, e \in Events :
        LET h == Handling[g][e]
        IN  /\ DOMAIN job[w].todo \subseteq DOMAIN h.clears
            /\ \A i \in DOMAIN job[w].todo : job[w].todo[i] = h.clears[i]
    BY <1>1 DEF Known
<1>3. Handling[g][e].clears = ClearedKeys(Configs[g], e)
    BY DEF Handling
<1> DEFINE clears == ClearedKeys(Configs[g], e)
<1>4. DOMAIN clears \subseteq Nat
    BY DEF ClearedKeys
<1>5. DOMAIN job[w].todo # {}
    BY <1>1 DEF Known
<1> DEFINE r == Min(DOMAIN job[w].todo)
<1>6. r \in DOMAIN clears /\ NextKey(job[w].todo) = clears[r]
  <2>1. r \in DOMAIN job[w].todo
      BY <1>2, <1>3, <1>4, <1>5, MinInSet
  <2> QED
      BY <1>2, <1>3, <2>1 DEF NextKey
<1>7. clears[r] = <<Configs[g].alarms[r].id, ClearKey(e, Configs[g].alarms[r])>>
    BY <1>6 DEF ClearedKeys
<1>8. clears[r] # NoKey
    BY <1>7 DEF NoKey
<1>9. clears[r] \in Range(Handling[g][e].clears)
    BY <1>3, <1>6 DEF Range
<1> QED
    BY <1>6, <1>8, <1>9, InDedupKeys

\* The key of a Put or a Touch is one of DedupKeys, and the window it opens has the
\* terms of an alarm rule with the name in the key.
LEMMA RouteKnown ==
    ASSUME EngineInv, KnownInv, NEW w \in Workers,
           job[w].pc \in {"touch", "put"}, NEW k, k = job[w].route.key
    PROVE  k \in DedupKeys /\ Rule(w) \in RulesNamed(k[1])
<1>1. Known(job[w])
    BY DEF KnownInv
<1>2. PICK g \in Generations, e \in Events :
        job[w].gen = g /\ job[w].route = Handling[g][e].route
    BY <1>1 DEF Known
<1>3. /\ job[w].route.to = "dedup"
      /\ job[w].route.alarm \in 1 .. Len(Configs[g].alarms)
    BY <1>2 DEF EngineInv, Inv, TypeOK, JobOK
<1>4. job[w].route = Route(Configs[g], e)
    BY <1>2 DEF Handling
<1>5. PICK key : k = <<Configs[g].alarms[job[w].route.alarm].id, key>>
    BY <1>3, <1>4 DEF Route
<1>6. k # NoKey /\ k[1] = Rule(w).id
    BY <1>2, <1>5 DEF NoKey, Rule
<1>7. k \in DedupKeys
    BY <1>2, <1>6, InDedupKeys
<1>8. Rule(w) \in Rules(g)
    BY <1>2, <1>3 DEF Rule, Rules
<1> QED
    BY <1>6, <1>7, <1>8 DEF RulesNamed

-----------------------------------------------------------------------------
\* The engine implements DedupWindows

\* The windows of the abstract specification are the entries of the table.
LEMMA WindowsAre ==
    /\ DOMAIN OpenWindows = DOMAIN states
    /\ \A k \in DOMAIN states :
          /\ OpenWindows[k] = WindowOf(states[k])
          /\ \A t : Windows!Over(k, t) <=> Expired(states[k], t)
<1>1. /\ DOMAIN OpenWindows = DOMAIN states
      /\ \A k \in DOMAIN states : OpenWindows[k] = WindowOf(states[k])
    BY DEF OpenWindows
<1>2. ASSUME NEW k \in DOMAIN states, NEW t
      PROVE  Windows!Over(k, t) <=> Expired(states[k], t)
  <2>1. /\ OpenWindows[k].held = states[k].hold
        /\ OpenWindows[k].until = ExpiresAt(states[k])
      BY <1>1 DEF WindowOf
  <2> QED
      BY <2>1 DEF Windows!Over, Expired
<1> QED
    BY <1>1, <1>2

\* A trap that was judged stays judged, and on the same window.
LEMMA VerdictStays ==
    ASSUME EngineInv, [Next]_vars, NEW i \in Judged
    PROVE  i \in Judged' /\ Verdicts'[i] = Verdicts[i]
<1>1. CASE Opened(i)
  <2>1. i \in Ids' /\ Opened(i)'
      BY <1>1, OpenedStays DEF Judged
  <2> QED
      BY <1>1, <2>1 DEF Judged, Verdicts
<1>2. CASE ~Opened(i)
  <2>1. i \in Ids /\ events[i].outcome = "duplicate"
      BY <1>2 DEF Judged
  <2>2. i \in Ids' /\ events'[i] = events[i]
      BY <2>1, HistoryGrows DEF EngineInv, Inv, Grows
  <2>3. i \in Judged' /\ ~Opened(i)'
      BY <1>2, <2>1, <2>2 DEF Judged, Opened
  <2> QED
      BY <1>2, <2>2, <2>3 DEF Verdicts
<1> QED
    BY <1>1, <1>2

\* A trap is judged in Put or in Touch.
LEMMA JudgedBy ==
    ASSUME EngineInv, [Next]_vars, NEW i \in Judged'
    PROVE  \/ i \in Judged
           \/ \E w \in Workers : /\ Busy(w) /\ Alters(w) /\ (Puts(w) \/ Counts(w))
                                 /\ job[w].id = i
<1>1. i \in Ids' /\ (events'[i].outcome = "duplicate" \/ Opened(i)')
    BY DEF Judged
<1>2. CASE Opened(i)'
    BY <1>1, <1>2, OpenedBy DEF Judged
<1>3. CASE events'[i].outcome = "duplicate"
    BY <1>1, <1>3, DuplicateBy DEF Judged
<1> QED
    BY <1>1, <1>2, <1>3

\* The verdicts after a step that judges no trap, and after one that judges j.
LEMMA VerdictStep ==
    ASSUME EngineInv, [Next]_vars
    PROVE  /\ (\A w \in Workers : ~Puts(w) /\ ~Counts(w)) => Verdicts' = Verdicts
           /\ \A j \in Judged' \ Judged :
                 Judged' \subseteq Judged \cup {j} =>
                    Verdicts' = [u \in Judged \cup {j} |->
                                   IF u = j THEN Verdicts'[j] ELSE Verdicts[u]]
<1>1. /\ DOMAIN Verdicts = Judged /\ Verdicts = [u \in Judged |-> Verdicts[u]]
      /\ DOMAIN Verdicts' = Judged' /\ Verdicts' = [u \in Judged' |-> Verdicts'[u]]
    BY DEF Verdicts
<1>2. /\ Judged \subseteq Judged'
      /\ \A u \in Judged : Verdicts'[u] = Verdicts[u]
    BY VerdictStays
<1>3. ASSUME \A w \in Workers : ~Puts(w) /\ ~Counts(w) PROVE Judged' = Judged
    BY <1>2, <1>3, JudgedBy
<1> QED
    BY <1>1, <1>2, <1>3

\* The Clear calls after a step that makes none, and after one that makes one.
LEMMA ClearCallsStep ==
    ASSUME EngineInv, [Next]_vars
    PROVE  /\ (\A w \in Workers : ~Clears(w)) => ClearCalls' = ClearCalls
           /\ \A w \in Workers : Alters(w) /\ Busy(w) /\ Clears(w) =>
                 ClearCalls' = ClearCalls \cup {<<job[w].id, NextKey(job[w].todo)>>}
<1>t. TypeOK /\ HistoryInv
    BY DEF EngineInv, Inv
<1>d. /\ \A p : p \in ClearCalls <=>
                  \E i \in Ids : \E k : k \in events[i].cleared /\ p = <<i, k>>
      /\ \A p : p \in ClearCalls' <=>
                  \E i \in Ids' : \E k : k \in events'[i].cleared /\ p = <<i, k>>
    BY DEF ClearCalls
<1>1. ASSUME \A w \in Workers : ~Clears(w) PROVE ClearCalls' = ClearCalls
  <2>1. /\ \A i \in Ids : i \in Ids' /\ events'[i].cleared = events[i].cleared
        /\ \A i \in Ids' : i \in Ids \/ events'[i].cleared = {}
    <3>1. ASSUME NEW w \in Workers, Takes(w)
          PROVE  /\ \A i \in Ids : i \in Ids' /\ events'[i].cleared = events[i].cleared
                 /\ \A i \in Ids' : i \in Ids \/ events'[i].cleared = {}
        BY <3>1 DEF Takes
    <3>2. ASSUME NEW w \in Workers, Busy(w), Alters(w),
                 \/ Ends(w) \/ Loads(w) \/ Gets(w) \/ Counts(w) \/ Misses(w) \/ Puts(w)
          PROVE  Ids' = Ids /\ \A i \in Ids : events'[i].cleared = events[i].cleared
      <4>1. events'[job[w].id].cleared = EventOf(w).cleared
          BY <3>2 DEF Ends, Loads, Gets, Counts, Misses, Puts, Kept
      <4> QED
          BY <3>2, <4>1 DEF Alters, EventOf
    <3>3. CASE Waits
        BY <3>3 DEF Waits, Ids
    <3> QED
        BY <1>t, <1>1, <3>1, <3>2, <3>3, NextIs
  <2> QED
      BY <1>d, <2>1
<1>2. ASSUME NEW w \in Workers, Alters(w), Busy(w), Clears(w),
             NEW j, j = job[w].id, NEW k, k = NextKey(job[w].todo)
      PROVE  ClearCalls' = ClearCalls \cup {<<j, k>>}
  <2>1. /\ j \in Ids /\ Ids' = Ids /\ events'[j].cleared = events[j].cleared \cup {k}
        /\ \A i \in Ids \ {j} : events'[i].cleared = events[i].cleared
      BY <1>2, InHandLast DEF Clears, Alters, EventOf
  <2> QED
      BY <1>d, <2>1
<1> QED
    BY <1>1, <1>2

\* A step that only deletes entries whose window is over is a step of Expire.
LEMMA ExpireIs ==
    ASSUME StoreTypeOK, now' = now, Verdicts' = Verdicts, ClearCalls' = ClearCalls,
           DOMAIN states' \subseteq DOMAIN states,
           \A x \in DOMAIN states' : states'[x] = states[x],
           \A x \in DOMAIN states \ DOMAIN states' : Expired(states[x], now)
    PROVE  Windows!Expire
<1> DEFINE K == DOMAIN states \ DOMAIN states'
<1>1. DOMAIN OpenWindows = DOMAIN states /\ \A k \in K : Windows!Over(k, now)
    BY WindowsAre
<1>2. OpenWindows' = [k \in DOMAIN OpenWindows \ K |-> OpenWindows[k]]
    BY <1>1 DEF OpenWindows
<1> HIDE DEF K
<1>3. K \in SUBSET {k \in DOMAIN OpenWindows : Windows!Over(k, now)}
    BY <1>1 DEF K
<1> QED
    BY <1>2, <1>3 DEF Windows!Expire

\* Put opens a window: it evicts what the abstract specification may evict.
LEMMA PutOpens ==
    ASSUME Alone, EngineInv, PutIsFresh, KnownInv, [Next]_vars,
           NEW w \in Workers, Busy(w), Alters(w), Puts(w)
    PROVE  Windows!Next
<1> SUFFICES ASSUME NEW j, j = job[w].id, NEW k, k = job[w].route.key
             PROVE  Windows!Next
    OBVIOUS
<1>t. StoreTypeOK /\ TypeOK /\ StackInv /\ now \in Nat
    BY DEF EngineInv, Inv, TypeOK
<1>1. /\ job[w].pc = "put" /\ now' = now /\ j \in Ids /\ ~Opened(j)
      /\ events[j].outcome = "pending"
    BY InHandLast, HandledEvent DEF Puts, Alters, EngineInv, Inv, InHand
<1>2. k \in DedupKeys /\ Rule(w) \in RulesNamed(k[1]) /\ j \in 1 .. MaxEvents
    BY <1>1, RouteKnown DEF KnownInv
<1>3. k \notin DOMAIN OpenWindows
    BY <1>1, WindowsAre DEF PutIsFresh
<1>4. Windows!Judge(j, j)
  <2>1. j \in Judged' /\ Verdicts'[j] = j
      BY PutWrites DEF Judged, Verdicts
  <2>2. j \notin Judged
      BY <1>1 DEF Judged
  <2>3. \A v \in Workers : v = w
      BY DEF Alone
  <2>4. Judged' \subseteq Judged \cup {j}
      BY <2>3, JudgedBy
  <2>5. DOMAIN Verdicts = Judged
      BY DEF Verdicts
  <2> QED
      BY <2>1, <2>2, <2>4, <2>5, VerdictStep DEF Windows!Judge
<1>5. ClearCalls' = ClearCalls
  <2>1. \A v \in Workers : ~Clears(v)
      BY DEF Alone, Clears, Puts
  <2> QED
      BY <2>1, ClearCallsStep
<1>6. job[w].at \in 0 .. now
  <2>1. job[w].at \in Nat /\ job[w].at <= now
      BY <1>t DEF TypeOK, JobOK, StackInv, Tracks
  <2> QED
      BY <1>t, <2>1
<1> DEFINE term == Term(Rule(w))
           s == NewState(job[w], Rule(w).ttl, Rule(w).hold)
<1>7. WindowOf(s) = Windows!Window(j, job[w].at, term)
    BY DEF WindowOf, NewState, Windows!Window, Term, ExpiresAt
<1>8. PICK kept \in Room :
        states' = [x \in kept \cup {k} |-> IF x = k THEN s ELSE states[x]]
    BY DEF Puts, Put
<1>9. PICK out \in Windows!Victims : kept = DOMAIN states \ out
  <2>1. Windows!LeastRecent = Oldest
    <3>1. \A x \in DOMAIN states : OpenWindows[x].last = states[x].lastSeenAt
        BY WindowsAre DEF WindowOf
    <3> QED
        BY <3>1, WindowsAre DEF Windows!LeastRecent, Oldest
  <2>0. Windows!Victims = IF Limit <= 0 \/ Cardinality(DOMAIN states) < Limit
                          THEN {{}} ELSE {{x} : x \in Oldest}
    <3>1. Windows!Cardinality(DOMAIN OpenWindows) = Cardinality(DOMAIN states)
        BY WindowsAre DEF Windows!Cardinality, Cardinality
    <3> QED
        BY <2>1, <3>1 DEF Windows!Victims
  <2>2. Cardinality(DOMAIN states) \in Nat
      BY <1>t, FS_CardinalityType DEF StoreTypeOK
  <2>3. CASE Limit > 0 /\ Cardinality(DOMAIN states) >= Limit
    <3>1. PICK x \in Oldest : kept = DOMAIN states \ {x}
        BY <2>3, <1>8 DEF Room
    <3>2. {x} \in Windows!Victims
        BY <2>0, <2>2, <2>3, <3>1, LimitAssumption
    <3> QED
        BY <3>1, <3>2
  <2>4. CASE ~(Limit > 0 /\ Cardinality(DOMAIN states) >= Limit)
    <3>1. kept = DOMAIN states \ {}
        BY <2>4, <1>8 DEF Room
    <3>2. {} \in Windows!Victims
        BY <2>0, <2>2, <2>4, LimitAssumption
    <3> QED
        BY <3>1, <3>2
  <2> QED
      BY <2>3, <2>4
<1>10. OpenWindows' = [x \in (DOMAIN OpenWindows \ out) \cup {k} |->
                         IF x = k THEN Windows!Window(j, job[w].at, term)
                         ELSE OpenWindows[x]]
  <2>1. /\ DOMAIN states' = (DOMAIN states \ out) \cup {k}
        /\ states'[k] = s
        /\ \A x \in DOMAIN states' : x # k => x \in DOMAIN states /\ states'[x] = states[x]
      BY <1>8, <1>9
  <2>2. OpenWindows' = [x \in DOMAIN states' |-> WindowOf(states'[x])]
      BY DEF OpenWindows
  <2>3. /\ WindowOf(states'[k]) = Windows!Window(j, job[w].at, term)
        /\ \A x \in DOMAIN states' : x # k => WindowOf(states'[x]) = OpenWindows[x]
      BY <1>7, <2>1, WindowsAre
  <2> HIDE DEF s, term
  <2> QED
      BY <2>1, <2>2, <2>3, WindowsAre
<1>11. term \in {Term(a) : a \in RulesNamed(k[1])}
    BY <1>2
<1> HIDE DEF s, term
<1>12. Windows!Open(j, k)
    BY <1>1, <1>2, <1>3, <1>4, <1>5, <1>6, <1>9, <1>10, <1>11 DEF Windows!Open
<1> QED
    BY <1>2, <1>12 DEF Windows!Next

\* Touch counts a repetition of the window that covers it.
LEMMA CountSuppresses ==
    ASSUME Alone, EngineInv, EntryInv, StillCovered, KnownInv, [Next]_vars,
           NEW w \in Workers, Busy(w), Alters(w), Counts(w)
    PROVE  Windows!Next
<1> SUFFICES ASSUME NEW j, j = job[w].id, NEW k, k = job[w].route.key
             PROVE  Windows!Next
    OBVIOUS
<1>t. StoreTypeOK /\ TypeOK /\ StackInv /\ now \in Nat
    BY DEF EngineInv, Inv, TypeOK
<1>1. /\ job[w].pc = "touch" /\ now' = now /\ j \in Ids /\ j \in Ids' /\ ~Opened(j)
      /\ events[j].outcome = "pending" /\ k \in DOMAIN states
    BY InHandLast, HandledEvent DEF Counts, Alters, EngineInv, Inv, InHand
<1>2. k \in DedupKeys /\ j \in 1 .. MaxEvents
    BY <1>1, RouteKnown DEF KnownInv
<1>3. /\ k \in DOMAIN OpenWindows /\ OpenWindows[k] = WindowOf(states[k])
      /\ OpenWindows[k].first = states[k].first
      /\ ~Windows!Over(k, job[w].at)
    BY <1>1, WindowsAre DEF StillCovered, WindowOf
<1>4. Windows!Judge(j, OpenWindows[k].first)
  <2>1. /\ events'[j].outcome = "duplicate" /\ events'[j].opened = events[j].opened
        /\ events'[j].first = states[k].first
      BY DEF Counts, Kept, EventOf
  <2>2. ~Opened(j)'
      BY <1>1, <2>1 DEF Opened
  <2>3. j \in Judged' /\ Verdicts'[j] = OpenWindows[k].first
      BY <1>1, <1>3, <2>1, <2>2 DEF Judged, Verdicts
  <2>4. j \notin Judged
      BY <1>1 DEF Judged
  <2>5. Judged' \subseteq Judged \cup {j}
    <3>1. \A v \in Workers : v = w
        BY DEF Alone
    <3> QED
        BY <3>1, JudgedBy
  <2>6. DOMAIN Verdicts = Judged
      BY DEF Verdicts
  <2> QED
      BY <2>3, <2>4, <2>5, <2>6, VerdictStep DEF Windows!Judge
<1>5. ClearCalls' = ClearCalls
  <2>1. \A v \in Workers : ~Clears(v)
      BY DEF Alone, Clears, Counts
  <2> QED
      BY <2>1, ClearCallsStep
<1>6. job[w].at \in 0 .. now
  <2>1. job[w].at \in Nat /\ job[w].at <= now
      BY <1>t DEF TypeOK, JobOK, StackInv, Tracks
  <2> QED
      BY <1>t, <2>1
<1>7. OpenWindows' = [OpenWindows EXCEPT ![k].last = job[w].at, ![k].repeats = @ + 1]
  <2> DEFINE s == states[k]
             t == Touched(s, job[w])
  <2>1. states' = [states EXCEPT ![k] = t]
      BY <1>1 DEF Counts, Touch
  <2>2. s \in DedupState
      BY <1>t, <1>1 DEF StoreTypeOK
  <2> HIDE DEF s
  <2>3. WindowOf(t) = [WindowOf(s) EXCEPT !.last = job[w].at, !.repeats = @ + 1]
    <3>1. /\ t.first = s.first /\ t.lastSeenAt = job[w].at /\ t.hold = s.hold
          /\ t.firstSeenAt = s.firstSeenAt /\ t.ttl = s.ttl
          /\ t.suppressed = s.suppressed + 1
        BY <2>2 DEF Touched, DedupState
    <3>2. ExpiresAt(t) = ExpiresAt(s)
        BY <3>1 DEF ExpiresAt
    <3> HIDE DEF t
    <3> DEFINE p == WindowOf(t)
               q == [WindowOf(s) EXCEPT !.last = job[w].at, !.repeats = @ + 1]
               D == {"first", "last", "until", "held", "repeats"}
    <3>3. DOMAIN p = D /\ p = [x \in DOMAIN p |-> p[x]]
        BY DEF WindowOf
    <3>4. DOMAIN q = D /\ q = [x \in DOMAIN q |-> q[x]]
        BY DEF WindowOf
    <3>5. /\ p.first = q.first /\ p.last = q.last /\ p.until = q.until
          /\ p.held = q.held /\ p.repeats = q.repeats
        BY <3>1, <3>2 DEF WindowOf
    <3> HIDE DEF p, q
    <3>6. p = q
        BY <3>3, <3>4, <3>5
    <3> QED
        BY <3>6 DEF p, q
  <2> HIDE DEF t
  <2>4. /\ DOMAIN states' = DOMAIN states /\ states'[k] = t
        /\ \A x \in DOMAIN states : x # k => states'[x] = states[x]
      BY <1>t, <1>1, <2>1 DEF StoreTypeOK
  <2>5. OpenWindows' = [x \in DOMAIN states' |-> WindowOf(states'[x])]
      BY DEF OpenWindows
  <2>6. OpenWindows = [x \in DOMAIN states |-> WindowOf(states[x])]
      BY DEF OpenWindows
  <2>7. OpenWindows' = [OpenWindows EXCEPT ![k] = WindowOf(t)]
      BY <1>1, <2>4, <2>5, <2>6
  <2>8. OpenWindows[k] = WindowOf(s)
      BY <1>3 DEF s
  <2> QED
      BY <2>3, <2>7, <2>8
<1>8. Windows!Suppress(j, k)
    BY <1>1, <1>3, <1>4, <1>5, <1>6, <1>7 DEF Windows!Suppress
<1> QED
    BY <1>2, <1>8 DEF Windows!Next

\* A Clear call closes the window of its key, or repeats one of the same trap.
LEMMA ClearCloses ==
    ASSUME Alone, EngineInv, EntryInv, LastInHand, Uncleared, KnownInv, [Next]_vars,
           NEW w \in Workers, Busy(w), Alters(w), Clears(w)
    PROVE  Windows!Next \/ UNCHANGED <<now, OpenWindows, Verdicts, ClearCalls>>
<1> SUFFICES ASSUME NEW j, j = job[w].id, NEW k, k = NextKey(job[w].todo)
             PROVE  Windows!Next \/ UNCHANGED <<now, OpenWindows, Verdicts, ClearCalls>>
    OBVIOUS
<1>1. job[w].pc = "clear" /\ now' = now /\ j \in Ids /\ j \in 1 .. MaxEvents
    BY InHandLast DEF Clears, Alters, KnownInv
<1>2. k \in DedupKeys
    BY <1>1, ClearKeyKnown
<1>3. Verdicts' = Verdicts
  <2>1. \A v \in Workers : ~Puts(v) /\ ~Counts(v)
      BY DEF Alone, Clears, Puts, Counts
  <2> QED
      BY <2>1, VerdictStep
<1>4. ClearCalls' = ClearCalls \cup {<<j, k>>}
    BY ClearCallsStep
<1>5. OpenWindows' = [x \in DOMAIN OpenWindows \ {k} |-> OpenWindows[x]]
    BY WindowsAre DEF Clears, Clear, Without, OpenWindows
<1>6. CASE <<j, k>> \notin ClearCalls
  <2>1. ClearCalls' # ClearCalls
      BY <1>4, <1>6
  <2>2. Windows!Close(j, k)
      BY <1>1, <1>3, <1>4, <1>5, <2>1 DEF Windows!Close
  <2> QED
      BY <1>1, <1>2, <2>2 DEF Windows!Next
<1>7. CASE <<j, k>> \in ClearCalls
  <2>1. k \in events[j].cleared
      BY <1>7 DEF ClearCalls
  <2>2. k \notin DOMAIN states
    <3>1. ASSUME k \in DOMAIN states PROVE FALSE
      <4> SUFFICES ASSUME NEW i, i = states[k].first PROVE FALSE
          OBVIOUS
      <4>1. i \in Ids /\ Opened(i)
          BY <3>1 DEF EntryInv, Origin
      <4>2. j > i
          BY <4>1, InHandLater DEF Clears
      <4> QED
          BY <1>1, <2>1, <3>1, <4>2 DEF Uncleared
    <3> QED
        BY <3>1
  <2>3. OpenWindows' = OpenWindows
      BY <1>5, <2>2, WindowsAre DEF OpenWindows
  <2> QED
      BY <1>1, <1>3, <1>4, <1>7, <2>3
<1> QED
    BY <1>6, <1>7

\* Every step of the engine is a step of DedupWindows or changes nothing in it.
LEMMA StepImplements ==
    ASSUME Alone, EngineInv, DedupInv, OneWorkerInv, KnownInv, [Next]_vars
    PROVE  Windows!Next \/ UNCHANGED <<now, OpenWindows, Verdicts, ClearCalls>>
<1>t. TypeOK /\ HistoryInv /\ StoreTypeOK /\ now \in Nat
    BY DEF EngineInv, Inv, TypeOK
<1>i. /\ EntryInv /\ PutIsFresh /\ LastInHand /\ Uncleared /\ StillCovered
    BY DEF DedupInv, OneWorkerInv
<1>1. ASSUME NEW w \in Workers, Busy(w), Alters(w), Clears(w) \/ Counts(w) \/ Puts(w)
      PROVE  Windows!Next \/ UNCHANGED <<now, OpenWindows, Verdicts, ClearCalls>>
    BY <1>1, <1>i, ClearCloses, CountSuppresses, PutOpens
<1>2. ASSUME Verdicts' = Verdicts, ClearCalls' = ClearCalls, UNCHANGED states,
             now' = now \/ now' = now + 1
      PROVE  Windows!Next \/ UNCHANGED <<now, OpenWindows, Verdicts, ClearCalls>>
  <2>1. OpenWindows' = OpenWindows
      BY <1>2 DEF OpenWindows
  <2>2. CASE now' = now + 1
      BY <1>2, <2>1, <2>2 DEF Windows!Next, Windows!Tick
  <2> QED
      BY <1>2, <2>1, <2>2
<1>3. ASSUME NEW w \in Workers, Takes(w)
      PROVE  Windows!Next \/ UNCHANGED <<now, OpenWindows, Verdicts, ClearCalls>>
  <2>1. job[w].pc = "idle" /\ \A v \in Workers : v = w
      BY <1>3 DEF Takes, Busy, Alone
  <2>2. \A v \in Workers : ~Clears(v) /\ ~Counts(v) /\ ~Puts(v)
      BY <2>1 DEF Clears, Counts, Puts
  <2> QED
      BY <1>2, <1>3, <2>2, VerdictStep, ClearCallsStep DEF Takes
<1>4. CASE Waits
  <2>1. Verdicts' = Verdicts /\ ClearCalls' = ClearCalls
      BY <1>4 DEF Waits, Verdicts, ClearCalls, Judged, Opened, Ids
  <2>2. ASSUME now' = now, NEW t \in {now - 1, now}, Cleanup(t) PROVE Windows!Expire
    <3>1. t \in Int /\ t <= now
        BY <1>t
    <3>2. /\ DOMAIN states' \subseteq DOMAIN states
          /\ \A x \in DOMAIN states' : states'[x] = states[x]
          /\ \A x \in DOMAIN states \ DOMAIN states' : Expired(states[x], t)
        BY <2>2 DEF Cleanup, Without
    <3> QED
        BY <1>t, <2>1, <2>2, <3>1, <3>2, ExpiredLater, ExpireIs
  <2> QED
      BY <1>2, <1>4, <2>1, <2>2 DEF Waits, Windows!Next
<1>5. ASSUME NEW w \in Workers, Busy(w), Alters(w), ~Clears(w), ~Counts(w), ~Puts(w),
             Ends(w) \/ Loads(w) \/ Gets(w) \/ Misses(w)
      PROVE  Windows!Next \/ UNCHANGED <<now, OpenWindows, Verdicts, ClearCalls>>
  <2>1. \A v \in Workers : ~Clears(v) /\ ~Counts(v) /\ ~Puts(v)
      BY <1>5 DEF Alone
  <2>2. Verdicts' = Verdicts /\ ClearCalls' = ClearCalls /\ now' = now
      BY <1>5, <2>1, VerdictStep, ClearCallsStep DEF Alters
  <2>3. CASE Gets(w)
    <3>1. /\ DOMAIN states' \subseteq DOMAIN states
          /\ \A x \in DOMAIN states' : states'[x] = states[x]
        BY <2>3 DEF Gets, Get, Without
    <3>2. \A x \in DOMAIN states \ DOMAIN states' : Expired(states[x], now)
        BY <2>1, EntryGone
    <3> QED
        BY <1>t, <2>2, <3>1, <3>2, ExpireIs DEF Windows!Next
  <2>4. CASE Ends(w) \/ Loads(w) \/ Misses(w)
      BY <1>2, <2>2, <2>4 DEF Ends, Loads, Misses
  <2> QED
      BY <1>5, <2>3, <2>4
<1> QED
    BY <1>t, <1>1, <1>3, <1>4, <1>5, NextIs

\* With one worker the engine implements DedupWindows: through reloads, evictions and
\* ticks between Get, Touch and Put, every trap is judged once, on the only window of
\* its key, and a window is left only by its clear, its end or its eviction.
THEOREM ImplementsDedupWindows ==
    ASSUME Alone PROVE Spec => ImplementsWindows
<1>1. Init => Windows!Init
  <2> SUFFICES ASSUME Init PROVE Windows!Init
      OBVIOUS
  <2>1. states = [k \in {} |-> 0] /\ Ids = {} /\ now = 0
      BY DEF Init, StoreInit, Ids
  <2>2. OpenWindows = [k \in {} |-> 0] /\ Verdicts = [t \in {} |-> 0] /\ ClearCalls = {}
      BY <2>1 DEF OpenWindows, Verdicts, Judged, ClearCalls
  <2> QED
      BY <2>1, <2>2 DEF Windows!Init
<1>2. EngineInv /\ DedupInv /\ OneWorkerInv /\ KnownInv /\ [Next]_vars
        => [Windows!Next]_(Windows!vars)
    BY StepImplements DEF Windows!vars
<1> QED
    BY <1>1, <1>2, OneWorkerCorrect, KnownInit, KnownStep, PTL
       DEF Spec, ImplementsWindows, Windows!Spec
=============================================================================
