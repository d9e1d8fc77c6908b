------------------------------ MODULE DedupStore ------------------------------
(***************************************************************************)
(* The in-memory deduplication table of internal/dedup/store.go.           *)
(*                                                                         *)
(* states maps a cache key (alarm rule, key hash) to the DedupState that   *)
(* suppresses the repetitions of one alarm.  Every method of Store holds   *)
(* s.mu from its first to its last statement, so each one is one action;   *)
(* what two callers may do between their calls is not protected, and is    *)
(* what module Engine is about.                                            *)
(*                                                                         *)
(* An event is a record with at least the fields id (it stands for the     *)
(* compacted FirstEvent, of which the store only keeps the identity) and   *)
(* at (ReceivedAt, in seconds).                                            *)
(***************************************************************************)
EXTENDS Integers, FiniteSets

CONSTANT Limit          \* limit: server.max_dedup_entries; 0 or less: no limit

ASSUME LimitAssumption == Limit \in Int

VARIABLE states         \* states map[cacheKey]*model.DedupState

DedupState == [first       : Nat,      \* FirstEvent
               firstSeenAt : Int,
               lastSeenAt  : Int,
               ttl         : Int,      \* TTLSeconds
               hold        : BOOLEAN,  \* HoldUntilClear
               suppressed  : Nat]      \* SuppressedCount

ExpiresAt(s) == s.firstSeenAt + s.ttl

\* Mutants of Expired: a held entry expires too; the window ends one tick early or
\* lasts one longer.
ExpiredHeld(s, now)  == ExpiresAt(s) <= now
ExpiredEarly(s, now) == ~s.hold /\ ExpiresAt(s) <= now + 1
ExpiredLate(s, now) == ~s.hold /\ ExpiresAt(s) < now

\* The condition under which Get and Cleanup delete an entry.  An entry that
\* is held until its clear never satisfies it.
Expired(s, now) == ~s.hold /\ ExpiresAt(s) <= now

Without(K) == [k \in DOMAIN states \ K |-> states[k]]

\* NewStore
StoreInit == states = [k \in {} |-> 0]

-----------------------------------------------------------------------------

\* Mutant of Found: Get does not look at HoldUntilClear.
FoundInTTL(k, now) == k \in DOMAIN states /\ ExpiresAt(states[k]) > now

\* Mutant of Found: the window ends a second early.
FoundShort(k, now) == k \in DOMAIN states /\ ~Expired(states[k], now + 1)

\* Get returns the entry of k, or nil: nil is ~Found.
Found(k, now) == k \in DOMAIN states /\ ~Expired(states[k], now)

\* Get deletes the entry it finds expired.
Get(k, now) ==
    states' = IF k \in DOMAIN states /\ Expired(states[k], now)
              THEN Without({k})
              ELSE states

\* Mutant of Touched: the window slides.
TouchedSlide(s, e) == [s EXCEPT !.lastSeenAt = e.at, !.firstSeenAt = e.at,
                                !.suppressed = @ + 1]

\* Touch also runs when the entry went away since Get: it then returns nil and
\* changes nothing.
Touched(s, e) == [s EXCEPT !.lastSeenAt = e.at, !.suppressed = @ + 1]

Touch(k, e) ==
    states' = IF k \in DOMAIN states
              THEN [states EXCEPT ![k] = Touched(@, e)]
              ELSE states

\* The entries evictOldestLocked may delete: Go's map order picks one of those
\* that were least recently seen.
Oldest == {k \in DOMAIN states :
             \A x \in DOMAIN states :
                states[k].lastSeenAt <= states[x].lastSeenAt}

\* Mutant of Room: evict only when the table is already too large.
RoomLate == IF Limit > 0 /\ Cardinality(DOMAIN states) > Limit
            THEN {DOMAIN states \ {k} : k \in Oldest}
            ELSE {DOMAIN states}

\* The sets of keys Put may find in the table once it made room.  The test is
\* on the size alone, so a Put that overwrites an entry evicts one as well.
Room == IF Limit > 0 /\ Cardinality(DOMAIN states) >= Limit
        THEN {DOMAIN states \ {k} : k \in Oldest}
        ELSE {DOMAIN states}

NewState(e, ttl, hold) ==
    [first |-> e.id, firstSeenAt |-> e.at, lastSeenAt |-> e.at,
     ttl |-> ttl, hold |-> hold, suppressed |-> 0]

Put(k, e, ttl, hold) ==
    \E kept \in Room :
        states' = [x \in kept \cup {k} |->
                     IF x = k THEN NewState(e, ttl, hold) ELSE states[x]]

\* Mutant of Clear: the entry stays, with its count reset.
ClearCount(k) ==
    states' = [x \in DOMAIN states |->
                 IF x = k THEN [states[x] EXCEPT !.suppressed = 0] ELSE states[x]]

Clear(k) == states' = Without({k})

Cleanup(now) ==
    states' = Without({k \in DOMAIN states : Expired(states[k], now)})

-----------------------------------------------------------------------------

\* Type invariant: a finite map to DedupState records.
StoreTypeOK == /\ IsFiniteSet(DOMAIN states)
               /\ states = [k \in DOMAIN states |-> states[k]]
               /\ \A k \in DOMAIN states : states[k] \in DedupState

\* The table never holds more than server.max_dedup_entries entries: Put makes
\* room before it inserts, whatever the order of the calls of the workers.
StoreBounded == Limit > 0 => Cardinality(DOMAIN states) <= Limit
=============================================================================
