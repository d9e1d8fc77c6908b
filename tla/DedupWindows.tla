----------------------------- MODULE DedupWindows -----------------------------
(***************************************************************************)
(* What deduplication promises, as README and docs/configuration.md state  *)
(* it, without the calls it is made of: an alarm instance has at most one  *)
(* window; the trap that opens it is forwarded and the traps that fall     *)
(* into it are counted and suppressed; it ends when its time is over (not  *)
(* if the alarm is held), when its clear comes, or when the table is full  *)
(* and it is one of those seen least recently.  Nothing else changes it:   *)
(* a new configuration has its say only over the windows opened later.     *)
(*                                                                         *)
(* Engine is the detailed specification; with one worker it implements     *)
(* this one (property ImplementsWindows of EngineWindows).                 *)
(***************************************************************************)
EXTENDS Integers, FiniteSets

CONSTANTS Keys,      \* alarm instances
          Terms,     \* per instance, the terms its window may have: [ttl, held]
          Limit,     \* how many windows there may be; 0 or less: any number
          Traps      \* the numbers of the traps

VARIABLES now,       \* the clock
          windows,   \* per open window, what was seen of it
          verdict,   \* per trap, the trap whose window it opened or fell into
          clears     \* <<t, k>>: trap t was the clear of instance k

vars == <<now, windows, verdict, clears>>

Init == /\ now = 0
        /\ windows = [k \in {} |-> 0]
        /\ verdict = [t \in {} |-> 0]
        /\ clears = {}

Window(t, at, term) == [first |-> t, last |-> at, until |-> at + term.ttl,
                        held |-> term.held, repeats |-> 0]

Over(k, t) == ~windows[k].held /\ windows[k].until <= t

LeastRecent == {k \in DOMAIN windows :
                  \A x \in DOMAIN windows : windows[k].last <= windows[x].last}

\* What may have to go before one more window is opened.
Victims == IF Limit <= 0 \/ Cardinality(DOMAIN windows) < Limit THEN {{}}
           ELSE {{k} : k \in LeastRecent}

\* Every trap is judged once.
Judge(t, first) ==
    /\ t \notin DOMAIN verdict
    /\ verdict' = [u \in DOMAIN verdict \cup {t} |->
                     IF u = t THEN first ELSE verdict[u]]

\* Trap t of an instance without a window is forwarded and opens one.
Open(t, k) ==
    /\ k \notin DOMAIN windows
    /\ Judge(t, t)
    /\ \E at \in 0 .. now, term \in Terms[k], out \in Victims :
          windows' = [x \in (DOMAIN windows \ out) \cup {k} |->
                        IF x = k THEN Window(t, at, term) ELSE windows[x]]
    /\ UNCHANGED <<now, clears>>

\* Trap t, received at a time the window of its instance covers, is suppressed.
Suppress(t, k) ==
    /\ k \in DOMAIN windows
    /\ Judge(t, windows[k].first)
    /\ \E at \in 0 .. now :
          /\ ~Over(k, at)
          /\ windows' = [windows EXCEPT ![k].last = at, ![k].repeats = @ + 1]
    /\ UNCHANGED <<now, clears>>

\* Trap t is the clear of an instance and takes its window away, held or not.
Close(t, k) ==
    /\ clears' = clears \cup {<<t, k>>}
    /\ windows' = [x \in DOMAIN windows \ {k} |-> windows[x]]
    /\ clears' # clears
    /\ UNCHANGED <<now, verdict>>

\* Windows go whose time is over.
Expire ==
    /\ \E K \in SUBSET {k \in DOMAIN windows : Over(k, now)} :
          windows' = [k \in DOMAIN windows \ K |-> windows[k]]
    /\ UNCHANGED <<now, verdict, clears>>

Tick == now' = now + 1 /\ UNCHANGED <<windows, verdict, clears>>

Next == \/ \E t \in Traps, k \in Keys :
              Open(t, k) \/ Suppress(t, k) \/ Close(t, k)
        \/ Expire
        \/ Tick

Spec == Init /\ [][Next]_vars
=============================================================================
