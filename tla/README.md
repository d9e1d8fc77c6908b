# A TLA+ model of snmptrap-relay

snmptrap-relay receives SNMP traps over UDP, filters them, suppresses the
repetitions of an alarm inside a TTL window (or until its clear trap comes), and
forwards what is left. This directory has TLA+ modules for the parts of the relay
that decide what happens to a trap, TLC configurations that check them on small
instances, and TLAPS proofs of the main results for every value of the constants.

    tlc -workers 2 -config EngineSequential.cfg MCEngine     # one run
    tlapm EngineProofs.tla                                   # one module of proofs

`PROJECT.json` lists every run, the lines of code each definition models, and a
mutant for every property that shows the property can fail.

## Inventory

| Part | Source | State | Operations |
| --- | --- | --- | --- |
| Dedup store | `internal/dedup/store.go` | map of `DedupState` by (rule, key hash), the limit, one mutex | `Get`, `Touch`, `Put`, `Clear`, `Cleanup` |
| Engine | `internal/engine/engine.go` | an atomic pointer to the runtime state (configuration, decoder, forwarder, logger, alerts file), the store | `Parse`, `HandleEvent`, `Cleanup`, `Reload` |
| Match rules, OIDs | `internal/match`, `internal/oidutil` | none (pure) | `ResolveField`, `Matches`, `BuildDedupKey`, `Normalize`, `Lookup`, `Variants` |
| Event construction | `internal/receiver/decoder.go` | the decoder's aliases and SNMPv3 users | `Decode`, `packetToEvent`, `buildFields` |
| Forwarder | `internal/forward/udp.go` | one socket per enabled target | `Send`, `Close` |
| Server | `internal/server/server.go` | packet channel, counters, queue gauge, two tickers | `Run` (reader), `runWorker`, `processPacket` |
| Supervisor | `cmd/snmptrap-relay/main.go` | the open handles, the signal channel, the server's error channel | start, SIGHUP reload, SIGINT/SIGTERM, exit |
| Logging | `internal/logging` | log file, alerts file | open, write, close |
| Metrics | `internal/metrics` | HTTP listener | `Start`, `Close`, scrape |
| Configuration | `internal/config` | none (pure) | load, defaults, validation, memory limit |
| Trap parser, BER | `internal/snmp`, `internal/ber` | none (pure) | parse SNMPv1/v2c bytes |
| Load generator | `cmd/snmptrap-relay-perf` | - | benchmark, not part of the relay |

How they interact. The reader goroutine puts datagrams into a channel without
blocking, `worker_count` workers take them out and call `Engine.Parse` and
`Engine.HandleEvent`. The engine holds **no lock**: it loads the runtime state once
and then makes a sequence of calls to the store, each of which is atomic by itself,
and one to the forwarder. The reader also calls `Engine.Cleanup` on a ticker. The
main goroutine serves signals: SIGHUP builds a second set of resources, swaps the
runtime state in one atomic store, and closes the old set while workers may still
be using it.

What is hard here, and what makes each part correct:

* *check-then-act over the store*: `Get`, `Touch` and `Put` are three critical
  sections. Correct means that inside a window a trap is suppressed, that one is
  suppressed only for a window that covers it, that the work of a clear is not undone
  by a worker it overtook unless that worker had already looked, and that the table
  stays within its limit;
* *resources closed under their users*: a reload closes the forwarder and the
  alerts file of a runtime state that workers still have. Correct means that a loss
  is reported, and has a cause;
* *two spellings of one key*: a clear finds its alarm only if the key rebuilt from
  the rule and the clear trap is the one the alarm was stored under, although one may
  have been read by gosnmp and the other by the fallback parser;
* *truncated input*: a datagram longer than `max_datagram_size` is cut without an error,
  and no part of a trap may be taken for a trap;
* *a value that slips through*: defaults, validation and inheritance come one after the
  other, and the parts that use a setting do not look at it again;
* *partial failure*: one target of several fails; one of seven stages of a reload
  fails and must undo exactly those before it;
* *shutdown*: the reader waits for workers that wait for a channel or a context;
* *gauges and counters* updated apart from what they count.

## Modules

| Module | Models | Composition |
| --- | --- | --- |
| `DedupStore` | the store: one operator per method, on `states` | - |
| `TrapRules` | event construction (SNMPv1 and v2c), match expressions, filter, clear and alarm rules, as pure operators | - |
| `TrapParser` | `internal/ber`, `internal/snmp`, and how `Decode` falls back to them: from bytes to a packet | extends `TrapRules` |
| `Config` | `internal/config`: defaults, validation, inheritance, memory limit; what the parts check themselves when they are built | extends `TrapRules` |
| `AlarmRule` | one alarm rule and its clear rule, under the alarm and clear traps of several instances | extends `TrapRules` |
| `Engine` | workers, cleanup, reload, forwarding, alerts file | extends `DedupStore` and `TrapRules` |
| `DedupWindows` | abstract: what deduplication promises | - |
| `EngineWindows` | `Engine` as an implementation of `DedupWindows` | extends `Engine`, instantiates `DedupWindows` |
| `Server` | reader, queue, workers, counters, shutdown | - |
| `Relay` | the reader and the workers with the engine calls they make | instantiates `Server` and `Engine` |
| `Supervisor` | main: configuration files, handles, signals, reload, exit | extends `Config` |
| `MCTraps` | configuration files and datagrams the instances share | extends `Config` |
| `MCEngine`, `MCRelay`, `MCSupervisor` | constants for the runs | extend `MCTraps` |
| `MCTrapRules` | the alarm rule in every documented form, and the alarm, clear and truncated traps as bytes | extends `TrapParser` and `AlarmRule` |
| `AlarmRuleProofs` | the key of a clear and the key of its alarm, for every rule | extends `AlarmRule` |
| `EngineProofs` | lemmas on every method of the store; type invariant, table bound, stable windows | extends `Engine` |
| `EngineHistoryProofs` | alerts, delivery and losses; one configuration decides on a trap | extends `EngineProofs` |
| `EngineWindowProofs` | the table and the windows, any number of workers | extends `EngineHistoryProofs` |
| `EngineSequentialProofs` | deduplication with one worker, refinement of `DedupWindows` | extends `EngineWindowProofs`, `EngineWindows` |
| `ServerProofs` | packets, gauge and shutdown, any number of workers | extends `Server` |
| `RelayProofs` | the composition: counters, shutdown, refinement of both parts | extends `Relay` |
| `SupervisorProofs` | handles, endpoint, configuration in force, memory limit | extends `Supervisor` |

### From code to state

`DedupStore.states` is the Go map. An entry keeps the identity of its first event
(`compactEvent` keeps its text), `firstSeenAt`, `lastSeenAt`, `ttl`, `hold` and
`suppressed`. `evictOldestLocked` follows Go's map order among entries seen at the
same time, hence `Oldest` is a set and `Put` chooses from it. Times are seconds.

`TrapRules` takes a string as a sequence of the tokens the code tells apart, so that
the leading dot of an OID, the `varbind.` prefix and the blanks that `TrimSpace`
removes are there and the rest is not. The hash of a key is the list of its fields
and values, which is what the code hashes: collisions of SHA-256 are left out.
`regexp`, `strconv` and `strings` are external; the patterns in use are literals and
`.*`, and a pattern that starts with `*` (which is what `Normalize` makes of `.*`)
does not compile. The packet of an SNMPv1 trap has the fields of its own, from which
`packetToEvent` makes its `trap_oid`, `v1:<enterprise>:<generic>:<specific>`.

`TrapParser` works on sequences of bytes. `ReadTLV`, the lengths of one and of several
bytes, the signed and unsigned integers, the seven-bit groups of an OID, the choice of a
string or of hexadecimal digits for an octet string and the layout of the two PDUs are
those of the code; `Decode` tries gosnmp, which is external and given as the packet it
returns, or `<<>>`, and then `ParseTrap`. The parser makes an `int64` of the version
(an error if it does not fit), of the request fields (the nearest one if it does not) and of the
numbers of an SNMPv1 trap (the low bits): `IntBits` is the width, 64 in the code and 16 in
`rules`, where a version of three bytes does not fit.

`Config.Load` takes a file as what YAML decoding leaves (0 and "" for what is not
there). An `int64` has 22 bits (`MaxInt`, `Wrap`), so that products that overflow are
within reach of TLC, and the units that do not fit are left out. The configurations of the engine runs
are what `Load` returns for the files of `MCTraps`.

`AlarmRule` handles one event at a time: `HandleEvent` makes the `Clear` calls and then puts
the entry of a trap that goes to the dedup store. An entry is kept with the instance that
raised it, which the store does not know and the properties are about. Windows do not end there
and nothing is evicted. `EventOf` is what the decoders make of a trap: in `MCTrapRules`
it is computed from the bytes.

`Engine.job[w]` is the stack of a worker: the next call, the event, the runtime state
it loaded (`gen`, an index into `Configs`), where the rules send it (`route`), the
`Clear` calls left (a function from the index of the alarm to the key its clear rule
names, taken in the order of the alarms), and `AlertsLogged`. `closed` says how far a reload got in closing
what it replaced. `events` is a history variable: for every datagram what became of
it, under which configuration, when it opened a window, which keys it cleared or
evicted, which targets missed it and how many alerts lines it has. No action reads
it, other than to give the next event its number.

| Action | Code |
| --- | --- |
| `Parse`, `ParsePacket` | `Engine.Parse`: `ReceivedAt`, and the event that either decoder makes |
| `HandleEvent` | `HandleEvent` up to its first call: load state, filters, rules |
| `ApplyAlarmClearRule` | one `Clear` of `applyAlarmClearRules` with its alerts line |
| `DedupGet`, `DedupTouch`, `DedupPut` | the three calls in `HandleEvent` |
| `Send` | `UDPForwarder.Send` and the alerts line, for alarms, traps without a key and `forwardPassThrough` |
| `FailMatch` | an alarm rule that cannot be evaluated |
| `CleanupTick` | `Engine.Cleanup`, with the time of a tick that may have waited |
| `Reload`, `CloseOldAlerts`, `CloseOldForwarder` | `Engine.Reload`, and what `main` closes after it, in its order |

A forwarder that is being closed may have closed some sockets and not others: from the
time the alerts file is closed until the forwarder is, `Send` may miss any set of
targets; afterwards it misses all.

`Server` has one action per select case, channel operation and counter: the counter
and the queue are two steps, in the code's order. There an outcome is chosen freely.
In `Relay` it is the engine's: the reader's `Engine.Cleanup` is one step with the tick
that asks for it; a worker that received a datagram makes `Parse` and the calls of
`HandleEvent` as steps of its own, and `CountOutcome` comes after them. The parts share
nothing but the workers' names, and every step of `Relay` is a step of one of the
parts, of both, or of a part and of `datagrams` or `hand`.

`Supervisor` names a handle by its kind and the number of the set it was built in, so
that a handle that is closed twice, forgotten or closed instead of another is visible.
A reload is one action there, because nobody else opens or closes handles; what workers
see of it is in `Engine`. `Stages` are the steps in which `main` builds a set: a file
that `Load` refuses, a log format, an SNMPv3 user or a duplicate HTTP path fail where the code
notices them (`MustFail`), and files, sockets and addresses may fail (`MayFail`).
`inForce` is the configuration the engine has, `serverCfg` the one the server was built
with and keeps, and `limit` what `debug.SetMemoryLimit` was last given.

The refinement. `EngineWindows` maps the entries of the store to windows (the entry's
end becomes `until`), the history's judged traps to `verdict`, and its clears to
`clears`. `Put` is `Open`, `Touch` is `Suppress`, `Clear` is `Close`; the removal of an
expired entry in `Get` and `Cleanup` is `Expire`; parsing, routing, forwarding and
reloading are stutters. `DedupWindows` has a limit like the store: 0 or less is none. A
trap that meets a clear rule and then an alarm of the same key clears its own key before it
opens a window, which `ClearedBetween` counts as a clear between the two traps.

## Runs

| Run | Question | Distinct states |
| --- | --- | --- |
| `rules` | Does a clear reset exactly the alarm of its instance, in every form of the rule, whichever decoder read either trap? Is a truncated trap refused? | 7 900 |
| `engine_sequential` | One worker: is it what `DedupWindows` promises, through a reload that changes `ttl` and `key_fields`? | 327 000 |
| `engine_concurrent` | What is left of it with two workers and a table of one entry; is every event decided? | 204 000 |
| `engine_reload` | Two workers, all routes through `HandleEvent`, a trap that three clear rules look at (two take it, the third resets `matchedClear`), a failing target, a reload that closes things under them | 112 000 |
| `relay` | Do the counters tell what the engine did; is anything half handled when `Run` returns? | 379 000 |
| `server` | Packet conservation, gauge, shutdown; is every packet settled and cleanup not starved? | 53 000 |
| `supervisor` | No handle leaked or closed in use, and nothing but a runnable configuration in force, in any sequence of good and bad files | 182 000 |
| five `violation` runs | the findings below | - |

Properties, by what they say:

* **Store.** `StoreBounded`; `RemovalJustified` (an entry leaves because it is over,
  was cleared, or was least recently seen at the limit); `WindowFixed` (a repetition
  never moves a window). They are checked on the calls that two workers really make.
* **Rules.** `ClearResets`, `ClearIsPrecise` and `OneKeyPerInstance` relate the key of
  an alarm to the key of its clear through the whole chain of bytes, decoding, aliases,
  OID normalisation and `trap_oid` substitution; `RoutesByKind`; `DecodersAgree` (the
  fields one decoder gives a datagram are those of the other, all of them and with their raw values,
  but for the differences that `AsFallback` spells out); `IncompleteRejected`.
* **Windows.** `SuppressedInsideWindow` and `SuppressionJustified` are the two
  directions of deduplication, over pairs of events of the history; `FirstTrapStable`
  (no window is restarted); `ImplementsWindows`. With two workers the first is false, and
  three properties say what survives: `SuppressedUnlessRaced` (a trap taken after another was decided is still
  suppressed inside its window, unless a trap handled between or beside the two cleared
  or evicted the key or raced for the window), `ClearTakesEffect` (no trap taken after a
  clear was decided is suppressed for a window decided before it was taken), and
  `DuplicateOfOpened` (the entry `Touch` counts a repetition in may have been put after
  `Get` found another one, but it was opened by a trap of its key).
* **Alerts and delivery.** `AlertedOnce`; `AlertsComplete` (the alerts file has the
  lines of the traps that were forwarded or that a clear rule took, no others, and lacks one only
  to a reload); `LostOnlyToFaultOrReload`.
* **Reload.** `HandledAsLoaded`: a reload may come between any two calls of `HandleEvent`, but
  the filters, the clears and the way of a trap are those of one configuration, and when the
  trap is decided every `Clear` that configuration asks for was called.
* **Server.** `EveryPacketAccounted`, `DepthTracksQueue` (which also says when the gauge
  is wrong, and by how much), `QuietAfterReturn` (nothing of the server moves once its
  socket is closed or `Run` has returned), `ShutdownReturns`,
  `EveryPacketSettled` (every datagram read is dropped or handled in the end, until
  `cancel()`, even if the socket failed), `CleanupServed`.
* **Relay.** `CountersTellOutcomes` (each counter but `accepted` is the number of the outcomes
  it is named for, `Meaning`), `NothingHalfHandled`.
* **Supervisor.** `NoHandleLeaked`; `EngineHandlesOpen`; `OneSetInForce` (the engine, the
  variables of `main` and the metrics settings are those of one configuration, whatever reloads
  were rejected in whatever stage); `MetricsKept` (an enabled endpoint stops only when
  `metrics_restore_failed`, and is back with the next change of its settings);
  `RunnableInForce`; `MemoryLimitPositive`.

### Bounds

* Time runs to 1 or 2 and windows are 1 or 2 long: before, at and after the end of a
  window all occur, and a second window fits after the first. The tick a cleanup serves
  may be older than the clock.
* Three or four events: an alarm, its clear, the alarm again and a repetition. Two
  events where two workers and every kind of datagram are combined with a reload, and
  in `relay`, where each has some twenty steps.
* Two workers: each hazard of the code is between two calls of one worker and one call
  of another. In `relay` they are symmetric.
* Limit 1 or 2 with as many keys or more; 10 in the violation runs, where eviction would hide
  what is asked.
* `rules`: two instances, 255 (two bytes, so as not to be negative) and -1 (one byte that
  is); OID arcs above 127;
  short and long lengths; every prefix of every datagram, of its message and of its PDU; a
  version wider than `IntBits`.
* Queue of 1, two workers, three datagrams: full, empty and -1 on the gauge occur.
* Four sets of resources in the `supervisor` runs: start and three reloads, each accepted or
  rejected in any stage, with one of some sixty configuration files each. A metrics endpoint
  that cannot be opened, one that cannot be restored either, and reloads after that are among them.
* The bounds of `Parse` and `Tick` stop the system, hence `CHECK_DEADLOCK FALSE`; the
  server and the supervisor stop by design. `rules` checks for deadlock.

### Fairness

* `Engine`: weak fairness of the steps in which a worker handles the event it took and
  of the two closing steps of a reload. Nothing in `HandleEvent` blocks on another
  goroutine for longer than the store's mutex, and the Go scheduler runs every goroutine
  that can run. No fairness for the arrival of datagrams, ticks or reloads.
* `Server`: weak fairness of the reader and of each worker (nothing in `processPacket`
  blocks, which is `EveryEventDecided` of `Engine`); strong fairness of the cases
  of a `select`, because Go chooses uniformly among the ready ones, so a case that is
  ready time and again is taken. `ReadFromUDP` has a 500 ms deadline, so the reader
  never blocks. The tickers and `cancel()` are not assumed to fire.
* The other modules state none: their properties are about what a step may do.

## Proofs

Each theorem names the property that a run checks on a small instance and holds for every
value of the constants: any set of workers, any datagrams, files and rules, any number of
reloads, no bound on time or events. The assumptions on the constants, all of them evaluated
by TLC in the runs:

* `LimitAssumption` (`max_dedup_entries` is an integer, of any sign), `MaxEventsAssumption` and
  `MaxSetsAssumption` (the bounds are numbers);
* `ConfigsAssumption`: there is a configuration; its alarms have an integer TTL and Boolean
  flags, as `config.validate` leaves them;
* `QueueSizeAssumption` (`validate` wants at least 1) and `WorkersAssumption` (`worker_count`
  goroutines are finitely many);
* `ConfigFilesAssumption`: a file has the fields of `AppConfig` with values of their Go
  types, and its memory limit is text in which blanks are one token;
* of an alarm rule (`AlarmsAssumption`): it has key fields, which its clear rule may repeat; if
  `trap_oid` is one of them, the rule fixes its value, alone or among the conditions of `all`;
* of its traps: they meet the rule or its clear rule (`TrapsAssumption`); an alarm and its
  clear share the values of the key fields other than `trap_oid`, with every decoder, and two
  instances do not (`InstancesAssumption`); a decoded `trap_oid` is normalized
  (`NormalizedAssumption`). In `rules` TLC evaluates these on the 605 forms of the rule and on
  what both decoders make of the bytes of the traps.

Every invariant below was first checked by TLC on the instance of the run, then proved.

**Store and engine.**

* `EngineProofs`, first part: each method of the store keeps `StoreInv` (a finite map of records within the
  limit), with what it does to the other entries. `Put` is the interesting one: it makes
  room by the size alone, so the cases are eviction of the key itself, of another, and none.
* `EngineProofs`, second part: `Inv == TypeOK /\ StoreBounded` is inductive. `TypeOK` is strong enough
  because it ties a worker's route to the configuration the worker loaded, not the one in
  force; that `route.alarm` is in its range is a lemma on `FirstIndex`. This gives
  `TypeCorrect` and `Bounded`. For one worker, `PutIsFresh` (between a `Get` that found
  nothing and its `Put` the key is absent) is inductive relative to `Inv`, and gives
  `WindowsNeverRestarted`. With two workers `PutIsFresh` is false, which is the first finding.
* `EngineHistoryProofs`: `HistoryInv` says that two workers never have the same event, that
  the history of an event in the hands of a worker agrees with the worker's stack (in
  particular that an event whose alerts line was written is marked), and that `closed`
  is behind `current`. None of the three properties is inductive without all of it:
  `AlertedAtMostOnce`, `AlertsAreComplete` (a line that is due is written, or the file was closed
  by a reload: `WrittenIfOpen`), `LossHasACause`.
  `OneConfigurationDecides` needs what the history does not tell: `RulingInv` says that a
  worker's route is the one the configuration it loaded gives its event, and that the keys cleared
  so far together with the `Clear` calls left are exactly the keys that configuration clears.
* `EngineWindowProofs`, any number of workers. A first part reduces the actions to what they
  do to one stack, one event and the table (`Takes`, `Loads`, `Clears`, `Gets`, `Counts`,
  `Misses`, `Puts`, `Ends`, `Waits`); all later proofs split on these. `RemovedForAReason` and
  `WindowsStayFixed` follow from them. For the properties of the history, `DedupInv` ties the
  table and the history together: an entry is the window its first event opened, and no clear
  taken after that event was decided names it (`EntryInv`); what a `Get` found is in the history
  when the worker goes on to `Touch`, and an entry it meets in `Put` is none of an event decided
  before its own was taken (`CallInv`); and the entry of a window is in the table until the window
  is over, or an event not decided before it cleared, evicted or replaced it (`OpenInv`). It gives `DuplicatesAreRepetitions`,
  `ClearsTakeEffect` and `ThroughOnlyByRace`. The last one is the exact extent of the first
  finding: a repetition gets through its window only beside a trap that clears, evicts or
  races for the same key.
* `EngineSequentialProofs`, one worker (`Alone`). `OneWorkerInv` adds that the event in hand is
  the last one, that no event after an entry's first cleared its key, that the entry `Get` found
  covers the event until `Touch`, and that a window stays in the table until it is over, cleared
  or evicted. It gives both directions of deduplication without exception,
  `SuppressedWithoutRace` and `SuppressedWithReason`, and `ImplementsDedupWindows`: initial
  states map to initial states, and each kind of step to `Open`, `Suppress`, `Close`, `Expire` or a
  stutter (`PutOpens`, `CountSuppresses`, `ClearCloses`, `ExpireIs`, `StepImplements`).

**Server.** `ServerProofs`: `EveryPacketAccounted` and `DepthTracksQueue` are inductive with
`TypeOK`; they are equations between counters, the length of the queue and numbers of workers,
and the lemma `Moves` does the counting once for all steps. `QuietOnceReturned` needs that
`Run` returns, and closes its socket, with every worker out of its loop, and that a worker that
left its loop stays out.

**Composition.** `RelayProofs`: `ImplementsServer` and `ImplementsEngine` say that every step of
`Relay` is a step of each part or leaves it alone, so what is proved of the parts holds of the
composition. The second needs that the number in a worker's hand is that of a datagram
received (`Numbered`). `CountersAreOutcomes` and `NothingLeftHalfHandled` are about both parts
at once and follow from `RelayInv`: hands, `runWorker`'s places, the engine's stacks and the
history agree (`HandInv`: no event in two hands, none pending in no hand), every datagram is
somewhere (`Whereabouts`), and each counter together with what is owed to it is the number of
the outcomes it is named for (`Ledger`). A step that decides an outcome is the step in which
its worker starts to owe it (`EvenStep`); `CountOutcome` pays (`PaidStep`).

**Supervisor.** `SupervisorProofs`: `Handling` (while `main` serves, every open handle is named by
one of its variables, these name handles of sets that were built, and the engine names the same
ones of its kinds, which are open) gives
`HandlesClosed` and `EngineUsesOpen`; a stage of a reload closes what the
stages before it opened because the handles of a set are fresh. `ReloadIsAllOrNothing` adds
`SetInv`, that the handles in use are those of one set and of the configuration in force, and
`EndpointKept` follows from both. `AlwaysRunnable` and `LimitStaysPositive` are facts
about `Load` and `ParseMemoryLimit` for every file: what `applyDefaults`, `validate` and the
inheritance of the dedup settings leave can be run, and no product of a number and a unit that
is accepted wraps (with the 22 bits of `MaxInt`).

**Rules.** `AlarmRuleProofs`, for every alarm rule, key fields, set of instances and way of
decoding within the assumptions. `ClearKeyIsAlarmKey` is the core: a rule keyed on
`trap_oid` fixes it, so an event that matches the rule has that OID up to its spelling
(`MatchFixesOID`, in a plain match and in a list of conditions); `cloneEventWithTrapOID` changes
what `trap_oid` resolves to and nothing else (`ResolveOID`, `ResolveClone`); and `BuildDedupKey`
gives two events the same key if and only if they agree on every key field
(`SameValuesSameKey`, `KeyTellsValues`). `ClearsReset` has one more hypothesis,
`SpelledAsDecoded`: the OID in the rule is normalized, as the one in the event is. That is what
the rule of `clear_dotted_oid` lacks. `ClearsArePrecise` and `InstancesHaveKeys`
need no such hypothesis: a clear that misses its alarm does not hit another one.
All three follow from one invariant, that the entry of an instance is under the key of its alarm.

Only model-checked: the liveness properties `EveryEventDecided`, `ShutdownReturns`,
`EveryPacketSettled` and `CleanupServed` (fairness and `ENABLED` are out of the
prover's reach); `RoutesByKind`, of which the proofs assume the part that matters (that the traps
meet the rule and its clear: `TrapsAssumption`), so that it is for TLC to find out with the bytes
of the traps; and `DecodersAgree` and `IncompleteRejected`, which are about what `TrapParser`
computes: it is recursive over the bytes of a datagram, and induction over data is out of
reach too.

## Findings

Each is a run that ends in a counterexample.

* `engine_race`: two workers with the same alarm both miss in `Get` and both forward it,
  inside one window.
* `engine_reload_loss`: `Put` comes before `Send`, and a failed `Send` leaves the entry. A
  reload in between closes the forwarder: the alarm reaches nobody and its repetitions are
  suppressed. A target that fails has the same effect.
* `clear_dotted_oid`: `trap_oid: .1.3...` in an alarm rule whose key has `trap_oid` matches
  the alarm, but its clear looks under the dotted OID and resets nothing.
* `server_fatal_read`: after a socket error `Run` waits for workers nobody stops; the
  process stays up and deaf.
* `supervisor_server_log`: the server keeps the logger of the first configuration, whose
  file a reload closes.

Seen while modelling, without a run:

* the alerts line of a clear trap is written before the trap is sent, and remains if it
  is lost, or suppressed because a later rule's regex reset `matchedClear`, although
  model/types.go:37 has the file as one "where only forwarded alerts are written"
  (`AlertDue` in `Engine` says what it has);
* a held entry can be evicted at the limit (documented), and `Put` may evict a live entry
  while expired ones wait for cleanup, even when it only overwrites its own key;
* `queue_depth` may show -1 for a moment;
* `accepted` does not count traps whose forwarding failed: `HandleEvent` returns them as
  `Accepted` with an error, on which `processPacket` (server.go:168) returns before
  `recordOutcome`. The relay's README has `accepted_total` as "total events accepted by the
  engine" and a rising `forward_failed_total` as traffic "the relay accepted", so a reader who
  takes `accepted` minus `forwarded` for the losses gets 0;
* when a new metrics listener cannot be opened and the old address cannot be bound again,
  `main` logs `metrics_restore_failed` and goes on without an endpoint (action `RestoreFails`),
  although the relay's README says that it "keeps the previous metrics endpoint active".
  `metricsServer` goes on naming the closed listener, so later reloads that leave `metrics.*`
  alone keep it that way;
* docs/configuration.md:133 gives a forwarder's `enabled` the default `true`; nothing in
  `internal/config` sets it, so a target without `enabled` is off and `NewUDP` skips it without a
  word. A configuration with no other target forwards to nobody, and `Send` reports success;
* the signal channel holds one signal, so a SIGTERM during a pending SIGHUP is lost;
* the memory limit of a reload that is rejected later stays applied;
* `metrics.path: /healthz` passes `validate`; `http.ServeMux` then panics on the second
  handler. At start that is a crash; at a reload it ends a running relay (action
  `ReloadPanics`), although docs/architecture.md says that SIGHUP reloads the
  configuration "without stopping the listener";
* `stats_log_interval: 0` becomes 60 in `applyDefaults`, although docs/configuration.md
  says "Set to `0` to disable periodic stats logging." and `Run` would do so. `Runnable` lets 0
  pass: it is no setting the server could not run with;
* a negative `ttl` is accepted: every entry is over when it is put;
* `--check-config` with the metrics enabled binds the trap port and the metrics port, so it
  fails beside a relay that runs;
* an operator that does not exist, and a pattern on an OID field that starts with a dot, are
  only noticed when a trap reaches them;
* a `trap_oid` that stands beside `all`, `any` or `not` in a rule is not looked at when a trap
  is matched, but its value still goes into the key of a clear (`staticMatchFieldValue` reads it
  first); and a key field written `fields.trap_oid` has the value of `trap_oid` in an alarm, but
  is not recognised when a clear rebuilds the key. `AlarmsAssumption` leaves both out;
* after a reload that drops a clear rule or changes `key_fields`, entries held under the
  old rule can only be evicted (`Rekeyed` in `MCEngine`);
* the fallback parser takes the first byte of an OID for two arcs, so that an arc under 2
  from 48 on is read wrong; it accepts an OID that ends in 0x80, and does not compare the
  tag of the PDU with the version;
* the two decoders differ in what rules and keys see, without a trace of which one read the
  trap: `pdu_type` is `SNMPv2Trap` from gosnmp and `0xa7` from the fallback; `request_id`,
  `error_status` and `error_index` are documented fields (docs/configuration.md:323) that only the
  fallback sets; and gosnmp alone has the leading dot of OIDs that are values: `enterprise_oid`,
  varbinds, and the enterprise inside the `trap_oid` of an SNMPv1 trap. Comparisons normalise
  `enterprise_oid` and `varbind.<oid>`; aliases of varbinds, that `trap_oid` and every value
  `BuildDedupKey` takes are raw, so a rule keyed on them has two keys. `DecodersAgree` has these
  differences and no others.

## Not modelled

* gosnmp and with it SNMPv3 decryption and authentication: external, a packet or an error;
* YAML decoding, and the hosts and address resolution of the settings;
* the kinds of values no rule tells apart (counters, addresses and time ticks are decoded
  in `TrapParser`; how a float or an opaque value is printed is not);
* the HTTP side of the metrics endpoint and the text of a scrape (its numbers are those of
  `CountersTellOutcomes`), log levels, and the wording of logs;
* `--check-config` and the other command line flags;
* socket options of the forwarder;
* a wall clock that steps back;
* `cmd/snmptrap-relay-perf`, the load generator: it is a benchmark that calls the
  packages above, and keeps no state of the relay.
