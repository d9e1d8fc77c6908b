------------------------------ MODULE Supervisor ------------------------------
(***************************************************************************)
(* cmd/snmptrap-relay/main.go: the main goroutine starts the relay, then   *)
(* serves signals.  SIGHUP builds a second set of resources (log file,     *)
(* alerts file, forwarder sockets, metrics listener) from the new          *)
(* configuration, swaps the engine over and closes the first set; every    *)
(* step of building may fail and must then undo the steps before it.       *)
(* SIGINT and SIGTERM cancel the server and wait for it.                   *)
(*                                                                         *)
(* A reload is one action: signals that arrive meanwhile find the channel  *)
(* as they would right before it, and what the workers see of a reload in  *)
(* progress is in module Engine.                                           *)
(***************************************************************************)
EXTENDS Config, FiniteSets

CONSTANTS ConfigFiles,     \* what may be in the configuration file
          MaxSets          \* bound: sets of resources built, 1 at startup

\* What the YAML decoder makes of a file: the sections below have these types.  In a
\* string a blank stands for a run of white space, so no two follow each other.
IsFile(file) ==
    /\ file = [f \in {"readable", "server", "memory", "metrics", "format", "hasLog",
                      "alerts", "users", "dedup", "aliases", "filters",
                      "defaultAction", "alarms", "targets"} |-> file[f]]
    /\ file.server \in [DOMAIN ServerDefaults -> Int]
    /\ file.memory \in Seq(STRING)
    /\ \A i \in 1 .. Len(file.memory) - 1 :
          file.memory[i] = " " => file.memory[i + 1] # " "
    /\ file.dedup \in [ttl : Int, keyFields : Seq(Seq(STRING))]
    /\ file.alarms \in Seq({file.alarms[i] : i \in DOMAIN file.alarms})
    /\ \A i \in DOMAIN file.alarms :
          /\ file.alarms[i] = [f \in {"id", "match", "ttl", "keyFields", "hold", "clear"}
                                 |-> file.alarms[i][f]]
          /\ file.alarms[i].keyFields \in Seq(Seq(STRING))

ASSUME ConfigFilesAssumption == \A file \in ConfigFiles : IsFile(file)

ASSUME MaxSetsAssumption == MaxSets \in Nat \ {0}

VARIABLES pc,          \* "start", "serve", "stopping" or "exited"
          sets,        \* sets of resources built so far
          open,        \* the handles that are open: <<kind, set>>
          held,        \* the handles main's variables name, per kind
          engine,      \* the handles of the engine's runtime state, per kind
          serverLog,   \* the log handle relayServer got when it was built
          inForce,     \* the engine's configuration: <<cfg>>, <<>> before it is built
          serverCfg,   \* the settings relayServer was built with, likewise
          metricsCfg,  \* currentMetricsCfg
          limit,       \* the memory limit of the Go runtime
          sigCh,       \* the signal channel: at most one signal
          errCh        \* what Run returned: "none", "nil" or "error"

vars == <<pc, sets, open, held, engine, serverLog, inForce, serverCfg, metricsCfg,
          limit, sigCh, errCh>>

None == <<"none", 0>>      \* a nil closer, or the standard output

Kinds == {"log", "alerts", "forwarder", "metrics"}

\* Mutant of Handle: without a log file the standard output is closed like one.
HandleStdout(kind, n, cfg) ==
    IF kind = "log" /\ ~cfg.hasLog THEN <<"stdout", n>>
    ELSE IF \/ kind = "alerts" /\ ~cfg.alerts
            \/ kind = "metrics" /\ ~cfg.metrics.enabled
    THEN None ELSE <<kind, n>>

\* The handle of a kind that cfg asks for, in the n-th set.
Handle(kind, n, cfg) ==
    IF \/ kind = "log" /\ ~cfg.hasLog
       \/ kind = "alerts" /\ ~cfg.alerts
       \/ kind = "metrics" /\ ~cfg.metrics.enabled
    THEN None ELSE <<kind, n>>

Handles(kinds, n, cfg) == {Handle(k, n, cfg) : k \in kinds} \ {None}

\* applyRuntimeConfig: without a memory_limit the one in force stays.
SetMemoryLimit(cfg) == IF TrimSpace(cfg.memory) = <<>> THEN limit
                       ELSE ParseMemoryLimit(TrimSpace(cfg.memory))[1]

MetricsOff == [enabled |-> FALSE, port |-> 0, path |-> <<>>]

Init == /\ pc = "start"
        /\ sets = 0
        /\ open = {}
        /\ held = [k \in Kinds |-> None]
        /\ engine = [k \in {"log", "alerts", "forwarder"} |-> None]
        /\ serverLog = None
        /\ inForce = <<>>
        /\ serverCfg = <<>>
        /\ metricsCfg = MetricsOff
        /\ limit = MaxInt
        /\ sigCh = "none"
        /\ errCh = "none"

\* What a reload that is accepted changes, and what no reload does.
swapped == <<held, engine, inForce, metricsCfg>>
fixed   == <<serverLog, serverCfg>>

-----------------------------------------------------------------------------
\* The stages in which the resources of a set are opened.  A stage may fail because
\* the system refuses, and must fail because of what is in the configuration.

Stages == <<"logging", "runtime", "alerts", "forwarder", "decoder">>

MayFail(stage, cfg) == CASE stage = "logging"   -> cfg.hasLog
                         [] stage = "runtime"   -> FALSE
                         [] stage = "alerts"    -> cfg.alerts
                         [] stage = "forwarder" -> cfg.targets # {}
                         [] stage = "decoder"   -> cfg.users # <<>>

MustFail(stage, cfg) ==
    CASE stage = "logging" -> ~FormatKnown(cfg)
      [] stage = "runtime" -> ParseMemoryLimit(TrimSpace(cfg.memory)) = <<>>
      [] stage = "decoder" -> ~UsersKnown(cfg)
      [] OTHER             -> FALSE

\* All stages before the i-th can be passed.
Reached(i, cfg) == \A j \in 1 .. i - 1 : ~MustFail(Stages[j], cfg)

FailsIn(cfg) == {Stages[i] : i \in {n \in DOMAIN Stages :
                   /\ Reached(n, cfg)
                   /\ MayFail(Stages[n], cfg) \/ MustFail(Stages[n], cfg)}}

CanBeBuilt(cfg) == Reached(Len(Stages) + 1, cfg)

\* The configurations Load may return.
Loadable == {Load(file)[1] : file \in {f \in ConfigFiles : Load(f) # <<>>}}

-----------------------------------------------------------------------------
\* Startup: everything is opened, or run returns and the process ends.

StartWith(cfg, mine) ==
    /\ CanBeBuilt(cfg) /\ ~MuxPanics(cfg)
    /\ open' = Handles(Kinds, 1, cfg)
    /\ held' = mine
    /\ engine' = [k \in DOMAIN engine |-> mine[k]]
    /\ serverLog' = mine["log"]
    /\ inForce' = <<cfg>>
    /\ serverCfg' = <<cfg.server>>
    /\ metricsCfg' = cfg.metrics
    /\ limit' = SetMemoryLimit(cfg)

Start ==
    /\ pc = "start"
    /\ \E cfg \in Loadable :
          StartWith(cfg, [k \in Kinds |-> Handle(k, 1, cfg)])
    /\ pc' = "serve"
    /\ sets' = 1
    /\ UNCHANGED <<sigCh, errCh>>

StartFails ==
    /\ pc = "start"
    /\ pc' = "exited"
    /\ UNCHANGED <<sets, open, swapped, fixed, limit, sigCh, errCh>>

-----------------------------------------------------------------------------
\* SIGHUP

\* What a reload has opened when it fails in a stage, ...
OpenedBefore(stage) == CASE stage = "logging" -> {}
                         [] stage \in {"runtime", "alerts"} -> {"log"}
                         [] stage = "forwarder" -> {"log", "alerts"}
                         [] OTHER -> {"log", "alerts", "forwarder"}

\* Mutant of ClosedOn: the forwarder is forgotten.
ClosedOnLeak(stage) == CASE stage \in {"runtime", "alerts"} -> {"log"}
                         [] stage \in {"forwarder", "decoder", "metrics"} ->
                              {"alerts", "log"}
                         [] OTHER -> {}

\* ... and what the error path of the stage closes.
ClosedOn(stage) == CASE stage = "runtime"   -> {"log"}
                     [] stage = "alerts"    -> {"log"}
                     [] stage = "forwarder" -> {"alerts", "log"}
                     [] stage \in {"decoder", "metrics"} ->
                          {"forwarder", "alerts", "log"}
                     [] OTHER -> {}

TakeHup == /\ pc = "serve"
           /\ sigCh = "HUP"
           /\ sigCh' = "none"
           /\ sets < MaxSets
           /\ sets' = sets + 1

\* The file cannot be read or is not valid: nothing has been opened.
RejectConfig ==
    /\ TakeHup
    /\ \E file \in ConfigFiles : Load(file) = <<>>
    /\ UNCHANGED <<pc, open, swapped, fixed, limit, errCh>>

\* A stage before the metrics endpoint fails.  applyRuntimeConfig is not undone
\* by the stages after it.
RejectReload ==
    /\ TakeHup
    /\ \E cfg \in Loadable : \E stage \in FailsIn(cfg) :
          /\ open' = (open \cup Handles(OpenedBefore(stage), sets + 1, cfg))
                     \ Handles(ClosedOn(stage), sets + 1, cfg)
          /\ limit' = IF stage \in {"alerts", "forwarder", "decoder"}
                      THEN SetMemoryLimit(cfg) ELSE limit
    /\ UNCHANGED <<pc, swapped, fixed, errCh>>

\* The new metrics listener cannot be opened.  The old one was closed before it was
\* tried, and everything else the reload opened is closed now.
MetricsRefused(cfg) ==
    /\ CanBeBuilt(cfg)
    /\ cfg.metrics.enabled /\ cfg.metrics # metricsCfg
    /\ limit' = SetMemoryLimit(cfg)

OpenAfterRefusal(cfg) ==
    ((open \cup Handles({"log", "alerts", "forwarder"}, sets + 1, cfg))
        \ {held["metrics"]}) \ Handles(ClosedOn("metrics"), sets + 1, cfg)

\* The endpoint of the configuration in force, if it has one, is opened again.
RejectMetrics ==
    /\ TakeHup
    /\ \E cfg \in Loadable :
          /\ MetricsRefused(cfg)
          /\ \/ /\ metricsCfg.enabled
                /\ open' = OpenAfterRefusal(cfg) \cup {<<"metrics", sets + 1>>}
                /\ held' = [held EXCEPT !["metrics"] = <<"metrics", sets + 1>>]
             \/ /\ ~metricsCfg.enabled
                /\ open' = OpenAfterRefusal(cfg)
                /\ held' = held
    /\ UNCHANGED <<pc, engine, inForce, metricsCfg, fixed, errCh>>

\* metrics_restore_failed: the old address is taken by now.  metricsServer goes on
\* naming the listener that was closed.
RestoreFails ==
    /\ TakeHup
    /\ metricsCfg.enabled
    /\ \E cfg \in Loadable : MetricsRefused(cfg) /\ open' = OpenAfterRefusal(cfg)
    /\ UNCHANGED <<pc, swapped, fixed, errCh>>

\* The listener is opened, but its handlers cannot be registered: a panic.
ReloadPanics ==
    /\ TakeHup
    /\ \E cfg \in Loadable :
          /\ CanBeBuilt(cfg)
          /\ cfg.metrics # metricsCfg /\ MuxPanics(cfg)
    /\ pc' = "exited"
    /\ open' = {}
    /\ UNCHANGED <<swapped, fixed, limit, errCh>>

\* Mutants of ClosedAfterSwap: main's variables are assigned before the old ones
\* are closed; a metrics endpoint that stays is closed as well.
ClosedNew(mine) == {mine["log"], mine["alerts"], mine["forwarder"]}
ClosedAll(mine) == {held[k] : k \in Kinds}

\* What an accepted reload closes once the engine has the new runtime state.
ClosedAfterSwap(mine) ==
    {held["log"], held["alerts"], held["forwarder"]}
    \cup (IF mine["metrics"] # held["metrics"] THEN {held["metrics"]} ELSE {})

\* Mutant of Swap: currentMetricsCfg is not brought up to date.
SwapForgetsMetrics(cfg, mine) ==
    /\ open' = (open \cup ({mine[k] : k \in Kinds} \ {None, held["metrics"]}))
               \ ClosedAfterSwap(mine)
    /\ held' = mine
    /\ engine' = [k \in DOMAIN engine |-> mine[k]]
    /\ inForce' = <<cfg>>
    /\ metricsCfg' = metricsCfg
    /\ limit' = SetMemoryLimit(cfg)

Swap(cfg, mine) ==
    /\ open' = (open \cup ({mine[k] : k \in Kinds} \ {None, held["metrics"]}))
               \ ClosedAfterSwap(mine)
    /\ held' = mine
    /\ engine' = [k \in DOMAIN engine |-> mine[k]]
    /\ inForce' = <<cfg>>
    /\ metricsCfg' = cfg.metrics
    /\ limit' = SetMemoryLimit(cfg)

AcceptReload ==
    /\ TakeHup
    /\ \E cfg \in Loadable :
          /\ CanBeBuilt(cfg)
          /\ cfg.metrics = metricsCfg \/ ~MuxPanics(cfg)
          /\ Swap(cfg, [k \in Kinds |->
                          IF k = "metrics" /\ cfg.metrics = metricsCfg
                          THEN held["metrics"] ELSE Handle(k, sets + 1, cfg)])
    /\ UNCHANGED <<pc, fixed, errCh>>

-----------------------------------------------------------------------------
\* The other signals, and the end of the server.

\* signal.Notify delivers without blocking: with a signal waiting, it is lost.
Signal(s) ==
    /\ pc # "exited" /\ pc # "start"
    /\ sigCh' = IF sigCh = "none" THEN s ELSE sigCh
    /\ UNCHANGED <<pc, sets, open, swapped, fixed, limit, errCh>>

TakeTerm ==
    /\ pc = "serve"
    /\ sigCh = "TERM"
    /\ sigCh' = "none"
    /\ pc' = "stopping"
    /\ UNCHANGED <<sets, open, swapped, fixed, limit, errCh>>

\* Run returns: after cancel(), or because the socket failed.
ServerReturns ==
    /\ pc \in {"serve", "stopping"}
    /\ errCh = "none"
    /\ \E result \in {"nil", "error"} :
          /\ pc = "serve" => result = "error"
          /\ errCh' = result
    /\ UNCHANGED <<pc, sets, open, swapped, fixed, limit, sigCh>>

TakeErr ==
    /\ pc \in {"serve", "stopping"}
    /\ errCh # "none"
    /\ pc' = "exited"
    /\ open' = {}
    /\ UNCHANGED <<sets, swapped, fixed, limit, sigCh, errCh>>

Next == \/ Start \/ StartFails
        \/ RejectConfig \/ RejectReload \/ RejectMetrics \/ RestoreFails
        \/ ReloadPanics
        \/ AcceptReload
        \/ Signal("HUP") \/ Signal("TERM")
        \/ TakeTerm \/ ServerReturns \/ TakeErr

Spec == Init /\ [][Next]_vars

-----------------------------------------------------------------------------
\* Properties

HandleType == (Kinds \cup {"none"}) \X (0 .. MaxSets)

\* Type invariant.
TypeOK ==
    /\ pc \in {"start", "serve", "stopping", "exited"}
    /\ sets \in 0 .. MaxSets
    /\ open \subseteq HandleType
    /\ held \in [Kinds -> HandleType]
    /\ engine \in [{"log", "alerts", "forwarder"} -> HandleType]
    /\ serverLog \in HandleType
    /\ sigCh \in {"none", "HUP", "TERM"}
    /\ errCh \in {"none", "nil", "error"}

Serving == pc \in {"serve", "stopping"}

\* No sequence of accepted and rejected reloads leaks a handle: whatever is open
\* is named by one of main's variables, which close it later.
NoHandleLeaked == Serving => open \subseteq {held[k] : k \in Kinds}

\* The engine's runtime state never names a log file, an alerts file or a
\* forwarder that a reload closed.
EngineHandlesOpen ==
    Serving => \A k \in DOMAIN engine : engine[k] = None \/ engine[k] \in open

\* The metrics endpoint of main's variables listens.
Listens == held["metrics"] \in open

\* README: "If a new metrics listener cannot be started, the relay keeps the previous
\* metrics endpoint active".  That is true but for one case, a restore that fails:
\* while the configuration in force enables the endpoint, no other step stops it, and
\* once it is down it stays down only until a reload changes the metrics settings (a
\* reload that leaves them alone keeps the listener that was closed).
MetricsKept ==
    [][(Serving' /\ metricsCfg'.enabled /\ ~Listens') =>
          RestoreFails \/ (Serving /\ ~Listens /\ metricsCfg' = metricsCfg)]_vars

\* What the engine, the server and the runtime rely on in a configuration, none of
\* which looks at it again: a port, a ticker and a channel that can be made, someone
\* to handle traps, room in the store, rules that do not share entries, filters that
\* decide, a ttl and a key for every alarm, a way to end every held one, and users
\* with a name.  Run does without a stats ticker if its interval is 0.
Runnable(cfg, server) ==
    /\ \A f \in DOMAIN server \ {"statsLogInterval"} : server[f] >= 1
    /\ server.statsLogInterval >= 0
    /\ \A i \in DOMAIN cfg.alarms :
          /\ cfg.alarms[i].ttl # 0 /\ Len(cfg.alarms[i].keyFields) >= 1
          /\ cfg.alarms[i].hold =>
                \E t \in {"simple", "lists"} : DOMAIN cfg.alarms[i].clear[1].match[t] # {}
    /\ Cardinality({cfg.alarms[i].id : i \in DOMAIN cfg.alarms}) = Len(cfg.alarms)
    /\ \A i \in DOMAIN cfg.filters : FilterAction(cfg.filters[i].action) # "error"
    /\ \A i \in DOMAIN cfg.users : cfg.users[i].name # <<>>

\* Whatever files are loaded, accepted and rejected one after the other, the engine
\* runs a configuration it can run, and so does the server, which keeps the
\* settings of the first one.
RunnableInForce == Serving => Runnable(inForce[1], serverCfg[1])

\* debug.SetMemoryLimit is never given 0 or less, which would make the collector
\* run without pause, however large the number and its unit are.
MemoryLimitPositive == limit \in 1 .. MaxInt

\* A reload is all or nothing.  Whatever stage the reloads before failed in, the
\* engine's log, alerts file and forwarder are those of one set, built from the
\* configuration in force, main's variables name the same ones, to be closed by
\* the next reload, and the metrics settings the next reload compares with are
\* those of that configuration.  (The memory limit is the exception: it is applied
\* before the stages that may fail, and a rejected reload does not take it back.)
OneSetInForce ==
    Serving =>
        /\ \E n \in 1 .. sets : \A k \in DOMAIN engine :
              engine[k] = Handle(k, n, inForce[1]) /\ held[k] = engine[k]
        /\ metricsCfg = inForce[1].metrics

\* README: the relay "Logs trap_queue_full when the in-process queue is saturated
\* and emits periodic server_stats counters".  The logger the server writes them
\* to is open.
ServerLoggerOpen == Serving => serverLog = None \/ serverLog \in open
=============================================================================
