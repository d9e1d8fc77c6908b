--------------------------- MODULE SupervisorProofs ---------------------------
(***************************************************************************)
(* What Supervisor promises, for any set of configuration files and any    *)
(* number of reloads.                                                      *)
(***************************************************************************)
EXTENDS Supervisor, FiniteSetTheorems, SequenceTheorems, TLAPS

EngineKinds == {"log", "alerts", "forwarder"}

-----------------------------------------------------------------------------
\* Handles of one set

\* A handle of the n-th set is absent or carries its kind and n.
LEMMA HandleIs == ASSUME NEW k, NEW n, NEW cfg
                  PROVE  Handle(k, n, cfg) = None \/ Handle(k, n, cfg) = <<k, n>>
BY DEF Handle

\* The handles of a set of resources are numbered by it, and none is absent.
LEMMA HandlesAre == ASSUME NEW ks, NEW n, NEW cfg, NEW x \in Handles(ks, n, cfg)
                    PROVE  x # None /\ \E k \in ks : x = <<k, n>>
BY HandleIs DEF Handles

\* Handles a set of resources may have are of the type of handles.
LEMMA HandlesType == ASSUME NEW ks \in SUBSET Kinds, NEW n \in 0 .. MaxSets, NEW cfg
                     PROVE  Handles(ks, n, cfg) \subseteq HandleType
BY HandlesAre DEF HandleType

\* One handle is as well.
LEMMA HandleTyped == ASSUME NEW k \in Kinds, NEW n \in 0 .. MaxSets, NEW cfg
                     PROVE  Handle(k, n, cfg) \in HandleType
BY HandleIs, MaxSetsAssumption DEF HandleType, None

-----------------------------------------------------------------------------
\* Types

\* Nothing is open and nothing is named before the start.
LEMMA TypeInit == Init => TypeOK
BY MaxSetsAssumption DEF Init, TypeOK, HandleType, Kinds, None

\* Every action keeps the type invariant.
LEMMA TypeStep == ASSUME TypeOK, [Next]_vars PROVE TypeOK'
<1> USE DEF TypeOK
<1>n. None \in HandleType
  BY MaxSetsAssumption DEF HandleType, None
<1>e. EngineKinds \subseteq Kinds /\ DOMAIN engine = EngineKinds
  BY DEF EngineKinds, Kinds
<1>1. CASE Start
  <2>1. PICK cfg \in Loadable : StartWith(cfg, [k \in Kinds |-> Handle(k, 1, cfg)])
    BY <1>1 DEF Start
  <2> DEFINE mine == [k \in Kinds |-> Handle(k, 1, cfg)]
  <2>2. 1 \in 0 .. MaxSets
    BY MaxSetsAssumption
  <2>3. mine \in [Kinds -> HandleType]
    BY <2>2, HandleTyped
  <2>4. /\ open' \subseteq HandleType
        /\ held' \in [Kinds -> HandleType]
        /\ engine' \in [EngineKinds -> HandleType]
        /\ serverLog' \in HandleType
    <3> HIDE DEF mine
    <3>1. open' \subseteq HandleType
      BY <2>1, <2>2, HandlesType DEF StartWith
    <3>2. "log" \in Kinds
      BY DEF Kinds
    <3> QED BY <2>1, <2>3, <3>1, <3>2, <1>e DEF StartWith, mine
  <2> QED BY <1>1, <2>2, <2>4 DEF Start, EngineKinds
<1>2. CASE StartFails
  BY <1>2 DEF StartFails, swapped, fixed
<1>3. CASE RejectConfig
  BY <1>3, MaxSetsAssumption DEF RejectConfig, TakeHup, swapped, fixed
<1>4. CASE RejectReload
  <2>1. sets + 1 \in 0 .. MaxSets
    BY <1>4, MaxSetsAssumption DEF RejectReload, TakeHup
  <2>2. PICK cfg, stage :
          open' = (open \cup Handles(OpenedBefore(stage), sets + 1, cfg))
                   \ Handles(ClosedOn(stage), sets + 1, cfg)
    BY <1>4 DEF RejectReload
  <2>3. OpenedBefore(stage) \subseteq Kinds
    BY DEF OpenedBefore, Kinds
  <2>4. open' \subseteq HandleType
    BY <2>1, <2>2, <2>3, HandlesType
  <2> QED BY <1>4, <2>1, <2>4 DEF RejectReload, TakeHup, swapped, fixed
<1>5. CASE RejectMetrics \/ RestoreFails
  <2>1. sets + 1 \in 0 .. MaxSets
    BY <1>5, MaxSetsAssumption DEF RejectMetrics, RestoreFails, TakeHup
  <2>2. <<"metrics", sets + 1>> \in HandleType
    BY <2>1 DEF HandleType, Kinds
  <2>3. ASSUME NEW cfg
        PROVE  Handles({"log", "alerts", "forwarder"}, sets + 1, cfg) \subseteq HandleType
    BY <2>1, HandlesType DEF Kinds
  <2>4. ASSUME NEW cfg PROVE OpenAfterRefusal(cfg) \subseteq HandleType
    BY <2>3 DEF OpenAfterRefusal
  <2>5. open' \subseteq HandleType /\ held' \in [Kinds -> HandleType]
    BY <1>5, <2>2, <2>4 DEF RejectMetrics, RestoreFails, swapped
  <2> QED BY <1>5, <2>1, <2>5 DEF RejectMetrics, RestoreFails, TakeHup, swapped, fixed
<1>6. CASE ReloadPanics
  BY <1>6, MaxSetsAssumption DEF ReloadPanics, TakeHup, swapped, fixed
<1>7. CASE AcceptReload
  <2>1. sets + 1 \in 0 .. MaxSets
    BY <1>7, MaxSetsAssumption DEF AcceptReload, TakeHup
  <2>2. PICK cfg \in Loadable :
          Swap(cfg, [k \in Kinds |-> IF k = "metrics" /\ cfg.metrics = metricsCfg
                                     THEN held["metrics"] ELSE Handle(k, sets + 1, cfg)])
    BY <1>7 DEF AcceptReload
  <2> DEFINE mine == [k \in Kinds |-> IF k = "metrics" /\ cfg.metrics = metricsCfg
                                     THEN held["metrics"] ELSE Handle(k, sets + 1, cfg)]
  <2>3. mine \in [Kinds -> HandleType]
    BY <2>1, HandleTyped
  <2>4. Swap(cfg, mine)
    BY <2>2
  <2> HIDE DEF mine
  <2>5. /\ open' \subseteq HandleType
        /\ held' \in [Kinds -> HandleType]
        /\ engine' \in [EngineKinds -> HandleType]
    BY <2>3, <2>4, <1>e DEF Swap
  <2> QED BY <1>7, <2>1, <2>5 DEF AcceptReload, TakeHup, fixed, EngineKinds
<1>8. CASE Signal("HUP") \/ Signal("TERM")
  BY <1>8 DEF Signal, swapped, fixed
<1>9. CASE TakeTerm \/ ServerReturns \/ TakeErr
  BY <1>9 DEF TakeTerm, ServerReturns, TakeErr, swapped, fixed
<1>10. CASE UNCHANGED vars
  BY <1>10 DEF vars
<1> QED BY <1>1, <1>2, <1>3, <1>4, <1>5, <1>6, <1>7, <1>8, <1>9, <1>10 DEF Next

\* Type correctness: no signal, reload or failure of one makes a handle of a kind or
\* of a set that does not exist.
THEOREM TypeCorrect == Spec => []TypeOK
BY TypeInit, TypeStep, PTL DEF Spec

-----------------------------------------------------------------------------
\* Handles: what is open, and who names it

\* While the relay serves, main's variables name handles of sets that were built,
\* everything open is named by them, and the engine names the same handles of its
\* own kinds, which are open.
Handling == /\ \A k \in Kinds : held[k] # None => held[k] \in {k} \X (0 .. sets)
            /\ open \subseteq {held[k] : k \in Kinds} \ {None}
            /\ \A k \in EngineKinds : /\ engine[k] = held[k]
                                      /\ held[k] # None => held[k] \in open

HandlesInv == Serving => Handling

\* The handles of the set that is being built are not open yet.
LEMMA FreshHandles == ASSUME TypeOK, Handling, NEW ks, NEW cfg
                      PROVE  open \cap Handles(ks, sets + 1, cfg) = {}
<1> SUFFICES ASSUME NEW x \in open, x \in Handles(ks, sets + 1, cfg) PROVE FALSE
  OBVIOUS
<1>1. PICK k \in Kinds : x = held[k] /\ x # None
  BY DEF Handling
<1>2. x \in {k} \X (0 .. sets)
  BY <1>1 DEF Handling
<1>3. x[2] \in 0 .. sets
  BY <1>2
<1>4. PICK j \in ks : x = <<j, sets + 1>>
  BY HandlesAre
<1>5. x[2] = sets + 1
  BY <1>4
<1> QED BY <1>3, <1>5 DEF TypeOK

\* Every stage of a reload but the metrics endpoint closes, when it fails, exactly
\* what the stages before it opened.
LEMMA StageUndone == ASSUME NEW cfg, NEW stage \in FailsIn(cfg)
                     PROVE  ClosedOn(stage) = OpenedBefore(stage)
BY DEF FailsIn, Stages, ClosedOn, OpenedBefore

\* A rejected reload leaves what is open as it was.
LEMMA RejectedOpens == ASSUME TypeOK, Handling, RejectReload PROVE open' = open
<1>0. PICK cfg \in Loadable : \E stage \in FailsIn(cfg) :
        open' = (open \cup Handles(OpenedBefore(stage), sets + 1, cfg))
                 \ Handles(ClosedOn(stage), sets + 1, cfg)
  BY DEF RejectReload
<1>1. PICK stage \in FailsIn(cfg) :
        open' = (open \cup Handles(OpenedBefore(stage), sets + 1, cfg))
                 \ Handles(ClosedOn(stage), sets + 1, cfg)
  BY <1>0
<1>2. open \cap Handles(OpenedBefore(stage), sets + 1, cfg) = {}
  BY FreshHandles
<1> QED BY <1>1, <1>2, StageUndone

\* Without a new metrics listener a reload closes the old one, and all it opened
\* itself; only an endpoint that was enabled is opened again, or fails to be.
LEMMA RejectedMetrics ==
    ASSUME TypeOK, Handling, RejectMetrics \/ RestoreFails
    PROVE  \/ /\ RestoreFails \/ ~metricsCfg.enabled
              /\ open' = open \ {held["metrics"]}
              /\ held' = held
           \/ /\ open' = (open \ {held["metrics"]}) \cup {<<"metrics", sets + 1>>}
              /\ held' = [held EXCEPT !["metrics"] = <<"metrics", sets + 1>>]
<1>1. ASSUME NEW cfg PROVE OpenAfterRefusal(cfg) = open \ {held["metrics"]}
  <2> DEFINE built == Handles({"log", "alerts", "forwarder"}, sets + 1, cfg)
  <2>1. ClosedOn("metrics") = {"log", "alerts", "forwarder"}
    BY DEF ClosedOn
  <2>2. open \cap built = {}
    BY FreshHandles
  <2>3. OpenAfterRefusal(cfg) = ((open \cup built) \ {held["metrics"]}) \ built
    BY <2>1 DEF OpenAfterRefusal
  <2> QED BY <2>2, <2>3
<1>2. CASE RestoreFails
  BY <1>1, <1>2 DEF RestoreFails, swapped
<1>3. CASE RejectMetrics
  BY <1>1, <1>3 DEF RejectMetrics
<1> QED BY <1>2, <1>3

\* Every action keeps the handles in order.
LEMMA HandlesStep == ASSUME TypeOK, TypeOK', HandlesInv, [Next]_vars PROVE HandlesInv'
<1> USE DEF HandlesInv
<1>k. Kinds = EngineKinds \cup {"metrics"} /\ "metrics" \notin EngineKinds
  BY DEF Kinds, EngineKinds
<1>s. sets \in Nat /\ DOMAIN engine = EngineKinds
  BY MaxSetsAssumption DEF TypeOK, EngineKinds
<1>t. ASSUME TakeHup PROVE Handling /\ pc = "serve" /\ sets' = sets + 1
  BY <1>t DEF TakeHup, Serving
<1>1. CASE Start
  <2>1. PICK cfg \in Loadable : StartWith(cfg, [k \in Kinds |-> Handle(k, 1, cfg)])
    BY <1>1 DEF Start
  <2>2. /\ open' = Handles(Kinds, 1, cfg)
        /\ held' = [k \in Kinds |-> Handle(k, 1, cfg)]
        /\ \A k \in EngineKinds : engine'[k] = held'[k]
        /\ sets' = 1
    BY <1>1, <2>1, <1>k, <1>s DEF StartWith, Start
  <2>3. \A k \in Kinds : held'[k] # None => held'[k] \in {k} \X (0 .. sets')
    BY <2>2, HandleIs
  <2>4. open' = {held'[k] : k \in Kinds} \ {None}
    BY <2>2 DEF Handles
  <2>5. \A k \in EngineKinds : held'[k] # None => held'[k] \in open'
    BY <2>4, <1>k
  <2> QED BY <2>2, <2>3, <2>4, <2>5 DEF Handling
<1>2. CASE StartFails \/ ReloadPanics \/ TakeErr
  BY <1>2 DEF StartFails, ReloadPanics, TakeErr, Serving
<1>3. CASE RejectConfig \/ RejectReload
  <2>1. TakeHup /\ UNCHANGED <<held, engine>>
    BY <1>3 DEF RejectConfig, RejectReload, swapped
  <2>2. open' = open
    BY <1>3, <2>1, <1>t, RejectedOpens DEF RejectConfig
  <2> QED BY <2>1, <2>2, <1>t, <1>s DEF Handling
<1>5. CASE RejectMetrics \/ RestoreFails
  <2>1. TakeHup /\ UNCHANGED engine /\ pc' = pc
    BY <1>5 DEF RejectMetrics, RestoreFails, swapped
  <2>2. Handling
    BY <2>1, <1>t
  <2>3. held' = held \/ held' = [held EXCEPT !["metrics"] = <<"metrics", sets + 1>>]
    BY <1>5, <2>2, RejectedMetrics
  <2>4. held \in [Kinds -> HandleType]
    BY DEF TypeOK
  <2>5. \A k \in EngineKinds : held'[k] = held[k]
    BY <2>3, <2>4, <1>k
  <2>6. \A k \in EngineKinds : held[k] # None => held[k] # held["metrics"]
    BY <2>2, <1>k DEF Handling
  <2>7. \A k \in EngineKinds : held'[k] # None => held'[k] \in open'
    BY <1>5, <2>2, <2>5, <2>6, RejectedMetrics DEF Handling
  <2>8. \A k \in Kinds : held'[k] # None => held'[k] \in {k} \X (0 .. sets')
    BY <2>1, <2>2, <2>3, <2>4, <1>t, <1>s, <1>k DEF Handling
  <2>9. open' \subseteq {held'[k] : k \in Kinds} \ {None}
    <3>1. <<"metrics", sets + 1>> # None
      BY DEF None
    <3>2. open \ {held["metrics"]} \subseteq {held[k] : k \in EngineKinds} \ {None}
      BY <2>2, <1>k DEF Handling
    <3>3. CASE held' = held /\ open' = open \ {held["metrics"]}
      BY <2>2, <3>3 DEF Handling
    <3>4. CASE held'["metrics"] = <<"metrics", sets + 1>>
      BY <1>5, <2>2, <2>5, <3>1, <3>2, <3>4, <1>k, RejectedMetrics
    <3> QED BY <1>5, <2>2, <2>4, <3>3, <3>4, <1>k, RejectedMetrics
  <2> QED BY <2>1, <2>2, <2>5, <2>7, <2>8, <2>9 DEF Handling
<1>7. CASE AcceptReload
  <2>1. TakeHup
    BY <1>7 DEF AcceptReload
  <2>2. PICK cfg \in Loadable :
          Swap(cfg, [k \in Kinds |-> IF k = "metrics" /\ cfg.metrics = metricsCfg
                                     THEN held["metrics"] ELSE Handle(k, sets + 1, cfg)])
    BY <1>7 DEF AcceptReload
  <2> DEFINE n == sets + 1
  <2>3. /\ \A k \in EngineKinds : held'[k] = Handle(k, n, cfg) /\ engine'[k] = held'[k]
        /\ held'["metrics"] \in {held["metrics"], Handle("metrics", n, cfg)}
        /\ open' = (open \cup ({held'[k] : k \in Kinds} \ {None, held["metrics"]}))
                    \ ClosedAfterSwap(held')
    BY <2>2, <1>k, <1>s DEF Swap
  <2>4. Handling
    BY <2>1, <1>t
  <2>5. ClosedAfterSwap(held') \subseteq {held[k] : k \in Kinds}
    BY DEF ClosedAfterSwap, Kinds
  <2>6. \A k \in EngineKinds : held[k] \in ClosedAfterSwap(held')
    BY DEF ClosedAfterSwap, EngineKinds
  <2>7. held["metrics"] \in ClosedAfterSwap(held') \/ held["metrics"] = held'["metrics"]
    BY DEF ClosedAfterSwap
  <2>8. \A k \in Kinds : held'[k] # None => held'[k] \in {k} \X (0 .. sets')
    BY <2>1, <2>3, <2>4, <1>t, <1>s, <1>k, HandleIs DEF Handling
  <2>9. open' \subseteq {held'[k] : k \in Kinds} \ {None}
    BY <2>3, <2>4, <2>6, <2>7, <1>k DEF Handling
  <2>10. \A k \in EngineKinds : held'[k] # None =>
            \A j \in Kinds : held'[k] # held[j]
    <3> SUFFICES ASSUME NEW k \in EngineKinds, held'[k] # None, NEW j \in Kinds,
                        held'[k] = held[j]
                 PROVE  FALSE
      OBVIOUS
    <3>1. held[j] \in {j} \X (0 .. sets)
      BY <2>4 DEF Handling
    <3>2. held[j][2] \in 0 .. sets
      BY <3>1
    <3>3. held'[k] = <<k, sets + 1>>
      BY <2>3, HandleIs
    <3> QED BY <3>2, <3>3, <1>s
  <2>11. \A k \in EngineKinds : held'[k] # None => held'[k] \in open'
    BY <2>3, <2>5, <2>10, <1>k
  <2> QED BY <2>3, <2>8, <2>9, <2>11 DEF Handling
<1>8. CASE Signal("HUP") \/ Signal("TERM")
  BY <1>8 DEF Signal, swapped, fixed, Serving, Handling
<1>9. CASE TakeTerm \/ ServerReturns
  BY <1>9 DEF TakeTerm, ServerReturns, swapped, fixed, Serving, Handling
<1>10. CASE UNCHANGED vars
  BY <1>10 DEF vars, Serving, Handling
<1> QED BY <1>1, <1>2, <1>3, <1>5, <1>7, <1>8, <1>9, <1>10 DEF Next

\* The inductive invariant.
LEMMA HandlesKept == Spec => [](TypeOK /\ HandlesInv)
<1>1. Init => HandlesInv
  BY DEF Init, HandlesInv, Serving
<1>2. TypeOK /\ HandlesInv /\ [Next]_vars => (TypeOK /\ HandlesInv)'
  BY TypeStep, HandlesStep
<1> QED BY <1>1, <1>2, TypeInit, PTL DEF Spec

\* No sequence of reloads, wherever they fail, leaves a handle open that none of
\* main's variables names.
THEOREM HandlesClosed == Spec => []NoHandleLeaked
<1>1. TypeOK /\ HandlesInv => NoHandleLeaked
  BY DEF HandlesInv, Handling, NoHandleLeaked
<1> QED BY <1>1, HandlesKept, PTL

\* The engine never writes to a file or socket that a reload closed.
THEOREM EngineUsesOpen == Spec => []EngineHandlesOpen
<1>1. TypeOK /\ HandlesInv => EngineHandlesOpen
  BY DEF TypeOK, HandlesInv, Handling, EngineHandlesOpen, EngineKinds
<1> QED BY <1>1, HandlesKept, PTL

\* One set of handles, and the metrics settings, belong to the configuration in force.
SetInv == Serving =>
            /\ \E n \in 1 .. sets : \A k \in EngineKinds :
                  held[k] = Handle(k, n, inForce[1])
            /\ metricsCfg = inForce[1].metrics

\* Every action keeps it so: a reload takes all of a new set or keeps all of the old.
LEMMA SetStep == ASSUME TypeOK, SetInv, [Next]_vars PROVE SetInv'
<1> USE DEF SetInv
<1>k. Kinds = EngineKinds \cup {"metrics"} /\ "metrics" \notin EngineKinds
  BY DEF Kinds, EngineKinds
<1>s. sets \in Nat /\ held \in [Kinds -> HandleType]
  BY MaxSetsAssumption DEF TypeOK
<1>0. ASSUME Serving, \A k \in EngineKinds : held'[k] = held[k],
             UNCHANGED <<inForce, metricsCfg>>, sets' \in {sets, sets + 1}
      PROVE  SetInv'
  <2>1. 1 .. sets \subseteq 1 .. sets'
    BY <1>0, <1>s
  <2> QED BY <1>0, <2>1
<1>1. CASE Start
  <2>1. PICK cfg \in Loadable : StartWith(cfg, [k \in Kinds |-> Handle(k, 1, cfg)])
    BY <1>1 DEF Start
  <2>2. /\ \A k \in EngineKinds : held'[k] = Handle(k, 1, cfg)
        /\ inForce'[1] = cfg /\ metricsCfg' = cfg.metrics /\ 1 \in 1 .. sets'
    BY <1>1, <2>1, <1>k DEF Start, StartWith
  <2> QED BY <2>2
<1>2. CASE StartFails \/ ReloadPanics \/ TakeErr
  BY <1>2 DEF StartFails, ReloadPanics, TakeErr, Serving
<1>3. CASE RejectConfig \/ RejectReload \/ RestoreFails
  BY <1>0, <1>3 DEF RejectConfig, RejectReload, RestoreFails, TakeHup, Serving, swapped
<1>4. CASE RejectMetrics
  <2>1. held' = held \/ held' = [held EXCEPT !["metrics"] = <<"metrics", sets + 1>>]
    BY <1>4 DEF RejectMetrics
  <2>2. \A k \in EngineKinds : held'[k] = held[k]
    BY <2>1, <1>k, <1>s
  <2> QED BY <1>0, <1>4, <2>2 DEF RejectMetrics, TakeHup, Serving
<1>5. CASE AcceptReload
  <2>1. PICK cfg \in Loadable :
          Swap(cfg, [k \in Kinds |-> IF k = "metrics" /\ cfg.metrics = metricsCfg
                                     THEN held["metrics"] ELSE Handle(k, sets + 1, cfg)])
    BY <1>5 DEF AcceptReload
  <2>2. /\ \A k \in EngineKinds : held'[k] = Handle(k, sets + 1, cfg)
        /\ inForce'[1] = cfg /\ metricsCfg' = cfg.metrics
    BY <2>1, <1>k DEF Swap
  <2>3. sets + 1 \in 1 .. sets'
    BY <1>5, <1>s DEF AcceptReload, TakeHup
  <2> QED BY <2>2, <2>3
<1>6. CASE Signal("HUP") \/ Signal("TERM")
  BY <1>6 DEF Signal, swapped, Serving
<1>7. CASE TakeTerm \/ ServerReturns
  BY <1>7 DEF TakeTerm, ServerReturns, swapped, Serving
<1>8. CASE UNCHANGED vars
  BY <1>8 DEF vars, Serving
<1> QED BY <1>1, <1>2, <1>3, <1>4, <1>5, <1>6, <1>7, <1>8 DEF Next

\* However many reloads are accepted and rejected, and in whatever stage they fail,
\* the engine's handles, main's variables and the metrics settings are those of one
\* configuration, the one in force.
THEOREM ReloadIsAllOrNothing == Spec => []OneSetInForce
<1>1. Init => SetInv
  BY DEF Init, SetInv, Serving
<1>2. TypeOK /\ SetInv /\ [Next]_vars => SetInv'
  BY SetStep
<1>3. TypeOK /\ HandlesInv /\ SetInv => OneSetInForce
  <2> SUFFICES ASSUME TypeOK, HandlesInv, SetInv, Serving
               PROVE  /\ \E n \in 1 .. sets : \A k \in DOMAIN engine :
                            engine[k] = Handle(k, n, inForce[1]) /\ held[k] = engine[k]
                      /\ metricsCfg = inForce[1].metrics
    BY DEF OneSetInForce
  <2>1. DOMAIN engine = EngineKinds
    BY DEF TypeOK, EngineKinds
  <2>2. \A k \in EngineKinds : engine[k] = held[k]
    BY DEF HandlesInv, Handling
  <2> QED BY <2>1, <2>2 DEF SetInv
<1> QED BY <1>1, <1>2, <1>3, HandlesKept, PTL DEF Spec

\* A step after which the endpoint is down is a failed restore, or follows a state in
\* which it was down with the same settings.
LEMMA MetricsStep == ASSUME TypeOK, HandlesInv, Next, Serving', metricsCfg'.enabled,
                            ~Listens'
                     PROVE  RestoreFails \/ (Serving /\ ~Listens /\ metricsCfg' = metricsCfg)
<1> USE DEF Listens
<1>k. Kinds = EngineKinds \cup {"metrics"} /\ "metrics" \notin EngineKinds
  BY DEF Kinds, EngineKinds
<1>s. sets \in Nat
  BY MaxSetsAssumption DEF TypeOK
<1>1. CASE Start
  <2> SUFFICES held'["metrics"] \in open'
    OBVIOUS
  <2>1. PICK cfg \in Loadable : StartWith(cfg, [k \in Kinds |-> Handle(k, 1, cfg)])
    BY <1>1 DEF Start
  <2>2. cfg.metrics.enabled /\ held'["metrics"] = Handle("metrics", 1, cfg)
    BY <2>1, <1>k DEF StartWith
  <2>3. Handle("metrics", 1, cfg) # None
    BY <2>2 DEF Handle, None
  <2> QED BY <2>1, <2>2, <2>3, <1>k DEF StartWith, Handles
<1>2. CASE StartFails \/ ReloadPanics \/ TakeErr
  BY <1>2 DEF StartFails, ReloadPanics, TakeErr, Serving
<1>3. CASE RejectConfig \/ RejectReload
  <2>1. Serving /\ Handling /\ UNCHANGED <<held, metricsCfg>>
    BY <1>3 DEF RejectConfig, RejectReload, TakeHup, Serving, HandlesInv, swapped
  <2> QED BY <1>3, <2>1, RejectedOpens DEF RejectConfig
<1>4. CASE RejectMetrics
  <2>1. Serving /\ Handling /\ UNCHANGED metricsCfg
    BY <1>4 DEF RejectMetrics, TakeHup, Serving, HandlesInv
  <2>2. held \in [Kinds -> HandleType]
    BY DEF TypeOK
  <2> QED BY <1>4, <2>1, <2>2, <1>k, RejectedMetrics
<1>5. CASE AcceptReload
  <2> SUFFICES ASSUME Listens \/ metricsCfg' # metricsCfg PROVE held'["metrics"] \in open'
    BY <1>5 DEF AcceptReload, TakeHup, Serving
  <2>1. Serving /\ Handling
    BY <1>5 DEF AcceptReload, TakeHup, Serving, HandlesInv
  <2>2. PICK cfg \in Loadable :
          Swap(cfg, [k \in Kinds |-> IF k = "metrics" /\ cfg.metrics = metricsCfg
                                     THEN held["metrics"] ELSE Handle(k, sets + 1, cfg)])
    BY <1>5 DEF AcceptReload
  <2>3. /\ held'["metrics"] = IF cfg.metrics = metricsCfg THEN held["metrics"]
                              ELSE Handle("metrics", sets + 1, cfg)
        /\ open' = (open \cup ({held'[k] : k \in Kinds} \ {None, held["metrics"]}))
                    \ ClosedAfterSwap(held')
        /\ cfg.metrics.enabled
    BY <2>2, <1>k DEF Swap
  <2>4. CASE cfg.metrics = metricsCfg
    <3>1. held'["metrics"] = held["metrics"] /\ held["metrics"] \in open
      BY <2>1, <2>2, <2>3, <2>4 DEF Swap
    <3>2. held["metrics"] # None
      BY <2>1, <3>1 DEF Handling
    <3>3. \A k \in EngineKinds : held["metrics"] # held[k]
      BY <2>1, <3>2, <1>k DEF Handling
    <3>4. held["metrics"] \notin ClosedAfterSwap(held')
      BY <3>1, <3>3 DEF ClosedAfterSwap, EngineKinds
    <3> QED BY <2>3, <3>1, <3>4
  <2>5. CASE cfg.metrics # metricsCfg
    <3>1. held'["metrics"] = <<"metrics", sets + 1>>
      BY <2>3, <2>5 DEF Handle
    <3>2. \A j \in Kinds : held[j] # <<"metrics", sets + 1>>
      <4> SUFFICES ASSUME NEW j \in Kinds, held[j] = <<"metrics", sets + 1>> PROVE FALSE
        OBVIOUS
      <4>1. held[j] \in {j} \X (0 .. sets)
        BY <2>1 DEF Handling, None
      <4> QED BY <4>1, <1>s
    <3>3. held'["metrics"] \notin ClosedAfterSwap(held')
      BY <3>1, <3>2 DEF ClosedAfterSwap, Kinds
    <3>4. <<"metrics", sets + 1>> # None
      BY DEF None
    <3> QED BY <2>3, <3>1, <3>2, <3>3, <3>4, <1>k
  <2> QED BY <2>4, <2>5
<1>6. CASE Signal("HUP") \/ Signal("TERM")
  BY <1>6 DEF Signal, swapped, Serving
<1>7. CASE TakeTerm \/ ServerReturns
  BY <1>7 DEF TakeTerm, ServerReturns, swapped, Serving
<1> QED BY <1>1, <1>2, <1>3, <1>4, <1>5, <1>6, <1>7 DEF Next

\* For any files and any number of reloads, accepted and rejected: the endpoint that
\* the configuration in force enables goes down only with a restore that fails, and
\* is down only as long as no reload changes the metrics settings.
THEOREM EndpointKept == Spec => MetricsKept
<1>1. TypeOK /\ HandlesInv /\ [Next]_vars =>
        [(Serving' /\ metricsCfg'.enabled /\ ~Listens') =>
            RestoreFails \/ (Serving /\ ~Listens /\ metricsCfg' = metricsCfg)]_vars
  BY MetricsStep
<1> QED BY <1>1, HandlesKept, PTL DEF Spec, MetricsKept

-----------------------------------------------------------------------------
\* What Load returns

FileFields == {"readable", "server", "memory", "metrics", "format", "hasLog", "alerts",
               "users", "dedup", "aliases", "filters", "defaultAction", "alarms",
               "targets"}

\* What Load makes of the sections below if it accepts the file.
LEMMA Filled ==
    ASSUME NEW file, IsFile(file)
    PROVE  LET cfg   == Completed(applyDefaults(file))
               dedup == [file.dedup EXCEPT !.ttl = OrDefault(@, 0, 300)]
           IN  /\ cfg.server = [f \in DOMAIN ServerDefaults |->
                                 OrDefault(file.server[f], 0, ServerDefaults[f])]
               /\ cfg.memory = file.memory
               /\ cfg.alarms = [i \in DOMAIN file.alarms |-> Inherit(file.alarms[i], dedup)]
<1> DEFINE d   == applyDefaults(file)
           cfg == Completed(d)
<1>1. file = [f \in FileFields |-> file[f]]
  BY Zenon DEF IsFile, FileFields
<1>2. DOMAIN file = FileFields
  BY <1>1
<1>3. DOMAIN file.server = DOMAIN ServerDefaults
  BY Zenon DEF IsFile
<1>4. d.dedup = [file.dedup EXCEPT !.ttl = OrDefault(@, 0, 300)]
  BY <1>1, <1>2, SMT DEF applyDefaults, FileFields
<1>5. cfg.memory = file.memory
  BY <1>1, <1>2, SMT DEF applyDefaults, Completed, FileFields
<1>6. cfg.server = [f \in DOMAIN ServerDefaults |->
                     OrDefault(file.server[f], 0, ServerDefaults[f])]
  BY <1>1, <1>2, <1>3, SMT DEF applyDefaults, Completed, FileFields
<1>7. cfg.alarms = [i \in DOMAIN file.alarms |-> Inherit(file.alarms[i], d.dedup)]
  BY <1>1, <1>2, SMT DEF applyDefaults, Completed, FileFields
<1> QED BY <1>4, <1>5, <1>6, <1>7, Zenon

\* No setting of the server is left at 0 or below it.
LEMMA ServerRunnable ==
    ASSUME NEW file, IsFile(file), Load(file) # <<>>
    PROVE  /\ \A f \in DOMAIN Load(file)[1].server : Load(file)[1].server[f] >= 1
           /\ Load(file)[1].server.statsLogInterval >= 0
<1> DEFINE cfg == Completed(applyDefaults(file))
<1>1. Load(file)[1] = cfg /\ Valid(cfg)
  BY DEF Load
<1>2. ValidServer(cfg.server)
  BY <1>1 DEF Valid
<1>3. cfg.server = [f \in DOMAIN ServerDefaults |->
                     OrDefault(file.server[f], 0, ServerDefaults[f])]
  BY Filled
<1>4. file.server \in [DOMAIN ServerDefaults -> Int]
  BY Zenon DEF IsFile
<1> HIDE DEF cfg
<1>5. \A f \in DOMAIN ServerDefaults : ServerDefaults[f] \in Int /\ ServerDefaults[f] # 0
  BY SMT DEF ServerDefaults
<1>6. \A f \in DOMAIN ServerDefaults : cfg.server[f] \in Int /\ cfg.server[f] # 0
  BY <1>3, <1>4, <1>5, SMT DEF OrDefault
<1>7. \A f \in DOMAIN cfg.server : cfg.server[f] >= 0
  <2> DEFINE server == cfg.server
  <2>1. DOMAIN server = DOMAIN ServerDefaults
    BY <1>3
  <2>2. \A f \in DOMAIN server : server[f] \in Int
    BY <1>6, <2>1
  <2>3. "port" \in DOMAIN server /\ "statsLogInterval" \in DOMAIN server
    BY <2>1, SMT DEF ServerDefaults
  <2>4. ValidServer(server)
    BY <1>2
  <2> HIDE DEF server
  <2>5. \A f \in DOMAIN server : server[f] >= 0
    <3>1. \A p : p \in 0 .. MaxPort => p >= 0
      BY SMT DEF MaxPort
    <3>2. \A n \in Int : n > 0 => n >= 0
      BY SMT
    <3> QED BY <2>2, <2>3, <2>4, <3>1, <3>2, Zenon DEF ValidServer
  <2> QED BY <2>5 DEF server
<1>8. "statsLogInterval" \in DOMAIN cfg.server
  <2>1. DOMAIN cfg.server = DOMAIN ServerDefaults
    BY <1>3
  <2> QED BY <2>1, SMT DEF ServerDefaults
<1>9. \A f \in DOMAIN cfg.server : cfg.server[f] >= 1
  BY <1>3, <1>6, <1>7, SMT
<1> QED BY <1>1, <1>7, <1>8, <1>9, Zenon

\* An alarm has a ttl and key fields, its own or those of dedup_defaults.
LEMMA AlarmRunnable ==
    ASSUME NEW file, IsFile(file), Load(file) # <<>>,
           NEW i \in DOMAIN Load(file)[1].alarms
    PROVE  LET alarm == Load(file)[1].alarms[i]
           IN  alarm.ttl # 0 /\ Len(alarm.keyFields) >= 1
<1> DEFINE cfg   == Completed(applyDefaults(file))
           dedup == [file.dedup EXCEPT !.ttl = OrDefault(@, 0, 300)]
           a     == file.alarms[i]
<1>1. Load(file)[1] = cfg /\ Valid(cfg)
  BY DEF Load
<1>2. cfg.alarms = [j \in DOMAIN file.alarms |-> Inherit(file.alarms[j], dedup)]
  BY Filled
<1>3. i \in DOMAIN file.alarms /\ cfg.alarms[i] = Inherit(a, dedup)
  BY <1>1, <1>2
<1>4. file.dedup \in [ttl : Int, keyFields : Seq(Seq(STRING))]
  BY Zenon DEF IsFile
<1>5. /\ a = [f \in {"id", "match", "ttl", "keyFields", "hold", "clear"} |-> a[f]]
      /\ a.keyFields \in Seq(Seq(STRING))
  BY <1>3, Zenon DEF IsFile
<1>6. dedup.ttl # 0 /\ dedup.keyFields \in Seq(Seq(STRING))
  BY <1>4, SMT DEF OrDefault
<1>7. cfg.alarms[i].keyFields # <<>>
  BY <1>1, <1>2, <1>3 DEF Valid, ValidAlarm
<1> HIDE DEF cfg, dedup, a
<1>8. Inherit(a, dedup).ttl # 0 /\ Inherit(a, dedup).keyFields \in Seq(Seq(STRING))
  BY <1>5, <1>6, SMT DEF Inherit, OrDefault
<1> QED BY <1>1, <1>3, <1>7, <1>8, EmptySeq

\* Rules that have different ids have as many ids as there are rules.
LEMMA IdsCounted ==
    ASSUME NEW n \in Nat, NEW rules, DOMAIN rules = 1 .. n, Identified(rules)
    PROVE  Cardinality({rules[i].id : i \in DOMAIN rules}) = n
<1> DEFINE T == {rules[i].id : i \in DOMAIN rules}
           F == [i \in 1 .. n |-> rules[i].id]
<1>1. \A i, j \in 1 .. n : rules[i].id = rules[j].id => i = j
  BY Zenon DEF Identified
<1>2. F \in Bijection(1 .. n, T)
  <2>1. F \in [1 .. n -> T]
    BY Zenon
  <2>2. \A i, j \in 1 .. n : F[i] = F[j] => i = j
    BY <1>1
  <2>3. \A t \in T : \E i \in 1 .. n : F[i] = t
    BY Zenon
  <2> QED BY <2>1, <2>2, <2>3 DEF Bijection, Injection, Surjection, IsInjective
<1>3. ExistsBijection(1 .. n, T)
  BY <1>2, Zenon DEF ExistsBijection
<1>4. IsFiniteSet(1 .. n) /\ Cardinality(1 .. n) = n
  BY FS_Interval
<1> QED BY <1>3, <1>4, FS_Bijection

\* The parts of Runnable that validate checks one by one, and those that the
\* defaults give.
LEMMA LoadRunnable ==
    ASSUME NEW file, IsFile(file), Load(file) # <<>>,
           NEW server, \A f \in DOMAIN server \ {"statsLogInterval"} : server[f] >= 1,
           server.statsLogInterval >= 0
    PROVE  Runnable(Load(file)[1], server)
<1> DEFINE cfg == Completed(applyDefaults(file))
<1>1. Load(file)[1] = cfg /\ Valid(cfg)
  BY DEF Load
<1>2. \A i \in DOMAIN cfg.alarms : cfg.alarms[i].ttl # 0 /\ Len(cfg.alarms[i].keyFields) >= 1
  BY <1>1, AlarmRunnable
<1>b. cfg.alarms = [i \in DOMAIN file.alarms |-> cfg.alarms[i]]
  BY Filled
<1>a. DOMAIN cfg.alarms = DOMAIN file.alarms
  BY <1>b
<1>c. file.alarms \in Seq({file.alarms[i] : i \in DOMAIN file.alarms})
  BY Zenon DEF IsFile
<1> HIDE DEF cfg
<1>3. ASSUME NEW i \in DOMAIN cfg.alarms, cfg.alarms[i].hold
      PROVE  \E t \in {"simple", "lists"} : DOMAIN cfg.alarms[i].clear[1].match[t] # {}
  <2>1. ValidAlarm(cfg.alarms[i])
    BY <1>1, Zenon DEF Valid
  <2> QED BY <1>3, <2>1, Zenon DEF ValidAlarm, NoMatch
<1>4. PICK n \in Nat : DOMAIN cfg.alarms = 1 .. n /\ Len(cfg.alarms) = n
  <2>1. Len(file.alarms) \in Nat /\ DOMAIN file.alarms = 1 .. Len(file.alarms)
    BY <1>c
  <2> DEFINE S == {cfg.alarms[i] : i \in 1 .. Len(file.alarms)}
  <2>2. cfg.alarms \in [1 .. Len(file.alarms) -> S]
    BY <1>b, <2>1
  <2>3. cfg.alarms \in Seq(S)
    BY <2>1, <2>2
  <2>4. Len(cfg.alarms) = Len(file.alarms)
    BY <2>1, <2>3, <1>a
  <2> QED BY <2>1, <2>4, <1>a
<1>5. Cardinality({cfg.alarms[i].id : i \in DOMAIN cfg.alarms}) = Len(cfg.alarms)
  BY <1>1, <1>4, IdsCounted DEF Valid
<1>6. \A i \in DOMAIN cfg.filters : FilterAction(cfg.filters[i].action) # "error"
  <2>1. \A i \in DOMAIN cfg.filters : cfg.filters[i].action \in {"drop", "keep"}
    BY <1>1, Zenon DEF Valid
  <2> QED BY <2>1 DEF FilterAction
<1>7. \A i \in DOMAIN cfg.users : cfg.users[i].name # <<>>
  BY <1>1, Zenon DEF Valid
<1> QED BY <1>1, <1>2, <1>3, <1>5, <1>6, <1>7, Zenon DEF Runnable

\* The configuration in force is one that Load returned, and so is the one the
\* server was built with.
ConfigInv == Serving => \E cfg, first \in Loadable :
                          inForce = <<cfg>> /\ serverCfg = <<first.server>>

\* Every action keeps it so: a reload that is rejected changes neither.
LEMMA ConfigStep == ASSUME ConfigInv, [Next]_vars PROVE ConfigInv'
<1> USE DEF ConfigInv
<1>1. CASE Start
  BY <1>1 DEF Start, StartWith, Loadable
<1>2. CASE StartFails \/ ReloadPanics \/ TakeErr
  BY <1>2 DEF StartFails, ReloadPanics, TakeErr, Serving
<1>3. CASE RejectConfig \/ RejectReload \/ RestoreFails
  BY <1>3 DEF RejectConfig, RejectReload, RestoreFails, TakeHup, Serving, swapped, fixed
<1>4. CASE RejectMetrics
  BY <1>4 DEF RejectMetrics, TakeHup, Serving, fixed
<1>5. CASE AcceptReload
  BY <1>5 DEF AcceptReload, TakeHup, Swap, Serving, fixed
<1>6. CASE Signal("HUP") \/ Signal("TERM")
  BY <1>6 DEF Signal, swapped, fixed, Serving
<1>7. CASE TakeTerm \/ ServerReturns
  BY <1>7 DEF TakeTerm, ServerReturns, swapped, fixed, Serving
<1>8. CASE UNCHANGED vars
  BY <1>8 DEF vars, Serving
<1> QED BY <1>1, <1>2, <1>3, <1>4, <1>5, <1>6, <1>7, <1>8 DEF Next

\* Whatever files are loaded one after the other, the engine and the server run with
\* settings they can run with, neither of which looks at them again.
THEOREM AlwaysRunnable == Spec => []RunnableInForce
<1>1. Init => ConfigInv
  BY DEF Init, ConfigInv, Serving
<1>2. ConfigInv => RunnableInForce
  <2> SUFFICES ASSUME ConfigInv, Serving PROVE Runnable(inForce[1], serverCfg[1])
    BY DEF RunnableInForce
  <2>1. PICK cfg \in Loadable, first \in Loadable :
          inForce = <<cfg>> /\ serverCfg = <<first.server>>
    BY DEF ConfigInv
  <2>2. PICK f1 \in ConfigFiles : Load(f1) # <<>> /\ cfg = Load(f1)[1]
    BY Zenon DEF Loadable
  <2>3. PICK f2 \in ConfigFiles : Load(f2) # <<>> /\ first = Load(f2)[1]
    BY Zenon DEF Loadable
  <2>4. /\ \A f \in DOMAIN first.server : first.server[f] >= 1
        /\ first.server.statsLogInterval >= 0
    BY <2>3, ServerRunnable, ConfigFilesAssumption
  <2>5. Runnable(cfg, first.server)
    <3> DEFINE server == first.server
    <3>1. IsFile(f1) /\ Load(f1) # <<>> /\ cfg = Load(f1)[1]
      BY <2>2, ConfigFilesAssumption
    <3>2. \A f \in DOMAIN server : server[f] >= 1
      BY <2>4
    <3>3. server.statsLogInterval >= 0
      BY <2>4
    <3> HIDE DEF server
    <3> QED BY <3>1, <3>2, <3>3, LoadRunnable DEF server
  <2> QED BY <2>1, <2>5
<1>3. ConfigInv /\ [Next]_vars => ConfigInv'
  BY ConfigStep
<1> QED BY <1>1, <1>2, <1>3, PTL DEF Spec

-----------------------------------------------------------------------------
\* The memory limit

\* All but the last element of a sequence.
LEMMA AllButLast ==
    ASSUME NEW S, NEW s \in Seq(S), s # <<>>
    PROVE  LET t == SubSeq(s, 1, Len(s) - 1)
           IN  t \in Seq(S) /\ Len(t) = Len(s) - 1 /\ \A i \in 1 .. Len(t) : t[i] = s[i]
<1>1. Len(s) \in Nat \ {0} /\ \A i \in 1 .. Len(s) - 1 : s[i] \in S
  BY EmptySeq
<1> DEFINE t == SubSeq(s, 1, Len(s) - 1)
<1>2. /\ t \in Seq(S)
      /\ Len(t) = IF 1 <= Len(s) - 1 THEN Len(s) - 1 - 1 + 1 ELSE 0
      /\ \A i \in 1 .. Len(s) - 1 - 1 + 1 : t[i] = s[1 + i - 1]
  BY <1>1, SubSeqProperties
<1> HIDE DEF t
<1>3. Len(t) = Len(s) - 1
  <2> DEFINE n == Len(s)
  <2>1. n \in Nat \ {0} /\ Len(t) = IF 1 <= n - 1 THEN n - 1 - 1 + 1 ELSE 0
    BY <1>1, <1>2
  <2> HIDE DEF n
  <2>2. Len(t) = n - 1
    BY <2>1
  <2> QED BY <2>2 DEF n
<1>4. \A i \in 1 .. Len(t) : t[i] = s[i]
  BY <1>1, <1>2, <1>3
<1> QED BY <1>2, <1>3, <1>4 DEF t

\* What trimming leaves of a string in which no blank b follows another neither starts
\* nor ends with one: trimming it again changes nothing.
LEMMA TrimTwice ==
    ASSUME NEW S, NEW s \in Seq(S), NEW b,
           \A i \in 1 .. Len(s) - 1 : s[i] = b => s[i + 1] # b
    PROVE  LET t == TrimSuffix(TrimPrefix(s, b), b)
           IN  TrimSuffix(TrimPrefix(t, b), b) = t
<1> DEFINE u == TrimPrefix(s, b)
           t == TrimSuffix(u, b)
<1>1. /\ u \in Seq(S)
      /\ u # <<>> => u[1] # b
      /\ \A i \in 1 .. Len(u) - 1 : u[i] = b => u[i + 1] # b
  <2>1. CASE ~(s # <<>> /\ s[1] = b)
    <3>1. u = s
      BY <2>1 DEF TrimPrefix
    <3> QED BY <2>1, <3>1
  <2>2. CASE s # <<>> /\ s[1] = b
    <3>1. /\ Tail(s) \in Seq(S)
          /\ Len(Tail(s)) = Len(s) - 1
          /\ \A i \in 1 .. Len(Tail(s)) : Tail(s)[i] = s[i + 1]
      BY <2>2, HeadTailProperties
    <3>2. u = Tail(s)
      BY <2>2 DEF TrimPrefix
    <3>3. Len(s) \in Nat
      BY LenProperties
    <3> HIDE DEF u
    <3>4. \A i \in 1 .. Len(u) - 1 : u[i] = b => u[i + 1] # b
      BY <3>1, <3>2, <3>3
    <3>5. u # <<>> => u[1] # b
      <4> SUFFICES ASSUME u # <<>> PROVE u[1] # b
        OBVIOUS
      <4>1. Len(u) \in Nat \ {0}
        BY <3>1, <3>2, EmptySeq
      <4>2. u[1] = s[2] /\ 1 \in 1 .. Len(s) - 1
        BY <3>1, <3>2, <3>3, <4>1
      <4> QED BY <2>2, <4>2
    <3> QED BY <3>1, <3>2, <3>4, <3>5
  <2> QED BY <2>1, <2>2
<1> HIDE DEF u
<1>2. /\ t \in Seq(S)
      /\ t # <<>> => t[1] # b /\ t[Len(t)] # b
  <2>1. CASE ~(u # <<>> /\ u[Len(u)] = b)
    <3>1. t = u
      BY <2>1 DEF TrimSuffix
    <3> QED BY <1>1, <2>1, <3>1
  <2>2. CASE u # <<>> /\ u[Len(u)] = b
    <3>1. t = SubSeq(u, 1, Len(u) - 1)
      BY <2>2 DEF TrimSuffix
    <3>2. t \in Seq(S) /\ Len(t) = Len(u) - 1 /\ \A i \in 1 .. Len(t) : t[i] = u[i]
      BY <1>1, <2>2, <3>1, AllButLast
    <3> HIDE DEF t
    <3> SUFFICES ASSUME t # <<>> PROVE t[1] # b /\ t[Len(t)] # b
      BY <3>2
    <3>3. Len(t) \in Nat \ {0}
      BY <3>2, EmptySeq
    <3>4. Len(u) = Len(t) + 1
      BY <3>2, <3>3, <1>1
    <3>5. t[1] = u[1] /\ t[Len(t)] = u[Len(t)] /\ u[Len(t)] # b
      BY <1>1, <2>2, <3>2, <3>3, <3>4
    <3> QED BY <1>1, <2>2, <3>5
  <2> QED BY <2>1, <2>2
<1> HIDE DEF t
<1>3. TrimSuffix(TrimPrefix(t, b), b) = t
  BY <1>2 DEF TrimPrefix, TrimSuffix
<1> QED BY <1>2, <1>3 DEF t, u

\* MaxInt is a positive number.
LEMMA MaxIntType == MaxInt \in Nat /\ MaxInt >= 1
BY SMT DEF MaxInt

\* A number that fits is kept as it is.
LEMMA WrapFits == ASSUME NEW m \in Nat, m <= MaxInt PROVE Wrap(m) = m
BY SMT DEF Wrap, MaxInt

\* A product that passes the check for an overflow is not wrapped.
LEMMA BytesPositive ==
    ASSUME NEW n \in Int, NEW unit, Bytes(n, unit) # <<>>
    PROVE  Bytes(n, unit)[1] \in 1 .. MaxInt
<1> DEFINE k == memoryLimitUnits[unit]
<1>1. /\ ~(n <= 0)
      /\ unit \in DOMAIN memoryLimitUnits
      /\ ~(n > MaxInt \div k)
      /\ Bytes(n, unit)[1] = Wrap(n * k)
  BY DEF Bytes
<1>2. k \in {1, 1000, 1000 * 1000, 1024, 1024 * 1024}
  BY <1>1 DEF memoryLimitUnits
<1> HIDE DEF k
<1>3. n * k \in Nat /\ 1 <= n * k /\ n * k <= MaxInt
  BY <1>1, <1>2, MaxIntType, SMT
<1> QED BY <1>1, <1>3, WrapFits, MaxIntType

\* Every memory limit that is parsed, but for an empty one, is a positive int64.
LEMMA LimitPositive ==
    ASSUME NEW v, TrimSpace(v) # <<>>, ParseMemoryLimit(v) # <<>>
    PROVE  ParseMemoryLimit(v)[1] \in 1 .. MaxInt
<1> DEFINE trimmed == TrimSpace(v)
<1>1. CASE ToUpper(trimmed) \in {<<"OFF">>, <<"NONE">>, <<"UNLIMITED">>}
  <2>1. MaxInt \in 1 .. MaxInt
    BY MaxIntType
  <2>2. ParseMemoryLimit(v) = <<MaxInt>>
    BY <1>1, Zenon DEF ParseMemoryLimit
  <2> QED BY <2>1, <2>2
<1>2. CASE ToUpper(trimmed) \notin {<<"OFF">>, <<"NONE">>, <<"UNLIMITED">>}
  <2>1. /\ trimmed[1] \in DOMAIN Digits
        /\ ParseMemoryLimit(v) = Bytes(Digits[trimmed[1]], ToUpper(TrimSpace(Tail(trimmed))))
    BY <1>2, Zenon DEF ParseMemoryLimit
  <2>2. Digits[trimmed[1]] \in Int
    BY <2>1, MaxIntType, SMT DEF Digits
  <2> QED BY <2>1, <2>2, BytesPositive, Zenon
<1> QED BY <1>1, <1>2

\* What applyRuntimeConfig sets is positive if what is in force is.
LEMMA SetLimitPositive ==
    ASSUME MemoryLimitPositive, NEW cfg \in Loadable, ~MustFail("runtime", cfg)
    PROVE  SetMemoryLimit(cfg) \in 1 .. MaxInt
<1>1. PICK file \in ConfigFiles : Load(file) # <<>> /\ cfg = Load(file)[1]
  BY Zenon DEF Loadable
<1>2. IsFile(file)
  BY ConfigFilesAssumption
<1>3. cfg = Completed(applyDefaults(file))
  BY <1>1 DEF Load
<1>4. cfg.memory = file.memory
  BY <1>2, <1>3, Filled
<1>5. /\ file.memory \in Seq(STRING)
      /\ \A i \in 1 .. Len(file.memory) - 1 :
            file.memory[i] = " " => file.memory[i + 1] # " "
  BY <1>2, Zenon DEF IsFile
<1>6. TrimSpace(TrimSpace(cfg.memory)) = TrimSpace(cfg.memory)
  BY <1>4, <1>5, TrimTwice DEF TrimSpace
<1>7. ParseMemoryLimit(TrimSpace(cfg.memory)) # <<>>
  BY Zenon DEF MustFail
<1> QED BY <1>6, <1>7, LimitPositive, Zenon DEF SetMemoryLimit, MemoryLimitPositive

\* A stage is reached only through the stages before it.
LEMMA RuntimePassed ==
    ASSUME NEW cfg
    PROVE  /\ CanBeBuilt(cfg) => ~MustFail("runtime", cfg)
           /\ \A stage \in FailsIn(cfg) \cap {"alerts", "forwarder", "decoder"} :
                 ~MustFail("runtime", cfg)
<1>1. Len(Stages) = 5 /\ DOMAIN Stages = 1 .. 5 /\ Stages[2] = "runtime"
  BY DEF Stages
<1>2. CanBeBuilt(cfg) => ~MustFail("runtime", cfg)
  BY <1>1 DEF CanBeBuilt, Reached
<1>3. ASSUME NEW stage \in FailsIn(cfg), stage \in {"alerts", "forwarder", "decoder"}
      PROVE  ~MustFail("runtime", cfg)
  <2>1. PICK n \in 1 .. 5 : stage = Stages[n] /\ Reached(n, cfg)
    BY <1>1 DEF FailsIn
  <2>2. n # 1 /\ n # 2
    BY <1>3, <2>1 DEF Stages
  <2> QED BY <1>1, <2>1, <2>2 DEF Reached
<1> QED BY <1>2, <1>3

\* The runtime is never given a memory limit of 0 or less, whatever the files say.
THEOREM LimitStaysPositive == Spec => []MemoryLimitPositive
<1>1. Init => MemoryLimitPositive
  BY MaxIntType, SMT DEF Init, MemoryLimitPositive
<1>2. MemoryLimitPositive /\ [Next]_vars => MemoryLimitPositive'
  <2> SUFFICES ASSUME MemoryLimitPositive, [Next]_vars PROVE limit' \in 1 .. MaxInt
    BY DEF MemoryLimitPositive
  <2>0. limit \in 1 .. MaxInt
    BY DEF MemoryLimitPositive
  <2>1. CASE Start \/ RejectMetrics \/ RestoreFails \/ AcceptReload
    <3>1. PICK cfg \in Loadable : CanBeBuilt(cfg) /\ limit' = SetMemoryLimit(cfg)
      BY <2>1, Zenon DEF Start, StartWith, RejectMetrics, RestoreFails, MetricsRefused,
                         AcceptReload, Swap
    <3> QED BY <3>1, SetLimitPositive, RuntimePassed
  <2>2. CASE RejectReload
    <3>1. PICK cfg \in Loadable : \E stage \in FailsIn(cfg) :
            limit' = IF stage \in {"alerts", "forwarder", "decoder"}
                     THEN SetMemoryLimit(cfg) ELSE limit
      BY <2>2 DEF RejectReload
    <3> QED BY <2>0, <3>1, SetLimitPositive, RuntimePassed
  <2>3. CASE StartFails \/ RejectConfig \/ ReloadPanics
    BY <2>0, <2>3 DEF StartFails, RejectConfig, ReloadPanics
  <2>4. CASE Signal("HUP") \/ Signal("TERM") \/ TakeTerm \/ ServerReturns \/ TakeErr
    BY <2>0, <2>4 DEF Signal, TakeTerm, ServerReturns, TakeErr
  <2>5. CASE UNCHANGED vars
    BY <2>0, <2>5 DEF vars
  <2> QED BY <2>1, <2>2, <2>3, <2>4, <2>5 DEF Next
<1> QED BY <1>1, <1>2, PTL DEF Spec
=============================================================================
