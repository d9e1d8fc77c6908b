----------------------------- MODULE MCSupervisor -----------------------------
(***************************************************************************)
(* Configuration files for model checking Supervisor: with and without log *)
(* and alerts files, the metrics endpoint off or on one of two ports, all  *)
(* that a file may leave out, and one file for every mistake Load or a     *)
(* stage of the startup has to notice.                                     *)
(***************************************************************************)
EXTENDS Supervisor, MCTraps

Plain == [File(<<DropNoise>>, <<Link, Power>>) EXCEPT !.alerts = FALSE]

Metrics(port, path) == [enabled |-> TRUE, port |-> port, path |-> path]

Logs == {[Plain EXCEPT !.hasLog = log, !.alerts = alerts, !.metrics = metrics] :
            log \in BOOLEAN, alerts \in BOOLEAN,
            metrics \in {Plain.metrics, Metrics(0, <<>>), Metrics(9164, <<>>)}}

\* Every form a memory limit may have.
MemoryLimits ==
    {[Plain EXCEPT !.memory = m] :
        m \in {<<" ">>, <<"off">>, <<"UNLIMITED">>, <<"2048">>, <<" ", "1", "MiB">>,
              <<"2", "MiB">>, <<"3", "MiB">>, <<"2048", " ", "KiB">>, <<"2", "MB">>,
              <<"3", "MB">>, <<"0">>, <<"9999999">>, <<"1", "parsec">>, <<"wat">>}}

User(name, auth, priv) == <<[name |-> name, auth |-> auth, priv |-> priv]>>

Users == {[Plain EXCEPT !.users = u] :
             u \in {User(<<"ops">>, "SHA", ""), User(<<" ">>, "", ""),
                   User(<<"ops">>, "sha1", ""), User(<<"ops">>, "md5", "3des")}}

ServerSettings ==
    {[Plain EXCEPT !.server[f] = n] : f \in DOMAIN ServerDefaults, n \in {-1, 1}}
    \cup {[Plain EXCEPT !.server.port = 65536]}

Rules ==
    {[Plain EXCEPT !.filters = <<DropNoise, [DropNoise EXCEPT !.action = a, !.id = id]>>] :
        a \in {"Keep", "pass"}, id \in {"noise", "keep", ""}}
    \cup {[Plain EXCEPT !.alarms = <<Link, [Link EXCEPT !.id = id]>>] :
             id \in {"link", "other", ""}}
    \cup {[Plain EXCEPT !.dedup = [ttl |-> 0, keyFields |-> <<>>], !.alarms = <<a>>] :
             a \in {Link, Power, [Power EXCEPT !.ttl = 0]}}
    \cup {[Plain EXCEPT !.alarms = <<[Power EXCEPT !.clear = c]>>] :
             c \in {<<>>, ClearBy([TrapOIDIs("power") EXCEPT
                                    !.simple = [f \in {} |-> <<>>]], <<>>, <<>>)}}
    \cup {[Plain EXCEPT !.defaultAction = a] : a \in {"DROP", "maybe"}}

Mistakes == {[Plain EXCEPT !.readable = FALSE], [Plain EXCEPT !.format = "xml"],
             [Plain EXCEPT !.format = "JSON", !.targets = {}],
             [Plain EXCEPT !.metrics = Metrics(70000, <<>>)],
             [Plain EXCEPT !.metrics = Metrics(0, <<"metrics">>)],
             [Plain EXCEPT !.metrics = Metrics(0, healthPath)]}

Files == Logs \cup MemoryLimits \cup Users \cup ServerSettings \cup Rules \cup Mistakes

\* The files in which the log, the alerts and the metrics differ.
LogFiles == Logs
=============================================================================
