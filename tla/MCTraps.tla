-------------------------------- MODULE MCTraps --------------------------------
(***************************************************************************)
(* Configuration files and datagrams for model checking: a link alarm with *)
(* a TTL whose clear is another trap, and a power alarm that is held until *)
(* a trap with the same OID says the power is back.                        *)
(***************************************************************************)
EXTENDS Config

-----------------------------------------------------------------------------
\* Datagrams

Trap(oid, varbinds) ==
    [valid    |-> TRUE,
     source   |-> <<"10.0.0.5">>,
     header   |-> [f \in {} |-> <<>>],
     v1       |-> <<>>,
     varbinds |-> <<[oid |-> <<".">> \o SnmpTrapOID, value |-> <<".", oid>>]>>
                  \o varbinds]

Port(n)  == [oid |-> <<".", "ifIndex">>, value |-> <<n>>]
State(s) == [oid |-> <<".", "powerState">>, value |-> <<s>>]

LinkDown(n) == Trap("linkDown", <<Port(n)>>)
LinkUp(n)   == Trap("linkUp", <<Port(n)>>)
NoPort      == Trap("linkDown", <<>>)
PowerFail   == Trap("power", <<State("failed")>>)
PowerOK     == Trap("power", <<State("ok")>>)
Other       == Trap("other", <<>>)
Noise       == [Trap("other", <<>>) EXCEPT !.source = <<"10.0.0.6">>]
Garbage     == [Other EXCEPT !.valid = FALSE]
Broken      == Trap("broken", <<>>)

-----------------------------------------------------------------------------
\* Rules

Simple(field, value) ==
    [simple |-> [f \in {field} |-> value], lists |-> [l \in {} |-> <<>>],
     malformed |-> FALSE]

Listed(name, conds) ==
    [simple |-> [f \in {} |-> <<>>], lists |-> [l \in {name} |-> conds],
     malformed |-> FALSE]

Cond(field, op, value) == [field |-> field, op |-> op, value |-> value,
                           list |-> <<>>]

TrapOIDIs(oid) == Simple(<<"trap_oid">>, <<oid>>)

ClearBy(match, varBindOID, regex) ==
    <<[match |-> match, keyFields |-> <<>>, varBindOID |-> varBindOID,
       regex |-> regex]>>

\* Its ttl and its key fields are those of dedup_defaults.
Link == [id |-> "link", match |-> TrapOIDIs("linkDown"), ttl |-> 0,
         keyFields |-> <<>>, hold |-> FALSE,
         clear |-> ClearBy(TrapOIDIs("linkUp"), <<>>, <<>>)]

Power == [id |-> "power",
          match |-> Listed("all", <<Cond(<<"trap_oid">>, "eq", <<"power">>)>>),
          ttl |-> 1,
          keyFields |-> <<<<"trap_oid">>, <<"source_ip">>>>,
          hold |-> TRUE,
          clear |-> ClearBy(TrapOIDIs("power"), <<"powerState">>, <<"ok">>)]

\* An operator that does not exist is only noticed when a trap reaches it.
Typo == [id |-> "typo",
         match |-> Listed("all", <<Cond(<<"trap_oid">>, "eq", <<"broken">>),
                                   Cond(<<"source_ip">>, "equals", <<>>)>>),
         ttl |-> 1, keyFields |-> <<<<"trap_oid">>>>, hold |-> FALSE,
         clear |-> <<>>]

DropNoise == [id |-> "noise", action |-> "DROP",
              match |-> Simple(<<"source_ip">>, <<"10.0.0.6">>)]

\* A filter whose pattern loses its leading dot to Normalize and does not compile.
BadPattern == [id |-> "pattern", action |-> "",
               match |-> Listed("all", <<Cond(<<"trap_oid">>, "eq", <<"other">>),
                                          Cond(<<"trap_oid">>, "regex",
                                               <<".", "*">>)>>)]

-----------------------------------------------------------------------------
\* Files, and the configurations they give

File(filters, alarms) ==
    [readable |-> TRUE,
     server   |-> [f \in DOMAIN ServerDefaults |-> 0],
     memory   |-> <<>>,
     metrics  |-> [enabled |-> FALSE, port |-> 0, path |-> <<>>],
     format   |-> "", hasLog |-> FALSE, alerts |-> TRUE,
     users    |-> <<>>,
     dedup    |-> [ttl |-> 2,
                   keyFields |-> <<<<"trap_oid">>, <<"fields.", "port">>>>],
     aliases  |-> [oid \in {<<".", "ifIndex">>} |-> <<"port">>],
     filters  |-> filters, defaultAction |-> "", alarms |-> alarms,
     targets  |-> {"nms"}]

Loaded(filters, alarms) == Load(File(filters, alarms))[1]

Base == Loaded(<<DropNoise>>, <<Link, Power>>)

OneConfig == <<Base>>
=============================================================================
