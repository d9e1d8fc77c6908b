------------------------------ MODULE MCTrapRules ------------------------------
(***************************************************************************)
(* AlarmRule for one alarm rule, written in every form the documentation   *)
(* offers, with traps that are the bytes of a datagram: what the two       *)
(* decoders make of them is what the rules see.                            *)
(***************************************************************************)
EXTENDS TrapParser, AlarmRule

CONSTANT AlarmOIDs      \* the spellings of the alarm's trap_oid in the rule

-----------------------------------------------------------------------------
\* Object identifiers, as numbers and as strings; 8072 and 16384 take two and
\* three bytes on the wire.

LinkDown   == <<1, 3, 6, 1, 6, 3, 1, 1, 5, 3>>
LinkUp     == <<1, 3, 6, 1, 6, 3, 1, 1, 5, 4>>
IfIndex    == <<1, 3, 6, 1, 2, 1, 2, 2, 1, 1>>
IfState    == <<1, 3, 6, 1, 4, 1, 8072, 16384, 127, 128>>
Enterprise == <<1, 3, 6, 1, 4, 1, 8072>>
TrapOID    == <<1, 3, 6, 1, 6, 3, 1, 1, 4, 1, 0>>

\* The ports: integers of two bytes and of one, one of them negative.
Ports == {255, -1}

Str(arcs)    == [i \in DOMAIN arcs |-> ToString(arcs[i])]
DotStr(arcs) == <<".">> \o Str(arcs)

-----------------------------------------------------------------------------
\* The rule, in every form

Undotted == {Str(LinkDown)}
Dotted   == {DotStr(LinkDown)}

Simple(value) == [simple |-> [f \in {<<"trap_oid">>} |-> value],
                  lists |-> [l \in {} |-> <<>>], malformed |-> FALSE]

Listed(name, conds) == [simple |-> [f \in {} |-> <<>>],
                        lists |-> [l \in {name} |-> conds], malformed |-> FALSE]

Cond(field, op, value) == [field |-> field, op |-> op, value |-> value,
                           list |-> <<value>>]

AlarmMatches ==
    UNION {{Simple(oid),
            Listed("all", <<Cond(<<"trap_oid">>, "eq", oid)>>),
            Listed("all", <<Cond(<<"trap_oid">>, "", oid),
                            Cond(<<"fields.", "port">>, "exists", <<>>)>>),
            Listed("all", <<Cond(<<"source_ip">>, "ne", <<"10.0.0.6">>),
                            Cond(<<"trap_oid">>, "eq", oid),
                            Cond(<<"varbind:">> \o Str(IfIndex), "lt", <<"256">>)>>)} :
           oid \in AlarmOIDs}

PortFields == {<<"port">>, <<"fields.", "port">>, <<"varbind.">> \o Str(IfIndex),
               <<"varbind.">> \o DotStr(IfIndex),
               <<"varbind:", " ">> \o Str(IfIndex)}

KeyFields == UNION {{<<f>>, <<<<"trap_oid">>, f>>, <<f, <<"source_ip">>>>} :
                    f \in PortFields}

\* A clear is another trap, or the alarm's own trap with another state.
OtherTrap == {Simple(Str(LinkUp)), Simple(DotStr(LinkUp)),
              Listed("any", <<Cond(<<"trap_oid">>, "eq", <<"restart">>),
                              Cond(<<"trap_oid">>, "in", DotStr(LinkUp))>>),
              Listed("not", <<Cond(<<"trap_oid">>, "suffix", Str(LinkDown))>>)}

Up   == <<117, 112>>            \* "up"
Down == <<100, 111, 119, 110>>  \* "down"

Clears(fields) ==
    [match : OtherTrap, keyFields : {<<>>, fields},
     varBindOID : {<<>>}, regex : {<<>>}]
    \cup
    [match : {Simple(Str(LinkDown))}, keyFields : {<<>>, fields},
     varBindOID : {DotStr(IfState)}, regex : {Text(Up)}]

\* An SNMPv1 alarm is told by its enterprise and its specific trap.
Specific(n) == Listed("all", <<Cond(<<"enterprise_oid">>, "eq", Str(Enterprise)),
                               Cond(<<"specific_trap">>, "eq", <<n>>)>>)

AlarmForms ==
    UNION {[id : {"link"}, match : AlarmMatches, ttl : {300},
            keyFields : {fields}, hold : {TRUE},
            clear : {<<c>> : c \in Clears(fields)}] : fields \in KeyFields}
    \cup
    [id : {"v1"}, match : {Specific("1")}, ttl : {300},
     keyFields : {<<f>> : f \in PortFields}, hold : {TRUE},
     clear : {<<[match |-> Specific("2"), keyFields |-> <<>>, varBindOID |-> <<>>,
                 regex |-> <<>>]>>}]

Aliases == [oid \in {DotStr(IfIndex)} |-> <<"port">>]

-----------------------------------------------------------------------------
\* The traps on the wire: a reference encoder.  Lengths are in their short form
\* where they have one, or all in a long form.

Traps == {"down", "up", "downUp", "v1down", "v1up"}

Length(n, long) == IF long THEN <<130, n \div 256, n % 256>>
                   ELSE IF n < 128 THEN <<n>> ELSE <<129, n>>

TLV(tag, body, long) == <<tag>> \o Length(Len(body), long) \o body

IntBytes(n) == IF n \in -128 .. 127 THEN <<n % 256>>
               ELSE <<(n \div 256) % 256, n % 256>>

ArcBytes(a) == IF a < 128 THEN <<a>>
               ELSE IF a < 16384 THEN <<128 + (a \div 128), a % 128>>
               ELSE <<128 + (a \div 16384), 128 + ((a \div 128) % 128), a % 128>>

OIDBytes(arcs) ==
    <<40 * arcs[1] + arcs[2]>>
    \o FlattenSeq([i \in 1 .. Len(arcs) - 2 |-> ArcBytes(arcs[i + 2])])

OIDValue(trap) == IF trap = "up" THEN LinkUp ELSE LinkDown
StateOf(trap)  == IF trap \in {"down", "v1down"} THEN Down ELSE Up

Bind(oid, tag, body, long) ==
    TLV(48, TLV(6, OIDBytes(oid), long) \o TLV(tag, body, long), long)

BindList(trap, n, long) ==
    TLV(48, (IF trap \in {"v1down", "v1up"} THEN <<>>
             ELSE Bind(TrapOID, 6, OIDBytes(OIDValue(trap)), long))
            \o Bind(IfIndex, 2, IntBytes(n), long)
            \o Bind(IfState, 4, StateOf(trap), long), long)

PDUTag(trap) == IF trap \in {"v1down", "v1up"} THEN 164 ELSE 167

PDUBody(trap, n, long) ==
    (IF trap \in {"v1down", "v1up"}
     THEN TLV(6, OIDBytes(Enterprise), long) \o TLV(64, <<10, 0, 0, 5>>, long)
          \o TLV(2, <<6>>, long) \o TLV(2, IF trap = "v1up" THEN <<2>> ELSE <<1>>, long)
          \o TLV(67, <<1, 0>>, long)
     ELSE TLV(2, <<1>>, long) \o TLV(2, <<0>>, long) \o TLV(2, <<0>>, long))
    \o BindList(trap, n, long)

Version(trap) == IF PDUTag(trap) = 164 THEN <<0>> ELSE <<1>>

MessageBody(trap, version, pdu, long) ==
    TLV(2, version, long)
    \o TLV(4, <<112>>, long) \o TLV(PDUTag(trap), pdu, long)

Datagram(trap, n, long) ==
    TLV(48, MessageBody(trap, Version(trap), PDUBody(trap, n, long), long), long)

\* A datagram that does not arrive whole: it is cut itself (by the network or by
\* server.max_datagram_size), or what is inside its message or its PDU is.
StrictPrefixes(s) == {SubSeq(s, 1, i) : i \in 0 .. Len(s) - 1}

Incomplete(trap, n, long) ==
    StrictPrefixes(Datagram(trap, n, long))
    \cup {TLV(48, body, long) :
             body \in StrictPrefixes(MessageBody(trap, Version(trap),
                                                PDUBody(trap, n, long), long))}
    \cup {TLV(48, MessageBody(trap, Version(trap), pdu, long), long) :
             pdu \in StrictPrefixes(PDUBody(trap, n, long))}

\* A datagram whose version is not a 16-bit integer (IntBits is 16 here), though
\* its last byte is a version.
WideVersion(trap, n, long) ==
    TLV(48, MessageBody(trap, <<1, 0>> \o Version(trap), PDUBody(trap, n, long), long),
        long)

-----------------------------------------------------------------------------
\* The decoders.  gosnmp is external: it spells every OID with a leading dot.

Source == <<"10.0.0.5">>

Gosnmp(trap, n) ==
    LET v1 == PDUTag(trap) = 164
        binds == <<[oid |-> DotStr(IfIndex), value |-> <<ToString(n)>>],
                   [oid |-> DotStr(IfState), value |-> Text(StateOf(trap))]>>
    IN  [valid |-> TRUE, source |-> Source,
         header |-> [f \in {<<"version">>, <<"community">>, <<"pdu_type">>} |->
                       CASE f = <<"version">>   -> IF v1 THEN <<"0">> ELSE <<"1">>
                         [] f = <<"community">> -> Text(<<112>>)
                         [] OTHER -> IF v1 THEN <<"Trap">> ELSE <<"SNMPv2Trap">>],
         v1 |-> IF v1
                THEN <<[enterprise |-> DotStr(Enterprise),
                        agent |-> Str(<<10, 0, 0, 5>>), generic |-> <<"6">>,
                        specific |-> IF trap = "v1up" THEN <<"2">> ELSE <<"1">>,
                        uptime |-> <<"256">>]>>
                ELSE <<>>,
         varbinds |-> IF v1 THEN binds
                      ELSE <<[oid |-> DotStr(TrapOID),
                              value |-> DotStr(OIDValue(trap))]>> \o binds]

AllDecoders == {"gosnmp", "short", "long"}

Decoded(trap, n, decoder) ==
    Decode(IF decoder = "gosnmp" THEN <<Gosnmp(trap, n)>> ELSE <<>>,
           Datagram(trap, n, decoder = "long"), Source)

DecodedEvents == [t \in Traps, n \in Instances, d \in AllDecoders |->
              packetToEvent(Decoded(t, n, d), Aliases)]

AcceptedCuts == {ParseTrap(s, Source).valid :
                  s \in UNION {Incomplete(t, n, long) \cup {WideVersion(t, n, long)} :
                                  t \in Traps, n \in Instances, long \in BOOLEAN}}

-----------------------------------------------------------------------------
\* The traps of the rule.

AlarmTraps == [alarm \in AlarmForms |->
                 IF alarm.id = "v1" THEN "v1down" ELSE "down"]

ClearTraps == [alarm \in AlarmForms |->
                 IF alarm.id = "v1" THEN "v1up"
                 ELSE IF alarm.clear[1].regex # <<>> THEN "downUp" ELSE "up"]

-----------------------------------------------------------------------------
\* Properties

\* The spelling of OIDs without a leading dot (the dots between two arcs are not
\* tokens), also inside the trap_oid "v1:<enterprise>:<generic>:<specific>".
Undot(values) == [k \in DOMAIN values |-> SelectSeq(values[k], LAMBDA t : t # ".")]

\* The fields that ParseTrap gives a trap for which gosnmp gives some fields: no
\* leading dots, the tag of the PDU for its name, and the request_id of an SNMPv2c
\* trap, which is 1 here; error_status and error_index are 0 and not there.
AsFallback(fields, trap) ==
    LET undotted  == Undot(fields)
        requestID == IF PDUTag(trap) = 164 THEN {} ELSE {<<"request_id">>}
    IN  [f \in DOMAIN fields \cup requestID |->
           CASE f = <<"pdu_type">>   -> Hex(<<PDUTag(trap)>>)
             [] f = <<"request_id">> -> <<"1">>
             [] OTHER                -> undotted[f]]

\* Decode falls back from gosnmp to snmp.ParseTrap without a trace in the event.
\* However the lengths of a datagram are written, the two give one trap the same
\* fields with the same values, as match conditions and BuildDedupKey see them,
\* but for these: pdu_type ("SNMPv2Trap", and "0xa7" from the fallback); request_id,
\* error_status and error_index, which only the fallback has; and OIDs that are
\* values (enterprise_oid, a varbind, the enterprise in the trap_oid of SNMPv1),
\* which only gosnmp spells with a leading dot.
DecodersAgree ==
    last.kind \in {"alarm", "clear"} =>
        \A d \in Decoders \ {"gosnmp"} :
            LET event == EventOf[last.trap, last.instance, d]
                other == EventOf[last.trap, last.instance, "gosnmp"]
            IN  /\ event.fields = AsFallback(other.fields, last.trap)
                /\ event.rawVarBindMap = Undot(other.rawVarBindMap)

\* server.max_datagram_size cuts longer datagrams.  No part of a trap is taken for
\* a trap, wherever it was cut and whether or not the lengths around it fit; nor
\* is a datagram with a version that only becomes one when its high bytes are lost.
IncompleteRejected == last.kind = "cut" => last.to = "rejected"
=============================================================================
