------------------------------ MODULE TrapParser ------------------------------
(***************************************************************************)
(* From the bytes of a datagram to a packet: the BER reader of             *)
(* internal/ber/ber.go, the SNMPv1/v2c parser of internal/snmp/parser.go   *)
(* the relay falls back to when gosnmp rejects a datagram, and the choice  *)
(* between the two in internal/receiver/decoder.go.                        *)
(*                                                                         *)
(* Bytes are 0 .. 255.  A result is <<x>>, or <<>> for an error.  All the  *)
(* reads of a function come before its other checks here: an error is an   *)
(* error, whichever is met first.  Integers are unbounded as in math/big,  *)
(* until the parser makes int64 of them: IntBits is 64 in the code and     *)
(* smaller in a run.  An int is an int64, as it is on 64-bit hosts.        *)
(* The code's 64-bit lengths and arcs do not overflow on what a datagram   *)
(* can hold, four length bytes and the arcs in use.                        *)
(***************************************************************************)
EXTENDS TrapRules

CONSTANT IntBits        \* the width of an int64

ASSUME IntBitsAssumption == IntBits \in Nat \ {0}

-----------------------------------------------------------------------------
\* internal/ber

BigEndian(bytes) == FoldLeft(LAMBDA n, b : n * 256 + b, 0, bytes)

\* Mutant of Cut: what is missing of the value is not noticed.
CutShort(data, at, length) ==
    <<[tag   |-> data[1],
       value |-> SubSeq(data, at + 1, Min({at + length, Len(data)})),
       rest  |-> SubSeq(data, at + length + 1, Len(data))]>>

\* The TLV whose value has a length and starts after the first at bytes.
Cut(data, at, length) ==
    IF Len(data) - at < length
    THEN <<>>
    ELSE <<[tag   |-> data[1],
            value |-> SubSeq(data, at + 1, at + length),
            rest  |-> SubSeq(data, at + length + 1, Len(data))]>>

\* Short and long form of the length; an indefinite length (count 0) and one of
\* more than four bytes are refused.
ReadTLV(data) ==
    IF Len(data) < 2 THEN <<>>
    ELSE IF data[2] < 128 THEN Cut(data, 2, data[2])
    ELSE LET count == data[2] - 128
         IN  IF count \notin 1 .. 4 \/ Len(data) - 2 < count THEN <<>>
             ELSE Cut(data, 2 + count, BigEndian(SubSeq(data, 3, 2 + count)))

\* n calls of ReadTLV on one reader: the TLVs, and the bytes after them.
RECURSIVE ReadTLVs(_, _)
ReadTLVs(data, n) ==
    IF n = 0 THEN <<[tlvs |-> <<>>, rest |-> data]>>
    ELSE LET first == ReadTLV(data)
             more  == IF first = <<>> THEN <<>> ELSE ReadTLVs(first[1].rest, n - 1)
         IN  IF more = <<>> THEN <<>>
             ELSE <<[more[1] EXCEPT !.tlvs = <<first[1]>> \o @]>>

\* ReadTLV until EOF.
RECURSIVE ReadAll(_)
ReadAll(data) ==
    IF data = <<>> THEN <<<<>>>>
    ELSE LET first == ReadTLV(data)
             more  == IF first = <<>> THEN <<>> ELSE ReadAll(first[1].rest)
         IN  IF more = <<>> THEN <<>> ELSE <<<<first[1]>> \o more[1]>>

DecodeTagClass(tag) == CASE tag \div 64 = 0 -> "universal"
                         [] tag \div 64 = 1 -> "application"
                         [] tag \div 64 = 2 -> "context"
                         [] OTHER           -> "private"

\* The bit of a constructed encoding is in neither.
DecodeTagNumber(tag) == tag % 32

IsUniversal(tlv, number) == /\ DecodeTagClass(tlv.tag) = "universal"
                            /\ DecodeTagNumber(tlv.tag) = number

\* Also a mutant of DecodeSignedBigInt: the sign is lost.
DecodeUnsignedBigInt(data) == BigEndian(data)

DecodeSignedBigInt(data) ==
    BigEndian(data) - (IF data # <<>> /\ data[1] >= 128 THEN 256 ^ Len(data) ELSE 0)

HalfRange   == 2 ^ (IntBits - 1)
FitsInt64(n) == n \in -HalfRange .. HalfRange - 1

\* big.Int.Int64 keeps the low bits; strconv.ParseInt gives the nearest int64, with
\* an error that is not always looked at.
Int64(n)    == ((n + HalfRange) % (2 * HalfRange)) - HalfRange
ParseInt(n) == IF n >= HalfRange THEN HalfRange - 1
               ELSE IF n < -HalfRange THEN -HalfRange ELSE n

\* The first byte gives two arcs.
FirstArcs(b) == IF b < 40 THEN <<0, b>> ELSE IF b < 80 THEN <<1, b - 40>>
                ELSE <<2, b - 80>>

AddArcByte(s, b) ==
    IF b >= 128 THEN [s EXCEPT !.value = @ * 128 + (b % 128)]
    ELSE [arcs |-> Append(s.arcs, s.value * 128 + b), value |-> 0]

\* An arc left unfinished is an error, unless all its bits are 0.
DecodeOID(data) ==
    IF data = <<>> THEN <<<<>>>>
    ELSE LET s == FoldLeft(AddArcByte, [arcs |-> FirstArcs(data[1]), value |-> 0],
                           Tail(data))
         IN  IF s.value # 0 THEN <<>>
             ELSE <<[i \in DOMAIN s.arcs |-> ToString(s.arcs[i])]>>

\* Strings of bytes: a character, or two hexadecimal digits, is one token.
\* utf8.Valid is external: the bytes in use are ASCII, or single bytes above it.
Text(bytes) == [i \in DOMAIN bytes |-> "chr" \o ToString(bytes[i])]
Hex(bytes)  == <<"0x">> \o [i \in DOMAIN bytes |-> ToString(bytes[i])]
Valid(bytes) == \A i \in DOMAIN bytes : bytes[i] < 128

Number(n) == <<<<ToString(n)>>>>

\* DecodeValue, without the name of the type, which no rule can see.
UniversalValue(number, data) ==
    CASE number = 2 -> Number(DecodeSignedBigInt(data))
      [] number = 4 -> <<IF Valid(data) THEN Text(data) ELSE Hex(data)>>
      [] number = 5 -> <<<<>>>>
      [] number = 6 -> DecodeOID(data)
      [] OTHER      -> <<Hex(data)>>

\* Mutant of ApplicationValue: only IPv6 addresses are formatted.
ApplicationValueIPv6(number, data) ==
    CASE number = 0 /\ Len(data) = 16 -> <<[i \in DOMAIN data |-> ToString(data[i])]>>
      [] number \in {1, 2, 3, 6} -> Number(DecodeUnsignedBigInt(data))
      [] OTHER                   -> <<Hex(data)>>

ApplicationValue(number, data) ==
    CASE number = 0 /\ Len(data) \in {4, 16} ->
            <<[i \in DOMAIN data |-> ToString(data[i])]>>
      [] number \in {1, 2, 3, 6} -> Number(DecodeUnsignedBigInt(data))
      [] OTHER                   -> <<Hex(data)>>

DecodeValue(tlv) ==
    LET class  == DecodeTagClass(tlv.tag)
        number == DecodeTagNumber(tlv.tag)
    IN  CASE class = "universal"   -> UniversalValue(number, tlv.value)
          [] class = "application" -> ApplicationValue(number, tlv.value)
          [] class = "context" /\ number \in {0, 1, 2} -> <<<<>>>>
          [] OTHER -> <<Hex(tlv.value)>>

-----------------------------------------------------------------------------
\* internal/snmp

\* One item of the list: <<[oid, value]>>, or <<>>.
VarBind(oid, value) == IF oid = <<>> \/ value = <<>> THEN <<>>
                       ELSE <<[oid |-> Normalize(oid[1]), value |-> value[1]]>>

decodeVarBind(item) ==
    LET pair == ReadTLVs(item.value, 2)
    IN  IF item.tag # 48 \/ pair = <<>> THEN <<>>
        ELSE IF ~IsUniversal(pair[1].tlvs[1], 6) THEN <<>>
        ELSE VarBind(DecodeOID(pair[1].tlvs[1].value), DecodeValue(pair[1].tlvs[2]))

\* All items, or an error if one is none.
Every(items) == IF \E i \in DOMAIN items : items[i] = <<>> THEN <<>>
                ELSE <<FlattenSeq(items)>>

decodeVarBinds(data) ==
    LET list  == ReadTLV(data)
        items == IF list = <<>> THEN <<>> ELSE ReadAll(list[1].value)
    IN  IF items = <<>> THEN <<>>
        ELSE IF list[1].tag # 48 THEN <<>>
        ELSE Every([i \in DOMAIN items[1] |-> decodeVarBind(items[1][i])])

Rejected == [valid |-> FALSE]

\* A packet from its parts, each of which may have failed to decode.
Packet(source, header, v1, varbinds) ==
    IF v1 = <<>> \/ varbinds = <<>> THEN Rejected
    ELSE [valid |-> TRUE, source |-> source, header |-> header, v1 |-> v1[1],
          varbinds |-> varbinds[1]]

\* The specific part of an SNMPv1 trap; no tag is looked at but that of agent.  The
\* uptime alone keeps all its bits.
V1Part(enterprise, agent, tlvs) ==
    LET number(i) == DecodeSignedBigInt(tlvs[i].value)
    IN  IF enterprise = <<>> \/ agent = <<>> THEN <<>>
        ELSE <<<<[enterprise |-> enterprise[1], agent |-> agent[1],
                  generic  |-> <<ToString(Int64(number(3)))>>,
                  specific |-> <<ToString(Int64(number(4)))>>,
                  uptime   |-> <<ToString(number(5))>>]>>>>

parseV1(source, header, body) ==
    LET r == ReadTLVs(body, 5)
    IN  IF r = <<>> THEN Rejected
        ELSE Packet(source, header,
                    V1Part(DecodeOID(r[1].tlvs[1].value),
                           DecodeValue(r[1].tlvs[2]), r[1].tlvs),
                    decodeVarBinds(r[1].rest))

\* request_id, error_status and error_index are fields only if they are not 0.
RequestFields(header, tlvs) ==
    LET names   == <<<<"request_id">>, <<"error_status">>, <<"error_index">>>>
        number  == [i \in 1 .. 3 |-> ParseInt(DecodeSignedBigInt(tlvs[i].value))]
        present == {i \in 1 .. 3 : number[i] # 0}
    IN  [f \in DOMAIN header \cup {names[i] : i \in present} |->
           IF f \in DOMAIN header THEN header[f]
           ELSE <<ToString(number[CHOOSE i \in present : names[i] = f])>>]

parseV2(source, header, body) ==
    LET r == ReadTLVs(body, 3)
    IN  IF r = <<>> THEN Rejected
        ELSE Packet(source, RequestFields(header, r[1].tlvs), <<<<>>>>,
                    decodeVarBinds(r[1].rest))

Header(version, community, pdu) ==
    [f \in {<<"version">>, <<"community">>, <<"pdu_type">>} |->
       CASE f = <<"version">>   -> <<ToString(DecodeSignedBigInt(version.value))>>
         [] f = <<"community">> -> Text(community.value)
         [] OTHER               -> Hex(<<pdu.tag>>)]

\* The PDU's tag alone tells SNMPv1 from SNMPv2c; bytes after the parts that are
\* read are ignored at every level.
ParsePDU(source, version, community, pdu) ==
    IF ~IsUniversal(version, 2) \/ ~IsUniversal(community, 4) THEN Rejected
    ELSE IF ~FitsInt64(DecodeSignedBigInt(version.value)) THEN Rejected
    ELSE CASE pdu.tag = 164 -> parseV1(source, Header(version, community, pdu), pdu.value)
           [] pdu.tag = 167 -> parseV2(source, Header(version, community, pdu), pdu.value)
           [] OTHER         -> Rejected

ParseMessage(source, parts) ==
    IF parts = <<>> THEN Rejected
    ELSE ParsePDU(source, parts[1].tlvs[1], parts[1].tlvs[2], parts[1].tlvs[3])

ParseTrap(data, source) ==
    LET outer == ReadTLV(data)
    IN  IF outer = <<>> THEN Rejected
        ELSE IF outer[1].tag # 48 THEN Rejected
        ELSE ParseMessage(source, ReadTLVs(outer[1].value, 3))

-----------------------------------------------------------------------------
\* internal/receiver: gosnmp's packet if it made one, <<>> if it did not.

Decode(gosnmp, data, source) ==
    IF gosnmp # <<>> THEN gosnmp[1] ELSE ParseTrap(data, source)
=============================================================================
