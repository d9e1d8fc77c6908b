---------------------------- MODULE AlarmRuleProofs ----------------------------
(***************************************************************************)
(* The clear of an alarm, for every alarm rule, every pair of traps that   *)
(* meet it and its clear, and every set of instances and decoders: what a  *)
(* match fixes, the key a clear looks under, and where the two traps go.   *)
(***************************************************************************)
EXTENDS AlarmRule, SequenceTheorems, WellFoundedInduction, TLAPS

-----------------------------------------------------------------------------
\* Loops that stop at the first index, and maps

\* The least of a set of indices, where FirstIndex stops, is one of them.
LEMMA LeastIndex ==
    ASSUME NEW I \in SUBSET (Nat \ {0})
    PROVE  /\ I # {} => FirstIndex(I) \in I
           /\ I = {} => FirstIndex(I) = 0
<1>1. CASE I = {}
    BY <1>1 DEF FirstIndex
<1>2. CASE I # {}
  <2>1. PICK m \in I : \A y \in I : ~(<<y, m>> \in OpToRel(<, Nat))
      BY <1>2, WFMin, NatLessThanWellFounded
  <2>2. \A y \in I : y < m => <<y, m>> \in OpToRel(<, Nat)
      BY DEF OpToRel
  <2>3. \A y \in I : ~(y < m)
      BY <2>1, <2>2, Zenon
  <2>4. \A y \in I : m <= y
      BY <2>3
  <2>5. Min(I) \in I
      BY <2>4 DEF Min
  <2> QED
      BY <1>2, <2>5 DEF FirstIndex
<1> QED
    BY <1>1, <1>2

\* A key that is none of those looked up does not change what is found.
LEMMA FirstValueOther ==
    ASSUME NEW m, NEW keys, NEW key, NEW value,
           DOMAIN keys \in SUBSET (Nat \ {0}),
           \A k \in DOMAIN keys : keys[k] # key
    PROVE  FirstValue(Update(m, key, value), keys) = FirstValue(m, keys)
<1> DEFINE I == {k \in DOMAIN keys : keys[k] \in DOMAIN m}
           u == Update(m, key, value)
           i == FirstIndex(I)
<1>1. DOMAIN u = DOMAIN m \cup {key}
    BY DEF Update
<1>2. \A x \in DOMAIN m : x # key => u[x] = m[x]
    BY DEF Update
<1>3. {k \in DOMAIN keys : keys[k] \in DOMAIN u} = I
    BY <1>1
<1>4. I # {} => i \in I
    BY LeastIndex
<1>5. I = {} => i = 0
    BY LeastIndex
<1>6. 0 \notin I
    OBVIOUS
<1>7. FirstValue(u, keys) = IF i = 0 THEN <<>> ELSE u[keys[i]]
    BY <1>3 DEF FirstValue
<1>8. FirstValue(m, keys) = IF i = 0 THEN <<>> ELSE m[keys[i]]
    BY DEF FirstValue
<1> SUFFICES FirstValue(u, keys) = FirstValue(m, keys)
    OBVIOUS
<1> HIDE DEF u, i
<1>9. CASE i = 0
    BY <1>7, <1>8, <1>9
<1>10. CASE i # 0
  <2>1. i \in I
      BY <1>4, <1>5, <1>10
  <2>2. keys[i] \in DOMAIN m /\ keys[i] # key
      BY <2>1
  <2>3. u[keys[i]] = m[keys[i]]
      BY <2>2, <1>2
  <2> QED
      BY <1>7, <1>8, <1>10, <2>3
<1> QED
    BY <1>9, <1>10

-----------------------------------------------------------------------------
\* internal/oidutil, internal/match: the forms of a field

\* The tokens of a string, with the words that the code looks for.
Token == STRING \cup {"fields.", "varbind.", "varbind:", "trap_oid"}

\* What is cut off a string leaves a string.
LEMMA TrimmedString ==
    ASSUME NEW s \in Seq(Token)
    PROVE  /\ \A t : TrimPrefix(s, t) \in Seq(Token)
           /\ \A t : TrimSuffix(s, t) \in Seq(Token)
<1>1. s # <<>> => Tail(s) \in Seq(Token)
    BY HeadTailProperties
<1>2. s # <<>> => Len(s) \in Nat /\ Len(s) >= 1
    BY EmptySeq, LenProperties
<1>3. s # <<>> => SubSeq(s, 1, Len(s) - 1) \in Seq(Token)
    BY <1>2, SubSeqProperties
<1> QED
    BY <1>1, <1>3 DEF TrimPrefix, TrimSuffix

\* Normalize and TrimSpace take strings to strings.
LEMMA NormalizedString ==
    ASSUME NEW s \in Seq(Token)
    PROVE  TrimSpace(s) \in Seq(Token) /\ Normalize(s) \in Seq(Token)
<1>1. TrimPrefix(s, " ") \in Seq(Token)
    BY TrimmedString
<1>2. TrimSpace(s) \in Seq(Token)
    BY <1>1, TrimmedString DEF TrimSpace
<1>3. Normalize(s) \in Seq(Token)
    BY <1>2, TrimmedString DEF Normalize
<1> QED
    BY <1>2, <1>3

\* The variants of an OID are strings.
LEMMA VariantStrings ==
    ASSUME NEW s \in Seq(Token)
    PROVE  Variants(s) \in Seq(Seq(Token))
<1>1. TrimSpace(s) \in Seq(Token) /\ Normalize(s) \in Seq(Token)
    BY NormalizedString
<1> DEFINE t == TrimSpace(s)
           n == Normalize(s)
<1>2. Variants(s) \in {<<>>, <<n>>, <<n, t>>}
    BY DEF Variants
<1> DEFINE S == Seq(Token)
<1>3. t \in S /\ n \in S
    BY <1>1
<1> SUFFICES Variants(s) \in Seq(S)
    OBVIOUS
<1> HIDE DEF t, n, S
<1>4. <<>> \in Seq(S) /\ <<n>> \in Seq(S) /\ <<n, t>> \in Seq(S)
    BY <1>3
<1> QED
    BY <1>2, <1>4

\* A prefix of one token is the first token.
LEMMA PrefixOfOne ==
    ASSUME NEW s \in Seq(Token), NEW t \in Token
    PROVE  HasPrefix(s, <<t>>) => s # <<>> /\ s[1] = t
<1> SUFFICES ASSUME HasPrefix(s, <<t>>) PROVE s # <<>> /\ s[1] = t
    OBVIOUS
<1>1. Len(<<t>>) = 1 /\ 1 <= Len(s)
    BY DEF HasPrefix, IsPrefix
<1>2. SubSeq(<<t>>, 1, 1) = SubSeq(s, 1, 1)
    BY <1>1 DEF HasPrefix, IsPrefix
<1>3. SubSeq(<<t>>, 1, 1)[1] = t
    OBVIOUS
<1>4. SubSeq(s, 1, 1)[1] = s[1]
    BY <1>1
<1>5. s # <<>>
    BY <1>1
<1>6. s[1] = t
    BY <1>2, <1>3, <1>4
<1> QED
    BY <1>5, <1>6

\* No form under which ResolveField looks for a field is trap_oid, unless the field
\* is trap_oid itself or fields.trap_oid.
LEMMA FormsOfOther ==
    ASSUME NEW f \in Seq(Token), f # TrapOIDField,
           f # <<"fields.", "trap_oid">>
    PROVE  /\ DOMAIN FieldForms(f) \in SUBSET (Nat \ {0})
           /\ \A k \in DOMAIN FieldForms(f) : FieldForms(f)[k] # TrapOIDField
<1> DEFINE S == Seq(Token)
           bare == IF HasPrefix(f, <<"fields.">>) THEN <<Tail(f)>> ELSE <<>>
           isVar == \E p \in VarBindPrefixes : HasPrefix(f, p)
           forms == Variants(Tail(f))
           named == [i \in DOMAIN forms |-> <<"varbind.">> \o forms[i]]
           var == IF isVar THEN named ELSE <<>>
           Good == {x \in S : x # TrapOIDField}
<1>1. FieldForms(f) = <<f>> \o bare \o var
    BY DEF FieldForms
<1>2. f \in Good
    OBVIOUS
<1>3. bare \in Seq(Good)
  <2>1. CASE HasPrefix(f, <<"fields.">>)
    <3>0. "fields." \in Token
        BY DEF Token
    <3>1. f # <<>> /\ f[1] = "fields."
        BY <2>1, <3>0, PrefixOfOne, Zenon
    <3>2. Tail(f) \in S
        BY <3>1, HeadTailProperties
    <3>3. Len(f) = Len(Tail(f)) + 1 /\ \A i \in 1 .. Len(Tail(f)) : f[i + 1] = Tail(f)[i]
        BY <3>1
    <3>4. Tail(f) # TrapOIDField
      <4> SUFFICES ASSUME NEW b, b = <<"trap_oid">>, Tail(f) = b PROVE FALSE
          BY DEF TrapOIDField
      <4>0. Len(b) = 1 /\ b[1] = "trap_oid"
          OBVIOUS
      <4>1. Len(f) = 2 /\ f[2] = "trap_oid"
        <5>1. Len(f) = Len(b) + 1 /\ \A i \in 1 .. Len(b) : f[i + 1] = b[i]
            BY <3>3, Zenon
        <5> QED
            BY <5>1, <4>0
      <4> DEFINE g == <<"fields.", "trap_oid">>
      <4>2. g \in Seq(Token) /\ Len(g) = 2 /\ g[1] = "fields." /\ g[2] = "trap_oid"
          BY DEF Token
      <4> HIDE DEF g
      <4>3. f = g
          BY <3>1, <4>1, <4>2, SeqEqual
      <4> QED
          BY <4>3 DEF g
    <3>5. Tail(f) \in Good
        BY <3>2, <3>4
    <3> HIDE DEF Good
    <3> QED
        BY <2>1, <3>5
  <2>2. CASE ~HasPrefix(f, <<"fields.">>)
      BY <2>2
  <2> QED
      BY <2>1, <2>2
<1>4. var \in Seq(Good)
  <2>1. CASE isVar
    <3>1. PICK p \in VarBindPrefixes : HasPrefix(f, p)
        BY <2>1
    <3>0. "varbind." \in Token /\ "varbind:" \in Token
        BY DEF Token
    <3>2. f # <<>>
        BY <3>0, <3>1, PrefixOfOne, Zenon DEF VarBindPrefixes
    <3>3. Tail(f) \in S
        BY <3>2, HeadTailProperties
    <3>4. forms \in Seq(S)
        BY <3>3, VariantStrings
    <3>5. \A i \in DOMAIN forms : forms[i] \in S
        BY <3>4
    <3>6. \A x \in S : <<"varbind.">> \o x \in Good
      <4> SUFFICES ASSUME NEW x \in S PROVE <<"varbind.">> \o x \in Good
          OBVIOUS
      <4>1. <<"varbind.">> \in S
          BY <3>0
      <4>2. <<"varbind.">> \o x \in S
          BY <4>1, ConcatProperties
      <4>3. (<<"varbind.">> \o x)[1] = "varbind."
          BY <4>1
      <4>4. TrapOIDField[1] = "trap_oid"
          BY DEF TrapOIDField
      <4> QED
          BY <4>2, <4>3, <4>4
    <3>7. Len(forms) \in Nat /\ DOMAIN forms = 1 .. Len(forms)
        BY <3>4
    <3> HIDE DEF Good, forms
    <3>8. named \in [1 .. Len(forms) -> Good]
        BY <3>5, <3>6, <3>7
    <3>9. named \in Seq(Good)
        BY <3>7, <3>8
    <3> QED
        BY <2>1, <3>9
  <2>2. CASE ~isVar
      BY <2>2
  <2> QED
      BY <2>1, <2>2
<1> HIDE DEF Good, bare, var
<1>5. <<f>> \in Seq(Good)
    BY <1>2
<1>6. <<f>> \o bare \in Seq(Good)
    BY <1>3, <1>5, ConcatProperties
<1>7. FieldForms(f) \in Seq(Good)
    BY <1>1, <1>4, <1>6, ConcatProperties
<1>8. DOMAIN FieldForms(f) = 1 .. Len(FieldForms(f)) /\ Len(FieldForms(f)) \in Nat
    BY <1>7
<1>9. \A k \in DOMAIN FieldForms(f) : FieldForms(f)[k] \in Good
    BY <1>7
<1> QED
    BY <1>8, <1>9 DEF Good

\* trap_oid is looked up under its own name only.
LEMMA ResolveOID ==
    ASSUME NEW event
    PROVE  ResolveField(event, TrapOIDField) = MapGet(event.fields, TrapOIDField)
<1> DEFINE m == event.fields
           keys == <<TrapOIDField>>
<1>1. TrapOIDField \in Seq(Token) /\ TrapOIDField # <<>>
    BY DEF TrapOIDField, Token
<1>2. TrapOIDField[1] = "trap_oid"
    BY DEF TrapOIDField
<1>3. \A t \in {"fields.", "varbind.", "varbind:"} : ~HasPrefix(TrapOIDField, <<t>>)
  <2>1. \A t \in {"fields.", "varbind.", "varbind:"} : t \in Token /\ t # "trap_oid"
      BY DEF Token
  <2> QED
      BY <1>1, <1>2, <2>1, PrefixOfOne, Zenon
<1>4. FieldForms(TrapOIDField) = <<TrapOIDField>> \o <<>> \o <<>>
    BY <1>3, Zenon DEF FieldForms, VarBindPrefixes
<1> HIDE DEF m
<1>5. FieldForms(TrapOIDField) = keys
  <2> DEFINE S == {TrapOIDField}
  <2>1. keys \in Seq(S)
      OBVIOUS
  <2> HIDE DEF keys
  <2> QED
      BY <1>4, <2>1, ConcatEmptySeq DEF keys
<1>6. DOMAIN keys = {1} /\ keys[1] = TrapOIDField
    OBVIOUS
<1> HIDE DEF keys
<1> DEFINE I == {k \in DOMAIN keys : keys[k] \in DOMAIN m}
<1>7. ResolveField(event, TrapOIDField) = FirstValue(m, keys)
    BY <1>1, <1>5 DEF ResolveField, m
<1>8. CASE TrapOIDField \in DOMAIN m
  <2>1. I = {1}
      BY <1>6, <1>8
  <2>2. FirstIndex(I) = 1
      BY <2>1, LeastIndex
  <2> QED
      BY <1>6, <1>7, <1>8, <2>2 DEF FirstValue, MapGet, m
<1>9. CASE TrapOIDField \notin DOMAIN m
  <2>1. I = {}
      BY <1>6, <1>9
  <2>2. FirstIndex(I) = 0
      BY <2>1, LeastIndex
  <2> QED
      BY <1>7, <1>9, <2>2 DEF FirstValue, MapGet, m
<1> QED
    BY <1>8, <1>9

\* cloneEventWithTrapOID replaces what trap_oid resolves to and nothing that another
\* key field of a rule does.
LEMMA ResolveClone ==
    ASSUME NEW event, "fields" \in DOMAIN event, NEW oid, oid # <<>>
    PROVE  LET clone == cloneEventWithTrapOID(event, oid)
           IN  /\ ResolveField(clone, TrapOIDField) = oid
               /\ \A f \in Seq(Token) :
                     (f # TrapOIDField /\ f # <<"fields.", "trap_oid">>) =>
                         ResolveField(clone, f) = ResolveField(event, f)
<1> DEFINE clone == cloneEventWithTrapOID(event, oid)
           u == Update(event.fields, TrapOIDField, oid)
<1>1. clone.fields = u
    BY DEF cloneEventWithTrapOID, TrapOIDField
<1>2. TrapOIDField \in DOMAIN u /\ u[TrapOIDField] = oid
    BY DEF Update
<1> HIDE DEF clone, u
<1>3. ResolveField(clone, TrapOIDField) = oid
    BY <1>1, <1>2, ResolveOID DEF MapGet
<1>4. ASSUME NEW f \in Seq(Token), f # TrapOIDField, f # <<"fields.", "trap_oid">>
      PROVE  ResolveField(clone, f) = ResolveField(event, f)
  <2> DEFINE keys == FieldForms(f)
  <2>1. /\ DOMAIN keys \in SUBSET (Nat \ {0})
        /\ \A k \in DOMAIN keys : keys[k] # TrapOIDField
      BY <1>4, FormsOfOther
  <2> HIDE DEF keys
  <2>2. FirstValue(u, keys) = FirstValue(event.fields, keys)
      BY <2>1, FirstValueOther DEF u
  <2> QED
      BY <1>1, <2>2 DEF ResolveField, keys
<1> QED
    BY <1>3, <1>4 DEF clone

-----------------------------------------------------------------------------
\* internal/match: what a rule that matched says of the event

\* A loop over conditions that ends as usual met the usual verdict everywhere.
LEMMA UsualEverywhere ==
    ASSUME NEW verdicts, NEW usual, DOMAIN verdicts \in SUBSET (Nat \ {0}),
           FirstOther(verdicts, usual) = usual
    PROVE  \A c \in DOMAIN verdicts : verdicts[c] = usual
<1> DEFINE I == {c \in DOMAIN verdicts : verdicts[c] # usual}
           i == FirstIndex(I)
<1>1. FirstOther(verdicts, usual) = IF i = 0 THEN usual ELSE verdicts[i]
    BY DEF FirstOther
<1>2. I \in SUBSET (Nat \ {0})
    OBVIOUS
<1> HIDE DEF i
<1>3. I # {} => i \in I
    BY <1>2, LeastIndex DEF i
<1>4. I = {}
  <2> SUFFICES ASSUME I # {} PROVE FALSE
      OBVIOUS
  <2>1. i \in DOMAIN verdicts /\ verdicts[i] # usual /\ i # 0
      BY <1>3
  <2> QED
      BY <1>1, <2>1
<1> QED
    BY <1>4

\* The condition eq compares the canonical forms of its two sides.
LEMMA EqualCondition ==
    ASSUME NEW event, NEW cond, OpOf(cond) = "eq",
           conditionMatches(event, cond) = "yes"
    PROVE  Canonical(cond.field, ResolveField(event, cond.field)) =
           Canonical(cond.field, cond.value)
<1> DEFINE actual == Canonical(cond.field, ResolveField(event, cond.field))
           expected == Canonical(cond.field, cond.value)
<1>1. ToLower(OpOf(cond)) = "eq"
    BY DEF ToLower
<1>2. conditionMatches(event, cond) = Test("eq", actual, expected, cond)
    BY <1>1 DEF conditionMatches
<1> SUFFICES actual = expected
    OBVIOUS
<1> HIDE DEF actual, expected
<1>3. Test("eq", actual, expected, cond) = Verdict(actual = expected)
    BY DEF Test
<1> QED
    BY <1>2, <1>3 DEF Verdict

\* The trap_oid that staticMatchFieldValue reads off a rule is, but for its spelling,
\* that of every event the rule matches.  This is false of a rule that has both a
\* plain trap_oid and lists: Matches then ignores the first, which is still read off.
LEMMA MatchFixesOID ==
    ASSUME NEW event, NEW spec, NEW oid,
           Matches(event, spec) = "yes",
           staticMatchFieldValue(spec, TrapOIDField) = <<oid>>,
           TrapOIDField \in DOMAIN spec.simple => DOMAIN spec.lists = {},
           "all" \in DOMAIN spec.lists =>
               DOMAIN spec.lists["all"] \in SUBSET (Nat \ {0})
    PROVE  Normalize(ResolveField(event, TrapOIDField)) = Normalize(oid)
<1> DEFINE field == TrapOIDField
           value == ResolveField(event, field)
<1>0. \A s : Canonical(field, s) = Normalize(s)
    BY DEF Canonical, isOIDField, TrapOIDField
<1>1. CASE field \in DOMAIN spec.simple
  <2>1. DOMAIN spec.lists = {}
      BY <1>1
  <2>2. <<spec.simple[field]>> = <<oid>>
      BY <1>1 DEF staticMatchFieldValue
  <2>3. spec.simple[field] = oid
      BY <2>2
  <2>4. \A f \in DOMAIN spec.simple :
           Canonical(f, spec.simple[f]) = Canonical(f, ResolveField(event, f))
      BY <2>1 DEF Matches, Verdict
  <2> QED
      BY <1>0, <1>1, <2>3, <2>4
<1>2. CASE field \notin DOMAIN spec.simple
  <2> DEFINE all == IF "all" \in DOMAIN spec.lists THEN ToSet(spec.lists["all"])
                    ELSE {}
             eq == {d \in all : d.field = field /\ OpOf(d) = "eq"}
             fixed == {c.value : c \in eq}
  <2>1. staticMatchFieldValue(spec, field) =
            IF \E v \in fixed : fixed = {v} THEN <<CHOOSE v \in fixed : TRUE>>
            ELSE <<>>
      BY <1>2 DEF staticMatchFieldValue
  <2>2. oid \in fixed
    <3> HIDE DEF fixed
    <3>0. staticMatchFieldValue(spec, field) # <<>>
        OBVIOUS
    <3>1. PICK v \in fixed : fixed = {v}
        BY <2>1, <3>0, Zenon
    <3>2. <<CHOOSE x \in fixed : TRUE>> = <<oid>>
        BY <2>1, <3>1
    <3>3. (CHOOSE x \in fixed : TRUE) = oid
        BY <3>2
    <3> QED
        BY <3>1, <3>3
  <2>3. PICK c \in all : c.field = field /\ OpOf(c) = "eq" /\ c.value = oid
      BY <2>2
  <2>4. "all" \in DOMAIN spec.lists /\ c \in ToSet(spec.lists["all"])
      BY <2>3
  <2> HIDE DEF all, fixed
  <2> DEFINE list == spec.lists["all"]
             verdicts == [i \in DOMAIN list |-> conditionMatches(event, list[i])]
  <2>5. PICK i \in DOMAIN list : c = list[i]
      BY <2>4 DEF ToSet
  <2>6. FirstOther(verdicts, "yes") = "yes"
    <3>1. PICK any, not : Matches(event, spec) = Combined(verdicts, any, not)
        BY <2>4 DEF Matches
    <3> HIDE DEF verdicts
    <3> QED
        BY <3>1 DEF Combined
  <2>7. DOMAIN verdicts = DOMAIN list /\ DOMAIN list \in SUBSET (Nat \ {0})
      BY <2>4
  <2>8. verdicts[i] = conditionMatches(event, c)
      BY <2>5
  <2> HIDE DEF verdicts, list
  <2>9. conditionMatches(event, c) = "yes"
      BY <2>5, <2>6, <2>7, <2>8, UsualEverywhere
  <2>10. Canonical(field, value) = Canonical(field, oid)
      BY <2>3, <2>9, EqualCondition
  <2> QED
      BY <1>0, <2>10
<1> QED
    BY <1>1, <1>2

-----------------------------------------------------------------------------
\* internal/match BuildDedupKey and internal/engine applyAlarmClearRules: keys

\* A key depends on the values of the key fields and on nothing else.
LEMMA SameValuesSameKey ==
    ASSUME NEW a, NEW b, NEW keyFields,
           \A f \in Range(keyFields) : ResolveField(a, f) = ResolveField(b, f)
    PROVE  BuildDedupKey(a, keyFields) = BuildDedupKey(b, keyFields)
<1>1. \A i \in DOMAIN keyFields :
         ResolveField(a, keyFields[i]) = ResolveField(b, keyFields[i])
    BY DEF Range
<1>2. [i \in DOMAIN keyFields |-> <<keyFields[i], ResolveField(a, keyFields[i])>>]
      = [i \in DOMAIN keyFields |-> <<keyFields[i], ResolveField(b, keyFields[i])>>]
    BY <1>1
<1> QED
    BY <1>1, <1>2 DEF BuildDedupKey

\* There is a key when every key field has a value.
LEMMA KeyPresent ==
    ASSUME NEW event, NEW keyFields, DOMAIN keyFields # {},
           \A f \in Range(keyFields) : ResolveField(event, f) # <<>>
    PROVE  BuildDedupKey(event, keyFields) # NoKey
<1> DEFINE key == [i \in DOMAIN keyFields |->
                     <<keyFields[i], ResolveField(event, keyFields[i])>>]
<1>1. \A i \in DOMAIN keyFields : ResolveField(event, keyFields[i]) # <<>>
    BY DEF Range
<1>2. BuildDedupKey(event, keyFields) = key
    BY <1>1 DEF BuildDedupKey
<1>3. DOMAIN key = DOMAIN keyFields
    OBVIOUS
<1> HIDE DEF key
<1>4. DOMAIN NoKey = {}
    BY DEF NoKey
<1> QED
    BY <1>2, <1>3, <1>4

\* Two events that have a key and have the same one agree on every key field.
LEMMA KeyTellsValues ==
    ASSUME NEW a, NEW b, NEW keyFields,
           BuildDedupKey(a, keyFields) # NoKey,
           BuildDedupKey(a, keyFields) = BuildDedupKey(b, keyFields)
    PROVE  \A f \in Range(keyFields) : ResolveField(a, f) = ResolveField(b, f)
<1> DEFINE key(e) == [i \in DOMAIN keyFields |->
                        <<keyFields[i], ResolveField(e, keyFields[i])>>]
<1>1. BuildDedupKey(a, keyFields) = key(a) /\ BuildDedupKey(b, keyFields) = key(b)
    BY DEF BuildDedupKey
<1>2. ASSUME NEW i \in DOMAIN keyFields
      PROVE  ResolveField(a, keyFields[i]) = ResolveField(b, keyFields[i])
  <2>1. key(a)[i] = key(b)[i]
      BY <1>1
  <2>2. key(a)[i][2] = ResolveField(a, keyFields[i])
      OBVIOUS
  <2>3. key(b)[i][2] = ResolveField(b, keyFields[i])
      OBVIOUS
  <2> QED
      BY <2>1, <2>2, <2>3
<1> QED
    BY <1>2 DEF Range

\* The event t has the key that the clear trap looks under for alarm.
StandsFor(t, cleared, alarm) ==
    /\ ClearKey(cleared, alarm) = BuildDedupKey(t, alarm.keyFields)
    /\ \A f \in Range(alarm.keyFields) \ {TrapOIDField} :
          ResolveField(t, f) = ResolveField(cleared, f)
    /\ TrapOIDField \in Range(alarm.keyFields) =>
          \A oid : (oid # <<>> /\
              staticMatchFieldValue(alarm.match, TrapOIDField) = <<oid>>)
              => ResolveField(t, TrapOIDField) = oid

\* The key a clear looks under is the key of an event that has the clear trap's
\* values, and the trap_oid of the rule where the rule fixes one and is keyed on it.
LEMMA ClearKeyTarget ==
    ASSUME NEW alarm, NEW cleared, "fields" \in DOMAIN cleared,
           alarm.keyFields \in Seq(Seq(Token)),
           <<"fields.", "trap_oid">> \notin Range(alarm.keyFields),
           alarm.clear[1].keyFields \in {<<>>, alarm.keyFields}
    PROVE  \E t : StandsFor(t, cleared, alarm)
<1> DEFINE keyFields == alarm.keyFields
           fixed == dedupKeyTrapOID(alarm.match, keyFields)
           static == staticMatchFieldValue(alarm.match, TrapOIDField)
           t == IF fixed = <<>> THEN cleared
                ELSE cloneEventWithTrapOID(cleared, fixed[1])
<1>1. ClearKey(cleared, alarm) = BuildDedupKey(t, keyFields)
    BY DEF ClearKey
<1>2. TrapOIDField \in Range(keyFields) => fixed = static
    BY DEF dedupKeyTrapOID, Range, TrapOIDField
<1>3. \A f \in Range(keyFields) \ {TrapOIDField} :
         f \in Seq(Token) /\ f # TrapOIDField /\ f # <<"fields.", "trap_oid">>
    BY DEF Range
<1> HIDE DEF fixed, static
<1>4. CASE fixed = <<>> \/ fixed[1] = <<>>
  <2>1. t = cleared
      BY <1>4 DEF cloneEventWithTrapOID
  <2>2. \A oid : static = <<oid>> => oid = static[1] /\ static # <<>>
      OBVIOUS
  <2> HIDE DEF t
  <2> QED
      BY <1>1, <1>2, <1>4, <2>1, <2>2 DEF static, StandsFor
<1>5. CASE fixed # <<>> /\ fixed[1] # <<>>
  <2>1. t = cloneEventWithTrapOID(cleared, fixed[1])
      BY <1>5
  <2> HIDE DEF t
  <2>2. ResolveField(t, TrapOIDField) = fixed[1]
      BY <1>5, <2>1, ResolveClone
  <2>3. \A f \in Range(keyFields) \ {TrapOIDField} :
           ResolveField(t, f) = ResolveField(cleared, f)
      BY <1>3, <1>5, <2>1, ResolveClone
  <2>4. \A oid : static = <<oid>> => oid = static[1]
      OBVIOUS
  <2> QED
      BY <1>1, <1>2, <2>2, <2>3, <2>4 DEF static, StandsFor
<1> QED
    BY <1>4, <1>5

\* docs/configuration.md: "the relay uses the parent alarm's configured trap_oid value
\* for key matching so the clear still resets the original alarm".  For every rule:
\* when the alarm trap meets the rule, the two traps agree on the other key fields, and
\* the rule and the decoder spell the trap_oid without a dot and blanks, the clear looks
\* under the key the alarm was stored under.
THEOREM ClearKeyIsAlarmKey ==
    ASSUME NEW alarm, NEW raised, NEW cleared, "fields" \in DOMAIN cleared,
           alarm.keyFields \in Seq(Seq(Token)),
           <<"fields.", "trap_oid">> \notin Range(alarm.keyFields),
           alarm.clear[1].keyFields \in {<<>>, alarm.keyFields},
           Matches(raised, alarm.match) = "yes",
           \A f \in Range(alarm.keyFields) : ResolveField(raised, f) # <<>>,
           \A f \in Range(alarm.keyFields) \ {TrapOIDField} :
               ResolveField(cleared, f) = ResolveField(raised, f),
           TrapOIDField \in Range(alarm.keyFields) =>
               \E oid :
                   LET spec == alarm.match
                       value == ResolveField(raised, TrapOIDField)
                   IN  /\ staticMatchFieldValue(spec, TrapOIDField) = <<oid>>
                       /\ Normalize(oid) = oid
                       /\ Normalize(value) = value
                       /\ TrapOIDField \in DOMAIN spec.simple => DOMAIN spec.lists = {}
                       /\ "all" \in DOMAIN spec.lists =>
                             DOMAIN spec.lists["all"] \in SUBSET (Nat \ {0})
    PROVE  ClearKey(cleared, alarm) = BuildDedupKey(raised, alarm.keyFields)
<1> DEFINE keyFields == alarm.keyFields
           value == ResolveField(raised, TrapOIDField)
<1>1. PICK t : StandsFor(t, cleared, alarm)
    BY ClearKeyTarget, Zenon
<1>2. TrapOIDField \in Range(keyFields) => ResolveField(t, TrapOIDField) = value
  <2> SUFFICES ASSUME TrapOIDField \in Range(keyFields)
               PROVE  ResolveField(t, TrapOIDField) = value
      OBVIOUS
  <2>1. PICK oid :
           /\ staticMatchFieldValue(alarm.match, TrapOIDField) = <<oid>>
           /\ Normalize(oid) = oid
           /\ Normalize(value) = value
           /\ TrapOIDField \in DOMAIN alarm.match.simple =>
                 DOMAIN alarm.match.lists = {}
           /\ "all" \in DOMAIN alarm.match.lists =>
                 DOMAIN alarm.match.lists["all"] \in SUBSET (Nat \ {0})
      OBVIOUS
  <2>2. Normalize(value) = Normalize(oid)
      BY <2>1, MatchFixesOID
  <2>3. oid = value /\ oid # <<>>
      BY <2>1, <2>2
  <2> QED
      BY <1>1, <2>1, <2>3 DEF StandsFor
<1>3. \A f \in Range(keyFields) : ResolveField(t, f) = ResolveField(raised, f)
    BY <1>1, <1>2 DEF StandsFor
<1>4. BuildDedupKey(t, keyFields) = BuildDedupKey(raised, keyFields)
    BY <1>3, SameValuesSameKey
<1> QED
    BY <1>1, <1>4 DEF StandsFor

-----------------------------------------------------------------------------
\* The keys of the alarms and of their clears, under the assumptions

AlarmKey(alarm, n, d) ==
    <<alarm.id, BuildDedupKey(AlarmEvent(alarm, n, d), alarm.keyFields)>>

Sought(alarm, n, d) == <<alarm.id, ClearKey(ClearEvent(alarm, n, d), alarm)>>

\* The key fields of a rule are strings, and there are some.
LEMMA KeyFieldStrings ==
    ASSUME NEW alarm \in Alarms
    PROVE  /\ alarm.keyFields \in Seq(Seq(Token))
           /\ DOMAIN alarm.keyFields # {}
<1>1. alarm.keyFields \in Seq(Seq(STRING)) /\ alarm.keyFields # <<>>
    BY AlarmsAssumption
<1>2. Seq(STRING) \subseteq Seq(Token)
    BY SeqMonotonic DEF Token
<1>3. Seq(Seq(STRING)) \subseteq Seq(Seq(Token))
    BY <1>2, SeqMonotonic
<1>4. Len(alarm.keyFields) \in Nat /\ Len(alarm.keyFields) # 0
    BY <1>1, EmptySeq, LenProperties
<1>5. DOMAIN alarm.keyFields = 1 .. Len(alarm.keyFields)
    BY <1>1
<1>6. DOMAIN alarm.keyFields # {}
  <2>1. PICK k \in Nat : k = Len(alarm.keyFields) /\ k # 0
      BY <1>4
  <2>2. 1 \in 1 .. k
      BY <2>1
  <2> QED
      BY <1>5, <2>1, <2>2, Zenon
<1> QED
    BY <1>1, <1>3, <1>6, Zenon

\* An alarm trap has a key, whichever decoder read it, and no two instances share it.
LEMMA AlarmKeys ==
    ASSUME NEW alarm \in Alarms, NEW n \in Instances, NEW m \in Instances,
           NEW d \in Decoders, NEW e \in Decoders
    PROVE  /\ BuildDedupKey(AlarmEvent(alarm, n, d), alarm.keyFields) # NoKey
           /\ AlarmKey(alarm, n, d) = AlarmKey(alarm, m, e) <=> n = m
<1> DEFINE keyFields == alarm.keyFields
           a == AlarmEvent(alarm, n, d)
           b == AlarmEvent(alarm, m, e)
<1>1. \A f \in Range(keyFields) : ResolveField(a, f) # <<>>
    BY InstancesAssumption
<1>2. n = m => \A f \in Range(keyFields) : ResolveField(a, f) = ResolveField(b, f)
    BY InstancesAssumption
<1>3. n # m => \E f \in Range(keyFields) : ResolveField(b, f) # ResolveField(a, f)
    BY InstancesAssumption
<1> HIDE DEF a, b
<1>4. BuildDedupKey(a, keyFields) # NoKey
    BY <1>1, KeyFieldStrings, KeyPresent
<1>5. n = m => BuildDedupKey(a, keyFields) = BuildDedupKey(b, keyFields)
    BY <1>2, SameValuesSameKey
<1>6. n # m => BuildDedupKey(a, keyFields) # BuildDedupKey(b, keyFields)
    BY <1>3, <1>4, KeyTellsValues
<1> QED
    BY <1>4, <1>5, <1>6 DEF AlarmKey, a, b

\* A clear never looks under the key of another instance, however its rule is spelled.
LEMMA SoughtElsewhere ==
    ASSUME NEW alarm \in Alarms, NEW n \in Instances, NEW m \in Instances, n # m,
           NEW d \in Decoders, NEW e \in Decoders
    PROVE  Sought(alarm, n, d) # AlarmKey(alarm, m, e)
<1> DEFINE keyFields == alarm.keyFields
           cleared == ClearEvent(alarm, n, d)
           other == AlarmEvent(alarm, m, e)
<1>1. "fields" \in DOMAIN cleared
    BY TrapsAssumption
<1>2. PICK f \in Range(keyFields) \ {TrapOIDField} :
         ResolveField(other, f) # ResolveField(AlarmEvent(alarm, n, d), f)
    BY InstancesAssumption
<1>3. ResolveField(cleared, f) = ResolveField(AlarmEvent(alarm, n, d), f)
    BY <1>2, InstancesAssumption
<1> HIDE DEF cleared, other
<1>4. /\ <<"fields.", "trap_oid">> \notin Range(keyFields)
      /\ alarm.clear[1].keyFields \in {<<>>, keyFields}
    BY AlarmsAssumption
<1>5. PICK t : StandsFor(t, cleared, alarm)
    BY <1>1, <1>4, KeyFieldStrings, ClearKeyTarget
<1>6. ResolveField(t, f) # ResolveField(other, f)
    BY <1>2, <1>3, <1>5 DEF StandsFor
<1>7. BuildDedupKey(other, keyFields) # NoKey
    BY AlarmKeys DEF other
<1>8. BuildDedupKey(other, keyFields) # BuildDedupKey(t, keyFields)
    BY <1>2, <1>6, <1>7, KeyTellsValues
<1>9. ClearKey(cleared, alarm) = BuildDedupKey(t, keyFields)
    BY <1>5 DEF StandsFor
<1> QED
    BY <1>8, <1>9 DEF Sought, AlarmKey, cleared, other

\* A clear looks under the key of its own instance if the rule spells the trap_oid as
\* the decoder does.
LEMMA SoughtIsKey ==
    ASSUME SpelledAsDecoded, NEW alarm \in Alarms, NEW n \in Instances,
           NEW d \in Decoders, NEW e \in Decoders
    PROVE  Sought(alarm, n, d) = AlarmKey(alarm, n, e)
<1> DEFINE keyFields == alarm.keyFields
           spec == alarm.match
           cleared == ClearEvent(alarm, n, d)
           raised == AlarmEvent(alarm, n, e)
           value == ResolveField(raised, TrapOIDField)
<1>1. /\ "fields" \in DOMAIN cleared
      /\ Matches(raised, spec) = "yes"
    BY TrapsAssumption
<1>2. /\ <<"fields.", "trap_oid">> \notin Range(keyFields)
      /\ alarm.clear[1].keyFields \in {<<>>, keyFields}
    BY AlarmsAssumption
<1>3. \A f \in Range(keyFields) : ResolveField(raised, f) # <<>>
    BY InstancesAssumption
<1>4. \A f \in Range(keyFields) \ {TrapOIDField} :
         ResolveField(cleared, f) = ResolveField(raised, f)
    BY InstancesAssumption
<1>5. ASSUME TrapOIDField \in Range(keyFields)
      PROVE  \E oid :
                /\ staticMatchFieldValue(spec, TrapOIDField) = <<oid>>
                /\ Normalize(oid) = oid
                /\ Normalize(value) = value
                /\ TrapOIDField \in DOMAIN spec.simple => DOMAIN spec.lists = {}
                /\ "all" \in DOMAIN spec.lists =>
                      DOMAIN spec.lists["all"] \in SUBSET (Nat \ {0})
  <2> DEFINE static == staticMatchFieldValue(spec, TrapOIDField)
  <2>1. /\ static # <<>>
        /\ TrapOIDField \in DOMAIN spec.simple => DOMAIN spec.lists = {}
      BY <1>5, AlarmsAssumption
  <2>2. \E oid : static = <<oid>>
      BY <2>1 DEF staticMatchFieldValue
  <2>3. Normalize(static[1]) = static[1]
      BY <1>5 DEF SpelledAsDecoded
  <2>4. Normalize(value) = value
      BY <1>5, NormalizedAssumption
  <2>5. "all" \in DOMAIN spec.lists =>
            DOMAIN spec.lists["all"] \in SUBSET (Nat \ {0})
    <3> SUFFICES ASSUME "all" \in DOMAIN spec.lists
                 PROVE  DOMAIN spec.lists["all"] \in SUBSET (Nat \ {0})
        OBVIOUS
    <3>1. PICK list : list = spec.lists["all"] /\ list \in Seq(Range(list))
        BY AlarmsAssumption
    <3>2. DOMAIN list = 1 .. Len(list) /\ Len(list) \in Nat
        BY <3>1
    <3> QED
        BY <3>1, <3>2
  <2> HIDE DEF static
  <2>6. PICK oid : static = <<oid>>
      BY <2>2
  <2>7. oid = static[1]
      BY <2>6
  <2> QED
      BY <2>1, <2>3, <2>4, <2>5, <2>6, <2>7, Zenon DEF static
<1> HIDE DEF cleared, raised
<1>6. ClearKey(cleared, alarm) = BuildDedupKey(raised, keyFields)
    BY <1>1, <1>2, <1>3, <1>4, <1>5, KeyFieldStrings, ClearKeyIsAlarmKey, Zenon
<1> QED
    BY <1>6 DEF Sought, AlarmKey, cleared, raised

-----------------------------------------------------------------------------
\* internal/engine HandleEvent: where the two traps go

\* The clear rule does not take an alarm trap.
LEMMA AlarmIsNoClear ==
    ASSUME NEW alarm \in Alarms, NEW n \in Instances, NEW d \in Decoders
    PROVE  ClearVerdict(AlarmEvent(alarm, n, d), alarm) \in {"none", "unmatched"}
<1> DEFINE raised == AlarmEvent(alarm, n, d)
           clear == alarm.clear[1]
<1>1. alarm.clear # <<>>
    BY AlarmsAssumption
<1>2. \/ Matches(raised, clear.match) # "yes"
      \/ VarBindSays(raised, clear) = "no"
    BY TrapsAssumption
<1> HIDE DEF raised
<1>3. CASE Matches(raised, clear.match) # "yes"
    BY <1>1, <1>3 DEF ClearVerdict, raised
<1>4. CASE Matches(raised, clear.match) = "yes" /\ VarBindSays(raised, clear) = "no"
    BY <1>1, <1>4 DEF ClearVerdict, VarBindSays, raised
<1> QED
    BY <1>2, <1>3, <1>4

\* The clear rule takes a clear trap, and deletes under the key it looks for.
LEMMA ClearIsClear ==
    ASSUME NEW alarm \in Alarms, NEW n \in Instances, NEW d \in Decoders
    PROVE  LET cleared == ClearEvent(alarm, n, d)
           IN  ClearVerdict(cleared, alarm) =
                   IF ClearKey(cleared, alarm) = NoKey THEN "matched" ELSE "clear"
<1> DEFINE cleared == ClearEvent(alarm, n, d)
           clear == alarm.clear[1]
<1>1. alarm.clear # <<>>
    BY AlarmsAssumption
<1>2. Matches(cleared, clear.match) = "yes" /\ VarBindSays(cleared, clear) = "yes"
    BY TrapsAssumption
<1> SUFFICES ClearVerdict(cleared, alarm) =
                 IF ClearKey(cleared, alarm) = NoKey THEN "matched" ELSE "clear"
    OBVIOUS
<1> HIDE DEF cleared
<1> QED
    BY <1>1, <1>2 DEF ClearVerdict, VarBindSays

\* With one alarm rule, the verdict of its clear decides matchedClear.
LEMMA OneRuleDecides ==
    ASSUME NEW alarm, NEW event
    PROVE  LET cfg == [alarms |-> <<alarm>>]
           IN  matchedClear(cfg, event) <=>
                   ClearVerdict(event, alarm) \notin {"none", "unmatched"}
<1> DEFINE cfg == [alarms |-> <<alarm>>]
           verdict == [i \in DOMAIN cfg.alarms |-> ClearVerdict(event, cfg.alarms[i])]
           said == {i \in DOMAIN cfg.alarms : verdict[i] # "none"}
<1>1. DOMAIN cfg.alarms = {1} /\ cfg.alarms[1] = alarm
    OBVIOUS
<1>2. matchedClear(cfg, event) <=> said # {} /\ verdict[Max(said)] # "unmatched"
    BY DEF matchedClear
<1>3. verdict[1] = ClearVerdict(event, alarm)
    BY <1>1
<1> SUFFICES matchedClear(cfg, event) <=>
                 ClearVerdict(event, alarm) \notin {"none", "unmatched"}
    OBVIOUS
<1>4. CASE ClearVerdict(event, alarm) = "none"
  <2>1. said = {}
      BY <1>1, <1>3, <1>4
  <2> QED
      BY <1>2, <1>4, <2>1
<1>5. CASE ClearVerdict(event, alarm) # "none"
  <2>1. said = {1}
      BY <1>1, <1>3, <1>5
  <2> HIDE DEF said
  <2>2. Max(said) = 1
      BY <2>1 DEF Max
  <2> QED
      BY <1>2, <1>3, <1>5, <2>1, <2>2
<1> QED
    BY <1>4, <1>5

\* An alarm trap deletes nothing and is deduplicated under its key.
LEMMA AlarmRoute ==
    ASSUME NEW alarm \in Alarms, NEW n \in Instances, NEW d \in Decoders
    PROVE  LET cfg == [alarms |-> <<alarm>>]
               raised == AlarmEvent(alarm, n, d)
           IN  /\ Range(ClearedKeys(cfg, raised)) = {}
               /\ Route(cfg, raised).to = "dedup"
               /\ Route(cfg, raised).key = AlarmKey(alarm, n, d)
<1> DEFINE cfg == [alarms |-> <<alarm>>]
           raised == AlarmEvent(alarm, n, d)
           I == {i \in 1 .. Len(cfg.alarms) : Matches(raised, cfg.alarms[i].match) # "no"}
<1>1. Len(cfg.alarms) = 1 /\ cfg.alarms[1] = alarm
    OBVIOUS
<1>2. ClearVerdict(raised, alarm) \in {"none", "unmatched"}
    BY AlarmIsNoClear
<1>3. ~matchedClear(cfg, raised)
    BY <1>2, OneRuleDecides
<1>4. Matches(raised, alarm.match) = "yes"
    BY TrapsAssumption
<1>5. BuildDedupKey(raised, alarm.keyFields) # NoKey
    BY AlarmKeys
<1>6. AlarmKey(alarm, n, d) = <<alarm.id, BuildDedupKey(raised, alarm.keyFields)>>
    BY DEF AlarmKey
<1> SUFFICES /\ Range(ClearedKeys(cfg, raised)) = {}
             /\ Route(cfg, raised).to = "dedup"
             /\ Route(cfg, raised).key = AlarmKey(alarm, n, d)
    OBVIOUS
<1> HIDE DEF cfg, raised
<1>7. DOMAIN ClearedKeys(cfg, raised) = {}
    BY <1>1, <1>2 DEF ClearedKeys
<1>8. I = {1}
    BY <1>1, <1>4
<1>9. matchAlarm(cfg, raised) = 1
  <2>1. matchAlarm(cfg, raised) = FirstIndex(I)
      BY DEF matchAlarm, FirstRule
  <2>2. I \in SUBSET (Nat \ {0}) /\ I # {}
      BY <1>8
  <2> HIDE DEF I
  <2>3. FirstIndex(I) \in I
      BY <2>2, LeastIndex
  <2> QED
      BY <1>8, <2>1, <2>3
<1>10. Route(cfg, raised) = [to |-> "dedup", alarm |-> 1,
                key |-> <<alarm.id, BuildDedupKey(raised, alarm.keyFields)>>]
    BY <1>1, <1>3, <1>4, <1>5, <1>9 DEF Route
<1> QED
    BY <1>6, <1>7, <1>10 DEF Range

\* A clear trap deletes at most under the key it looks for, which it does if there is
\* one, and is passed through.
LEMMA ClearRoute ==
    ASSUME NEW alarm \in Alarms, NEW n \in Instances, NEW d \in Decoders
    PROVE  LET cfg == [alarms |-> <<alarm>>]
               cleared == ClearEvent(alarm, n, d)
           IN  /\ Range(ClearedKeys(cfg, cleared)) \subseteq {Sought(alarm, n, d)}
               /\ ClearKey(cleared, alarm) # NoKey =>
                     Sought(alarm, n, d) \in Range(ClearedKeys(cfg, cleared))
               /\ Route(cfg, cleared).to = "pass"
<1> DEFINE cfg == [alarms |-> <<alarm>>]
           cleared == ClearEvent(alarm, n, d)
<1>1. Len(cfg.alarms) = 1 /\ cfg.alarms[1] = alarm
    OBVIOUS
<1>2. ClearVerdict(cleared, alarm) =
          IF ClearKey(cleared, alarm) = NoKey THEN "matched" ELSE "clear"
    BY ClearIsClear
<1>3. matchedClear(cfg, cleared)
    BY <1>2, OneRuleDecides
<1>4. Sought(alarm, n, d) = <<alarm.id, ClearKey(cleared, alarm)>>
    BY DEF Sought
<1> SUFFICES /\ Range(ClearedKeys(cfg, cleared)) \subseteq {Sought(alarm, n, d)}
             /\ ClearKey(cleared, alarm) # NoKey =>
                   Sought(alarm, n, d) \in Range(ClearedKeys(cfg, cleared))
             /\ Route(cfg, cleared).to = "pass"
    OBVIOUS
<1> HIDE DEF cfg, cleared
<1>5. DOMAIN ClearedKeys(cfg, cleared) =
          IF ClearKey(cleared, alarm) = NoKey THEN {} ELSE {1}
    BY <1>1, <1>2 DEF ClearedKeys
<1>6. \A i \in DOMAIN ClearedKeys(cfg, cleared) :
         ClearedKeys(cfg, cleared)[i] = Sought(alarm, n, d)
    BY <1>1, <1>4 DEF ClearedKeys
<1>7. Route(cfg, cleared).to = "pass"
    BY <1>3 DEF Route
<1> QED
    BY <1>5, <1>6, <1>7 DEF Range

-----------------------------------------------------------------------------
\* Any sequence of alarm and clear traps

\* Every entry of the store is under the key of an alarm trap of its instance.
AlarmInv ==
    /\ rule \in Alarms
    /\ \A e \in open : \E n \in Instances, d \in Decoders :
          e = <<n, AlarmKey(rule, n, d)>>

\* What an alarm trap does to the store.
LEMMA RaiseStep ==
    ASSUME rule \in Alarms, Raise
    PROVE  \E n \in Instances, d \in Decoders :
              /\ open' = open \cup {<<n, AlarmKey(rule, n, d)>>}
              /\ last' = [kind |-> "alarm", trap |-> RaisedBy[rule], instance |-> n,
                          to |-> "dedup"]
              /\ rule' = rule
<1>1. PICK n \in Instances, d \in Decoders :
         HandleEvent("alarm", RaisedBy[rule], n, AlarmEvent(rule, n, d))
    BY DEF Raise
<1> DEFINE event == AlarmEvent(rule, n, d)
           route == Route(Cfg, event)
           cleared == Range(ClearedKeys(Cfg, event))
<1>2. cleared = {} /\ route.to = "dedup" /\ route.key = AlarmKey(rule, n, d)
    BY AlarmRoute DEF Cfg
<1>3. HandleAs("alarm", RaisedBy[rule], n, cleared, route)
    BY <1>1 DEF HandleEvent
<1> HIDE DEF route, cleared
<1> QED
    BY <1>2, <1>3 DEF HandleAs

\* What a clear trap does to the store.
LEMMA ClearStep ==
    ASSUME rule \in Alarms, ClearTrap
    PROVE  \E n \in Instances, d \in Decoders :
              /\ open' \subseteq open
              /\ \A e \in open : e[2] # Sought(rule, n, d) => e \in open'
              /\ ClearKey(ClearEvent(rule, n, d), rule) # NoKey =>
                    \A e \in open' : e[2] # Sought(rule, n, d)
              /\ last' = [kind |-> "clear", trap |-> ClearedBy[rule], instance |-> n,
                          to |-> "pass"]
              /\ rule' = rule
<1>1. PICK n \in Instances, d \in Decoders :
         HandleEvent("clear", ClearedBy[rule], n, ClearEvent(rule, n, d))
    BY DEF ClearTrap
<1> DEFINE event == ClearEvent(rule, n, d)
           route == Route(Cfg, event)
           cleared == Range(ClearedKeys(Cfg, event))
<1>2. /\ cleared \subseteq {Sought(rule, n, d)}
      /\ ClearKey(event, rule) # NoKey => Sought(rule, n, d) \in cleared
      /\ route.to = "pass"
    BY ClearRoute DEF Cfg
<1>3. HandleAs("clear", ClearedBy[rule], n, cleared, route)
    BY <1>1 DEF HandleEvent
<1> HIDE DEF route, cleared
<1> QED
    BY <1>2, <1>3 DEF HandleAs

\* AlarmInv is inductive: nothing but Raise puts an entry into the store.
LEMMA AlarmInvariant == Spec => []AlarmInv
<1>1. Init => AlarmInv
    BY DEF Init, AlarmInv
<1>2. AlarmInv /\ [Next]_vars => AlarmInv'
  <2> SUFFICES ASSUME AlarmInv, [Next]_vars PROVE AlarmInv'
      OBVIOUS
  <2>0. rule \in Alarms
      BY DEF AlarmInv
  <2>1. CASE Raise
    <3>1. PICK n \in Instances, d \in Decoders :
             /\ open' = open \cup {<<n, AlarmKey(rule, n, d)>>}
             /\ rule' = rule
        BY <2>0, <2>1, RaiseStep
    <3> QED
        BY <3>1 DEF AlarmInv
  <2>2. CASE ClearTrap
    <3>1. open' \subseteq open /\ rule' = rule
        BY <2>0, <2>2, ClearStep
    <3> QED
        BY <3>1 DEF AlarmInv
  <2>3. CASE CutTrap
      BY <2>3 DEF CutTrap, AlarmInv
  <2>4. CASE UNCHANGED vars
      BY <2>4 DEF vars, AlarmInv
  <2> QED
      BY <2>1, <2>2, <2>3, <2>4 DEF Next
<1> QED
    BY <1>1, <1>2, PTL DEF Spec

\* BuildDedupKey: in the store, the entries of one instance have one key, and those of
\* two instances never the same.
THEOREM InstancesHaveKeys == Spec => []OneKeyPerInstance
<1>1. AlarmInv => OneKeyPerInstance
  <2> SUFFICES ASSUME AlarmInv, NEW x \in open, NEW y \in open
               PROVE  x[1] = y[1] <=> x[2] = y[2]
      BY DEF OneKeyPerInstance
  <2>1. PICK n \in Instances, d \in Decoders : x = <<n, AlarmKey(rule, n, d)>>
      BY DEF AlarmInv
  <2>2. PICK m \in Instances, e \in Decoders : y = <<m, AlarmKey(rule, m, e)>>
      BY DEF AlarmInv
  <2>3. AlarmKey(rule, n, d) = AlarmKey(rule, m, e) <=> n = m
      BY AlarmKeys DEF AlarmInv
  <2> QED
      BY <2>1, <2>2, <2>3
<1> QED
    BY <1>1, AlarmInvariant, PTL

\* A clear deletes no entry of another instance, even where it misses its own because
\* the rule spells the trap_oid otherwise.
THEOREM ClearsArePrecise == Spec => ClearIsPrecise
<1> DEFINE A == last'.kind = "clear" =>
                   \A e \in open : e[1] # last'.instance => e \in open'
<1>1. AlarmInv /\ [Next]_vars => [A]_vars
  <2> SUFFICES ASSUME AlarmInv, Next PROVE A
      BY DEF A
  <2>0. rule \in Alarms
      BY DEF AlarmInv
  <2>1. CASE Raise
      BY <2>0, <2>1, RaiseStep
  <2>2. CASE ClearTrap
    <3>1. PICK n \in Instances, d \in Decoders :
             /\ \A e \in open : e[2] # Sought(rule, n, d) => e \in open'
             /\ last'.instance = n
        BY <2>0, <2>2, ClearStep
    <3> SUFFICES ASSUME NEW e \in open, e[1] # n PROVE e \in open'
        BY <3>1
    <3>2. PICK m \in Instances, c \in Decoders : e = <<m, AlarmKey(rule, m, c)>>
        BY DEF AlarmInv
    <3>3. e[2] # Sought(rule, n, d)
        BY <2>0, <3>2, SoughtElsewhere
    <3> QED
        BY <3>1, <3>3
  <2>3. CASE CutTrap
      BY <2>3 DEF CutTrap
  <2> QED
      BY <2>1, <2>2, <2>3 DEF Next
<1>2. [][Next]_vars /\ []AlarmInv => [][A]_vars
    BY <1>1, PTL
<1> QED
    BY <1>2, AlarmInvariant DEF Spec, ClearIsPrecise

\* docs/configuration.md: "the clear still resets the original alarm".  After the clear
\* of an instance the store has no entry of that instance, for every rule that spells
\* its trap_oid as the decoder does.
THEOREM ClearsReset ==
    ASSUME SpelledAsDecoded
    PROVE  Spec => ClearResets
<1> DEFINE A == last'.kind = "clear" => \A e \in open' : e[1] # last'.instance
<1>1. AlarmInv /\ [Next]_vars => [A]_vars
  <2> SUFFICES ASSUME AlarmInv, Next PROVE A
      BY DEF A
  <2>0. rule \in Alarms
      BY DEF AlarmInv
  <2>1. CASE Raise
      BY <2>0, <2>1, RaiseStep
  <2>2. CASE ClearTrap
    <3>1. PICK n \in Instances, d \in Decoders :
             /\ open' \subseteq open
             /\ ClearKey(ClearEvent(rule, n, d), rule) # NoKey =>
                   \A e \in open' : e[2] # Sought(rule, n, d)
             /\ last'.instance = n
        BY <2>0, <2>2, ClearStep
    <3> SUFFICES ASSUME NEW e \in open', e[1] = n PROVE FALSE
        BY <3>1
    <3>2. PICK m \in Instances, c \in Decoders : e = <<m, AlarmKey(rule, m, c)>>
        BY <3>1 DEF AlarmInv
    <3>3. e = <<n, AlarmKey(rule, n, c)>>
        BY <3>2
    <3>4. Sought(rule, n, d) = AlarmKey(rule, n, c)
        BY <2>0, SoughtIsKey
    <3>5. ClearKey(ClearEvent(rule, n, d), rule) # NoKey
        BY <2>0, <3>4, AlarmKeys DEF Sought, AlarmKey
    <3> QED
        BY <3>1, <3>3, <3>4, <3>5
  <2>3. CASE CutTrap
    <3>1. last'.kind = "cut"
        BY <2>3 DEF CutTrap
    <3> QED
        BY <3>1
  <2> QED
      BY <2>1, <2>2, <2>3 DEF Next
<1>2. [][Next]_vars /\ []AlarmInv => [][A]_vars
    BY <1>1, PTL
<1> QED
    BY <1>2, AlarmInvariant DEF Spec, ClearResets
=============================================================================
