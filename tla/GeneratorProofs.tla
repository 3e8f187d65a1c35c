-------------------------- MODULE GeneratorProofs ---------------------------
(***************************************************************************)
(* The bindings of every interface.  In Python, what the backend accepts   *)
(* hides no method and tells the signals apart, what it refuses is         *)
(* ambiguous.  In C++, names are declared where they are looked for, and   *)
(* member functions are defined once, and names that are plain clash only  *)
(* where the interface names two entities alike.                           *)
(***************************************************************************)
EXTENDS Generator, FiniteSetTheorems, SequenceTheorems, TLAPS

MethodEntry == [name : PyName, service : NamedService \cup {MainService}, number : Nat]
SignalEntry == [name : PyName, topic : Name]
Services == NamedService \cup {MainService}
NameOf(d) == MethodName(d.service, d.name)

\* Of the declarations that are rendered so far ...
Seen(k) == k \in DOMAIN interface /\ k < next

\* ... the methods are in the handler table, and nothing else is;
Tabled(k) ==
  [name |-> NameOf(interface[k]), service |-> interface[k].service, number |-> Number(k)]

MethodsAreTabled ==
  \A k \in DOMAIN interface : Seen(k) /\ interface[k].kind = "method" =>
    \E j \in DOMAIN methods : methods[j] = Tabled(k)

MethodsAreDeclared ==
  \A j \in DOMAIN methods : \E k \in DOMAIN interface :
    Seen(k) /\ interface[k].kind = "method" /\ methods[j] = Tabled(k)

\* the signals have their topics;
Announced(k) ==
  [name |-> NameOf(interface[k]), topic |-> TopicOf(interface[k].service, interface[k].name)]

SignalsAreDeclared ==
  \A j \in DOMAIN signals : \E k \in DOMAIN interface :
    Seen(k) /\ interface[k].kind = "signal" /\ signals[j] = Announced(k)

\* and the classes have their names.
ClassesAreDeclared ==
  \A c \in symbols : c \in ModuleSymbols \/
    \E k \in DOMAIN interface : Seen(k) /\ HasClass(interface[k]) /\ c = ClassOf(interface[k])

\* No two methods have one name, and no two signals.
NamesDiffer ==
  /\ \A i, j \in DOMAIN methods : methods[i].name = methods[j].name => i = j
  /\ \A i, j \in DOMAIN signals : signals[i].name = signals[j].name => i = j

\* What is done is complete, and no method is named like an on_ method.
DoneIsDone ==
  status = "done" =>
    /\ next > Len(interface)
    /\ \A i \in DOMAIN methods : \A j \in DOMAIN signals : methods[i].name # OnName(signals[j].name)

BindingsInv ==
  /\ TypeOK /\ MethodsAreTabled /\ MethodsAreDeclared /\ SignalsAreDeclared
  /\ ClassesAreDeclared /\ NamesDiffer /\ DoneIsDone /\ RefusedForCause

-----------------------------------------------------------------------------
(* Names.                                                                  *)

\* A sequence is known by its first element and the rest.
LEMMA Prefixed ==
  ASSUME NEW S, NEW s \in Seq(S), NEW t \in Seq(S), NEW x, NEW y
  PROVE  /\ <<x>> \o s \in Seq(S \cup {x})
         /\ <<x>> \o s # <<>>
         /\ Head(<<x>> \o s) = x
         /\ <<x>> \o s = <<y>> \o t => x = y /\ s = t
<1> DEFINE A == S \cup {x, y}
<1>1. s \in Seq(A) /\ t \in Seq(A) /\ <<x>> \in Seq(A) /\ <<y>> \in Seq(A)
  BY SeqMonotonic
<1>2. s \in Seq(S \cup {x}) /\ <<x>> \in Seq(S \cup {x})
  BY SeqMonotonic
<1>3. <<x>> \o s \in Seq(S \cup {x}) /\ Len(<<x>> \o s) = 1 + Len(s)
  BY <1>2, ConcatProperties
<1>4. /\ \A i \in 1..(1 + Len(s)) : (<<x>> \o s)[i] = IF i <= 1 THEN <<x>>[i] ELSE s[i - 1]
      /\ \A i \in 1..(1 + Len(t)) : (<<y>> \o t)[i] = IF i <= 1 THEN <<y>>[i] ELSE t[i - 1]
      /\ Len(<<y>> \o t) = 1 + Len(t)
  BY <1>1, ConcatProperties, Len(<<x>>) = 1, Len(<<y>>) = 1
<1>5. (<<x>> \o s)[1] = x /\ (<<y>> \o t)[1] = y
  BY <1>4, LenProperties
<1>6. ASSUME <<x>> \o s = <<y>> \o t PROVE s = t
  <2>1. Len(s) = Len(t)
    BY <1>3, <1>4, <1>6, LenProperties
  <2>2. \A i \in 1..Len(s) : s[i] = t[i]
    <3> SUFFICES ASSUME NEW i \in 1..Len(s) PROVE s[i] = t[i]
      OBVIOUS
    <3>1. i + 1 \in 1..(1 + Len(s)) /\ i + 1 > 1 /\ (i + 1) - 1 = i
      BY LenProperties
    <3> QED
      BY <3>1, <2>1, <1>4, <1>6
  <2> QED
    BY <2>1, <2>2, SeqEqual
<1>7. <<x>> \o s # <<>>
  BY <1>3, LenProperties, EmptySeq
<1>8. Head(<<x>> \o s) = x
  BY <1>3, <1>5, <1>7
<1>9. <<x>> \o s = <<y>> \o t => x = y /\ s = t
  BY <1>5, <1>6
<1> QED
  BY <1>3, <1>7, <1>8, <1>9

\* The words that the backend adds.
LEMMA WordsType ==
  /\ Blank \in Word /\ "rpc" \in Word /\ "result" \in Word
  /\ Blank \notin {"rpc", "on", "close", "poll"}
<1>1. Blank \in ModuleWords /\ "rpc" \in ModuleWords /\ "result" \in ModuleWords
  BY DEF ModuleWords
<1>2. ModuleWords \subseteq Word
  BY BindingsAssumption
<1>3. Blank \notin {"rpc", "on", "close", "poll"}
  BY Zenon DEF Blank
<1> QED
  BY <1>1, <1>2, <1>3

LEMMA EscapedType ==
  ASSUME NEW words \in Seq(Word) \ {<<>>}
  PROVE  Escaped(words) \in Seq(Word) \ {<<>>}
<1>1. Append(words, Blank) \in Seq(Word) /\ Len(Append(words, Blank)) = Len(words) + 1
  BY WordsType
<1>2. Append(words, Blank) # <<>>
  BY <1>1, LenProperties, EmptySeq
<1> QED
  BY <1>1, <1>2 DEF Escaped

LEMMA QualifiedType ==
  ASSUME NEW service \in Services, NEW words \in Seq(Word) \ {<<>>}
  PROVE  Qualified(service, words) \in Seq(Word) \ {<<>>}
<1>1. CASE service = MainService
  BY <1>1 DEF Qualified
<1>2. CASE service # MainService
  <2>1. Blank \in Word /\ <<Blank>> \in Seq(Word)
    BY WordsType
  <2>2. <<service>> \in Seq(Word) \ {<<>>}
    <3>1. service \in Word
      BY <1>2, BindingsAssumption DEF Services
    <3> QED
      BY <3>1
  <2>3. Escaped(<<service>>) \in Seq(Word) \ {<<>>}
    BY <2>2, EscapedType
  <2>4. Escaped(<<service>>) \o <<Blank>> \in Seq(Word) \ {<<>>}
    BY <2>1, <2>3, ConcatProperties, ConcatSimplifications
  <2>5. Escaped(<<service>>) \o <<Blank>> \o words \in Seq(Word) \ {<<>>}
    BY <2>4, ConcatProperties, ConcatSimplifications
  <2> QED
    BY <2>5, <1>2 DEF Qualified
<1> QED
  BY <1>1, <1>2

\* A method's name is not one of the runtime's, nor one that it keeps to itself.
LEMMA MethodNameIsFree ==
  ASSUME NEW service \in Services, NEW name \in Name
  PROVE  /\ MethodName(service, name) \in Seq(Word) \ {<<>>}
         /\ MethodName(service, name) \notin ClientRuntime
         /\ ~Private(MethodName(service, name))
<1> DEFINE value == Qualified(service, Snake(name))
<1>1. value \in Seq(Word) \ {<<>>}
  BY EscapedType, QualifiedType DEF Snake, Name
<1>2. CASE value \in ClientRuntime \cup ServerRuntime \/ Private(value)
  <2>1. MethodName(service, name) = <<"rpc">> \o value
    BY <1>2 DEF MethodName
  <2>2. "rpc" \in Word /\ <<"rpc">> \in Seq(Word)
    BY WordsType
  <2>3. <<"rpc">> \o value \in Seq(Word) \ {<<>>}
    BY <1>1, <2>2, ConcatProperties, ConcatSimplifications
  <2>4. Head(<<"rpc">> \o value) = "rpc"
    BY <1>1, Prefixed
  <2>5. \A r \in ClientRuntime : Head(r) # "rpc"
    BY DEF ClientRuntime
  <2> QED
    BY <2>1, <2>3, <2>4, <2>5, WordsType DEF Private
<1>3. CASE ~(value \in ClientRuntime \cup ServerRuntime \/ Private(value))
  BY <1>1, <1>3 DEF MethodName
<1> QED
  BY <1>2, <1>3

\* What is in front tells the names of the generated classes' methods apart.
LEMMA OnNames ==
  ASSUME NEW v \in Seq(Word), NEW w \in Seq(Word)
  PROVE  /\ OnName(v) \notin ClientRuntime /\ ~Private(OnName(v))
         /\ EmitName(v) \notin ServerRuntime
         /\ OnName(v) = OnName(w) => v = w
         /\ EmitName(v) = EmitName(w) => v = w
<1>1. Head(OnName(v)) = "on" /\ (OnName(v) = OnName(w) => v = w)
  BY Prefixed DEF OnName
<1>2. Head(EmitName(v)) = "emit" /\ (EmitName(v) = EmitName(w) => v = w)
  BY Prefixed DEF EmitName
<1>3. \A r \in ClientRuntime : Head(r) # "on"
  BY DEF ClientRuntime
<1>4. \A r \in ServerRuntime : Head(r) # "emit"
  BY DEF ServerRuntime
<1> QED
  BY <1>1, <1>2, <1>3, <1>4, WordsType DEF Private

LEMMA RuntimeNotPrivate ==
  ASSUME NEW r \in ClientRuntime PROVE ~Private(r)
<1>1. Head(r) \in {"close", "poll"}
  BY DEF ClientRuntime
<1> QED
  BY <1>1, WordsType DEF Private

LEMMA RuntimeIsFinite == IsFiniteSet(ClientRuntime) /\ IsFiniteSet(ServerRuntime)
<1>1. \A x, y : IsFiniteSet({x, y})
  <2> SUFFICES ASSUME NEW x, NEW y PROVE IsFiniteSet({x, y})
    OBVIOUS
  <2>1. IsFiniteSet({x} \cup {y})
    BY FS_Singleton, FS_AddElement
  <2>2. {x} \cup {y} = {x, y}
    OBVIOUS
  <2> QED
    BY <2>1, <2>2
<1>2. \A v, w, x, y : IsFiniteSet({v, w, x, y})
  <2> SUFFICES ASSUME NEW v, NEW w, NEW x, NEW y PROVE IsFiniteSet({v, w, x, y})
    OBVIOUS
  <2>1. IsFiniteSet({v, w} \cup {x, y})
    BY <1>1, FS_Union
  <2>2. {v, w} \cup {x, y} = {v, w, x, y}
    OBVIOUS
  <2> QED
    BY <2>1, <2>2
<1> QED
  BY <1>1, <1>2 DEF ClientRuntime, ServerRuntime

-----------------------------------------------------------------------------
(* Sequences without repetition.                                           *)

LEMMA SetToSeqInjective ==
  ASSUME NEW S, IsFiniteSet(S)
  PROVE  SetToSeq(S) \in Seq(S) /\ IsInjective(SetToSeq(S))
<1>1. Cardinality(S) \in Nat /\ ExistsBijection(1..Cardinality(S), S)
  BY FS_CardinalityType
<1>2. \E f \in [1..Cardinality(S) -> S] : IsInjective(f)
  BY <1>1 DEF ExistsBijection, Bijection, Injection
<1>3. SetToSeq(S) \in [1..Cardinality(S) -> S] /\ IsInjective(SetToSeq(S))
  BY <1>2 DEF SetToSeq
<1> QED
  BY <1>1, <1>3

LEMMA ConcatInjective ==
  ASSUME NEW S, NEW s \in Seq(S), NEW t \in Seq(S), IsInjective(s), IsInjective(t),
         \A i \in DOMAIN s, j \in DOMAIN t : s[i] # t[j]
  PROVE  /\ s \o t \in Seq(S) /\ IsInjective(s \o t)
         /\ \A k \in DOMAIN (s \o t) :
              (\E i \in DOMAIN s : (s \o t)[k] = s[i]) \/ (\E j \in DOMAIN t : (s \o t)[k] = t[j])
<1>1. /\ s \o t \in Seq(S) /\ Len(s \o t) = Len(s) + Len(t)
      /\ \A k \in 1..(Len(s) + Len(t)) :
           (s \o t)[k] = IF k <= Len(s) THEN s[k] ELSE t[k - Len(s)]
  BY ConcatProperties
<1>2. /\ DOMAIN s = 1..Len(s) /\ DOMAIN t = 1..Len(t) /\ DOMAIN (s \o t) = 1..(Len(s) + Len(t))
      /\ Len(s) \in Nat /\ Len(t) \in Nat
  BY <1>1, LenProperties
<1>3. \A k \in DOMAIN (s \o t) :
        \/ k \in DOMAIN s /\ (s \o t)[k] = s[k]
        \/ k - Len(s) \in DOMAIN t /\ (s \o t)[k] = t[k - Len(s)]
  BY <1>1, <1>2
<1>4. ASSUME NEW k \in DOMAIN (s \o t), NEW l \in DOMAIN (s \o t), (s \o t)[k] = (s \o t)[l]
      PROVE  k = l
  <2>1. CASE k \in DOMAIN s /\ (s \o t)[k] = s[k] /\ l \in DOMAIN s /\ (s \o t)[l] = s[l]
    BY <1>4, <2>1 DEF IsInjective
  <2>2. CASE /\ k - Len(s) \in DOMAIN t /\ (s \o t)[k] = t[k - Len(s)]
             /\ l - Len(s) \in DOMAIN t /\ (s \o t)[l] = t[l - Len(s)]
    <3>1. k - Len(s) = l - Len(s)
      BY <1>4, <2>2 DEF IsInjective
    <3> QED
      BY <3>1, <1>2
  <2> QED
    BY <1>3, <1>4, <2>1, <2>2
<1>5. IsInjective(s \o t)
  BY <1>4 DEF IsInjective
<1> QED
  BY <1>1, <1>3, <1>5

-----------------------------------------------------------------------------
(* What the invariant says of a module that is done.                       *)

LEMMA NamesType ==
  ASSUME TypeOK
  PROVE  /\ \A k \in DOMAIN methods : methods[k].name \in Seq(Word)
         /\ \A k \in DOMAIN signals : signals[k].name \in Seq(Word)
         /\ \A k \in DOMAIN interface : interface[k] \in Declaration
<1>1. methods \in Seq(MethodEntry) /\ signals \in Seq(SignalEntry) /\ interface \in Seq(Declaration)
  BY DEF TypeOK, MethodEntry, SignalEntry
<1>2. /\ \A k \in DOMAIN methods : methods[k] \in MethodEntry
      /\ \A k \in DOMAIN signals : signals[k] \in SignalEntry
      /\ \A k \in DOMAIN interface : interface[k] \in Declaration
  BY <1>1
<1>3. \A k \in DOMAIN methods : methods[k].name \in Seq(Word)
  BY <1>2 DEF PyName, MethodEntry
<1>4. \A k \in DOMAIN signals : signals[k].name \in Seq(Word)
  BY <1>2 DEF PyName, SignalEntry
<1> QED
  BY <1>2, <1>3, <1>4

LEMMA MethodNamesAreFree ==
  ASSUME TypeOK, MethodsAreDeclared, NEW k \in DOMAIN methods
  PROVE  methods[k].name \notin ClientRuntime /\ ~Private(methods[k].name)
<1>1. PICK j \in DOMAIN interface : methods[k] = Tabled(j)
  BY DEF MethodsAreDeclared
<1>2. interface[j] \in Declaration
  BY NamesType
<1>3. interface[j].service \in Services /\ interface[j].name \in Name
  BY <1>2 DEF Declaration, Services
<1>4. methods[k].name = MethodName(interface[j].service, interface[j].name)
  BY <1>1 DEF Tabled, NameOf
<1> QED
  BY <1>3, <1>4, MethodNameIsFree

LEMMA ServerNamesDiffer ==
  ASSUME TypeOK, NamesDiffer
  PROVE  IsInjective(ServerNames)
<1> DEFINE A == {EmitName(signals[k].name) : k \in DOMAIN signals} \cup ServerRuntime
           emits == [k \in DOMAIN signals |-> EmitName(signals[k].name)]
<1>1. emits \in Seq(A) /\ DOMAIN emits = DOMAIN signals
  <2>1. DOMAIN signals = 1..Len(signals) /\ Len(signals) \in Nat
    BY DEF TypeOK
  <2> QED
    BY <2>1
<1>2. IsInjective(emits)
  BY NamesType, OnNames DEF IsInjective, NamesDiffer
<1>3. IsFiniteSet(ServerRuntime)
  BY RuntimeIsFinite
<1>4. SetToSeq(ServerRuntime) \in Seq(ServerRuntime) /\ IsInjective(SetToSeq(ServerRuntime))
  BY <1>3, SetToSeqInjective
<1>5. SetToSeq(ServerRuntime) \in Seq(A)
  BY <1>4, SeqMonotonic
<1>6. \A i \in DOMAIN emits, j \in DOMAIN SetToSeq(ServerRuntime) : emits[i] # SetToSeq(ServerRuntime)[j]
  <2>1. \A j \in DOMAIN SetToSeq(ServerRuntime) : SetToSeq(ServerRuntime)[j] \in ServerRuntime
    BY <1>4
  <2>2. \A i \in DOMAIN emits : emits[i] \notin ServerRuntime
    BY NamesType, OnNames
  <2> QED
    BY <2>1, <2>2
<1> QED
  BY <1>1, <1>2, <1>4, <1>5, <1>6, ConcatInjective DEF ServerNames

LEMMA ClientNamesDiffer ==
  ASSUME TypeOK, NamesDiffer, MethodsAreDeclared, DoneIsDone, status = "done"
  PROVE  IsInjective(ClientNames) /\ \A k \in DOMAIN ClientNames : ~Private(ClientNames[k])
<1> DEFINE ons == [k \in DOMAIN signals |-> OnName(signals[k].name)]
           inherited == SetToSeq(ClientRuntime)
           A == {methods[k].name : k \in DOMAIN methods}
                \cup {OnName(signals[k].name) : k \in DOMAIN signals} \cup ClientRuntime
<1>1. /\ NamesOf(methods) \in Seq(A) /\ DOMAIN NamesOf(methods) = DOMAIN methods
      /\ \A k \in DOMAIN methods : NamesOf(methods)[k] = methods[k].name
  <2>1. DOMAIN methods = 1..Len(methods) /\ Len(methods) \in Nat
    BY DEF TypeOK
  <2> QED
    BY <2>1 DEF NamesOf
<1>2. IsInjective(NamesOf(methods))
  BY <1>1 DEF IsInjective, NamesDiffer
<1>3. ons \in Seq(A) /\ DOMAIN ons = DOMAIN signals
  <2>1. DOMAIN signals = 1..Len(signals) /\ Len(signals) \in Nat
    BY DEF TypeOK
  <2> QED
    BY <2>1
<1>4. IsInjective(ons)
  BY NamesType, OnNames DEF IsInjective, NamesDiffer
<1>5. IsFiniteSet(ClientRuntime)
  BY RuntimeIsFinite
<1>6. inherited \in Seq(ClientRuntime) /\ IsInjective(inherited)
  BY <1>5, SetToSeqInjective
<1>7. inherited \in Seq(A)
  BY <1>6, SeqMonotonic
<1>8. \A j \in DOMAIN inherited : inherited[j] \in ClientRuntime
  BY <1>6
<1>9. \A i \in DOMAIN NamesOf(methods), j \in DOMAIN ons : NamesOf(methods)[i] # ons[j]
  BY <1>1 DEF DoneIsDone
<1>10. \A i \in DOMAIN NamesOf(methods) : NamesOf(methods)[i] \notin ClientRuntime /\ ~Private(NamesOf(methods)[i])
  BY <1>1, MethodNamesAreFree
<1>11. \A i \in DOMAIN ons : ons[i] \notin ClientRuntime /\ ~Private(ons[i])
  BY NamesType, OnNames
<1> DEFINE generated == NamesOf(methods) \o ons
<1> HIDE DEF ons, inherited, A
<1>12. /\ generated \in Seq(A) /\ IsInjective(generated)
       /\ \A k \in DOMAIN generated :
            (\E i \in DOMAIN NamesOf(methods) : generated[k] = NamesOf(methods)[i])
            \/ (\E j \in DOMAIN ons : generated[k] = ons[j])
  BY <1>1, <1>2, <1>3, <1>4, <1>9, ConcatInjective
<1>13. \A k \in DOMAIN generated : generated[k] \notin ClientRuntime /\ ~Private(generated[k])
  BY <1>10, <1>11, <1>12
<1>14. ClientNames = generated \o inherited
  BY DEF ClientNames, ons, inherited
<1> HIDE DEF generated
<1>15. /\ IsInjective(generated \o inherited)
       /\ \A k \in DOMAIN (generated \o inherited) :
            (\E i \in DOMAIN generated : (generated \o inherited)[k] = generated[i])
            \/ (\E j \in DOMAIN inherited : (generated \o inherited)[k] = inherited[j])
  BY <1>6, <1>7, <1>8, <1>12, <1>13, ConcatInjective
<1>16. \A k \in DOMAIN (generated \o inherited) : ~Private((generated \o inherited)[k])
  BY <1>8, <1>13, <1>15, RuntimeNotPrivate
<1> QED
  BY <1>14, <1>15, <1>16

LEMMA HandlersAreComplete ==
  ASSUME TypeOK, NamesDiffer, MethodsAreTabled, DoneIsDone, status = "done"
  PROVE  HandlersComplete
<1> SUFFICES ASSUME NEW k \in DOMAIN interface, interface[k].kind = "method"
             PROVE  Cardinality({j \in DOMAIN methods :
                      /\ methods[j].service = interface[k].service
                      /\ methods[j].number = Number(k)
                      /\ methods[j].name = MethodName(interface[k].service, interface[k].name)}) = 1
  BY DEF HandlersComplete
<1>1. Seen(k)
  BY DEF Seen, DoneIsDone, TypeOK
<1>2. PICK j \in DOMAIN methods : methods[j] = Tabled(k)
  BY <1>1 DEF MethodsAreTabled
<1>3. /\ methods[j].service = interface[k].service /\ methods[j].number = Number(k)
      /\ methods[j].name = MethodName(interface[k].service, interface[k].name)
  BY <1>2 DEF Tabled, NameOf
<1>4. {i \in DOMAIN methods :
         /\ methods[i].service = interface[k].service
         /\ methods[i].number = Number(k)
         /\ methods[i].name = MethodName(interface[k].service, interface[k].name)} = {j}
  BY <1>3 DEF NamesDiffer
<1> QED
  BY <1>4, FS_Singleton

LEMMA NothingIsHidden ==
  ASSUME BindingsInv PROVE NothingHidden
BY ServerNamesDiffer, ClientNamesDiffer, HandlersAreComplete DEF BindingsInv, NothingHidden

\* The topic of a signal determines its Python name.
LEMMA TopicTellsName ==
  ASSUME NEW d \in Declaration, NEW e \in Declaration, d.kind = "signal", e.kind = "signal",
         ~IsKeyword(d), ~IsKeyword(e), TopicOf(d.service, d.name) = TopicOf(e.service, e.name)
  PROVE  NameOf(d) = NameOf(e)
<1>1. ASSUME NEW f \in Declaration, f.kind = "signal", ~IsKeyword(f)
      PROVE  Qualified(f.service, Snake(f.name)) = Escaped(TopicOf(f.service, f.name).words)
  <2>1. CASE f.service = MainService
    BY <2>1 DEF Qualified, Snake, TopicOf
  <2>2. CASE f.service # MainService
    <3>1. /\ f.service \in Word /\ Blank \in Word
          /\ f.name.words \in Seq(Word) /\ f.name.words # <<>>
      BY <2>2, BindingsAssumption, WordsType DEF Declaration, Name
    <3>2. Qualified(f.service, Snake(f.name)) = <<f.service>> \o <<Blank>> \o f.name.words
      BY <1>1, <2>2 DEF Qualified, Snake, IsKeyword
    <3>3. TopicOf(f.service, f.name).words = <<f.service, Blank>> \o f.name.words
      BY <2>2 DEF TopicOf
    <3>4. <<f.service, Blank>> = <<f.service>> \o <<Blank>>
      BY <3>1
    <3>5. Len(<<f.service, Blank>> \o f.name.words) = 2 + Len(f.name.words)
      BY <3>1, ConcatProperties
    <3>6. Len(f.name.words) \in Nat
      BY <3>1, LenProperties
    <3>7. Escaped(<<f.service, Blank>> \o f.name.words) = <<f.service, Blank>> \o f.name.words
      BY <3>5, <3>6 DEF Escaped
    <3> QED
      BY <3>2, <3>3, <3>4, <3>7
  <2> QED
    BY <2>1, <2>2
<1>2. Qualified(d.service, Snake(d.name)) = Qualified(e.service, Snake(e.name))
  BY <1>1
<1> QED
  BY <1>2 DEF NameOf, MethodName

LEMMA TopicsDiffer ==
  ASSUME BindingsInv PROVE TopicsDistinct
<1> SUFFICES ASSUME ~(\E k \in DOMAIN interface : IsKeyword(interface[k])),
                    NEW i \in DOMAIN signals, NEW j \in DOMAIN signals,
                    signals[i].topic = signals[j].topic
             PROVE  i = j
  BY DEF TopicsDistinct, IsInjective
<1>1. PICK k \in DOMAIN interface : interface[k].kind = "signal" /\ signals[i] = Announced(k)
  BY DEF BindingsInv, SignalsAreDeclared
<1>2. PICK l \in DOMAIN interface : interface[l].kind = "signal" /\ signals[j] = Announced(l)
  BY DEF BindingsInv, SignalsAreDeclared
<1>3. interface[k] \in Declaration /\ interface[l] \in Declaration
  BY NamesType DEF BindingsInv
<1>4. signals[i].name = NameOf(interface[k]) /\ signals[j].name = NameOf(interface[l])
  BY <1>1, <1>2 DEF Announced
<1>5. TopicOf(interface[k].service, interface[k].name) = TopicOf(interface[l].service, interface[l].name)
  BY <1>1, <1>2 DEF Announced
<1>6. NameOf(interface[k]) = NameOf(interface[l])
  BY <1>1, <1>2, <1>3, <1>5, TopicTellsName
<1> QED
  BY <1>4, <1>6 DEF BindingsInv, NamesDiffer

-----------------------------------------------------------------------------
(* Rendering keeps the invariant.                                          *)

LEMMA ModuleSymbolsAreClasses == ModuleSymbols \subseteq ClassName
<1> SUFFICES ASSUME NEW c \in ModuleSymbols PROVE c \in ClassName
  OBVIOUS
<1>1. ModuleWords \subseteq Word
  BY BindingsAssumption
<1>2. CASE c = [words |-> <<"int", "enum">>, style |-> "capital"]
  <2>1. "int" \in Word /\ "enum" \in Word
    BY <1>1 DEF ModuleWords
  <2>2. <<"int", "enum">> \in Seq(Word) \ {<<>>}
    BY <2>1
  <2> QED
    BY <1>2, <2>2 DEF ClassName, Style
<1>3. CASE \E w \in ModuleWords : c = [words |-> <<w>>, style |-> "capital"]
                               \/ c = [words |-> <<w>>, style |-> "camel"]
  <2>1. PICK w \in Word : c = [words |-> <<w>>, style |-> "capital"]
                       \/ c = [words |-> <<w>>, style |-> "camel"]
    BY <1>1, <1>3
  <2> DEFINE words == <<w>>
  <2>2. words \in Seq(Word) \ {<<>>}
    OBVIOUS
  <2> HIDE DEF words
  <2>3. [words |-> words, style |-> "capital"] \in ClassName /\ [words |-> words, style |-> "camel"] \in ClassName
    BY <2>2 DEF ClassName, Style
  <2> QED
    BY <2>1, <2>3 DEF words
<1>4. \/ c = [words |-> <<"int", "enum">>, style |-> "capital"]
      \/ \E w \in ModuleWords : c = [words |-> <<w>>, style |-> "capital"]
                               \/ c = [words |-> <<w>>, style |-> "camel"]
  BY DEF ModuleSymbols, ModuleWords
<1> QED
  BY <1>2, <1>3, <1>4

LEMMA ClassType ==
  ASSUME NEW d \in Declaration
  PROVE  EnumClass(d.name) \in ClassName /\ ResultClass(d.service, d.name) \in ClassName
<1> DEFINE words == d.name.words
           own == d.service = MainService
           joined == Len(words) > 1 /\ d.name.style \in {"snake", "mixed"}
           front == IF own THEN <<>> ELSE <<d.service>>
           rest == IF joined /\ ~own /\ Private(words) THEN Tail(words) ELSE words
           style == IF ~joined THEN "capital" ELSE IF own \/ Private(words) THEN "appended" ELSE "enclosed"
<1>1. /\ d.name \in Name /\ words \in Seq(Word) \ {<<>>}
      /\ d.service \in NamedService \cup {MainService}
  BY DEF Declaration, Name
<1>2. EnumClass(d.name) \in ClassName
  <2>1. [words |-> Escaped(words), style |-> "snake"] \in ClassName
    BY <1>1, EscapedType DEF ClassName, Style
  <2>2. Name \subseteq ClassName
    BY DEF Name, ClassName, Style
  <2> QED
    BY <1>1, <2>1, <2>2 DEF EnumClass
<1>3. front \in Seq(Word)
  <2>1. d.service # MainService => d.service \in Word
    BY <1>1, BindingsAssumption
  <2> QED
    BY <2>1
<1>4. rest \in Seq(Word)
  BY <1>1
<1>5. style \in Style \cup {"appended", "enclosed"}
  BY DEF Style
<1>6. ResultClass(d.service, d.name) = [words |-> front \o rest \o <<"result">>, style |-> style]
  BY DEF ResultClass
<1> HIDE DEF front, rest, style
<1>7. front \o rest \in Seq(Word)
  BY <1>3, <1>4, ConcatProperties
<1>8. "result" \in Word /\ <<"result">> \in Seq(Word) /\ Len(<<"result">>) = 1
  BY WordsType
<1>9. /\ front \o rest \o <<"result">> \in Seq(Word)
      /\ Len(front \o rest \o <<"result">>) = Len(front \o rest) + 1
  BY <1>7, <1>8, ConcatProperties
<1>10. front \o rest \o <<"result">> # <<>>
  BY <1>7, <1>9, LenProperties, EmptySeq
<1> QED
  BY <1>2, <1>5, <1>6, <1>9, <1>10 DEF ClassName

LEMMA TopicType ==
  ASSUME NEW service \in Services, NEW name \in Name
  PROVE  TopicOf(service, name) \in Name
<1>1. name.words \in Seq(Word) \ {<<>>} /\ name.style \in Style
  BY DEF Name
<1>2. CASE service = MainService
  BY <1>2 DEF TopicOf
<1>3. CASE service # MainService
  <2> DEFINE words == <<service, Blank>> \o name.words
             style == IF Len(name.words) = 1 /\ name.style = "camel" THEN "snake" ELSE name.style
  <2>1. service \in Word /\ Blank \in Word
    BY <1>3, BindingsAssumption, WordsType DEF Services
  <2>2. <<service, Blank>> \in Seq(Word) /\ Len(<<service, Blank>>) = 2
    BY <2>1
  <2>3. words \in Seq(Word) /\ Len(words) = 2 + Len(name.words) /\ Len(name.words) \in Nat
    BY <1>1, <2>2, ConcatProperties, LenProperties
  <2>4. words # <<>>
    BY <2>3, EmptySeq
  <2>5. style \in Style
    BY <1>1 DEF Style
  <2>6. TopicOf(service, name) = [words |-> words, style |-> style]
    BY <1>3 DEF TopicOf
  <2> HIDE DEF words, style
  <2> QED
    BY <2>3, <2>4, <2>5, <2>6 DEF Name
<1> QED
  BY <1>2, <1>3

LEMMA NumberType ==
  ASSUME NEW k \in Nat PROVE Number(k) \in Nat
<1> DEFINE J == {j \in 1..(k - 1) : interface[j].kind = "method" /\ interface[j].service = interface[k].service}
<1>1. IsFiniteSet(1..(k - 1))
  BY FS_Interval
<1>2. IsFiniteSet(J)
  BY <1>1, FS_Subset
<1> HIDE DEF J
<1>3. Cardinality(J) \in Nat
  BY <1>2, FS_CardinalityType
<1> QED
  BY <1>3 DEF Number, J

LEMMA StartInv ==
  ASSUME Start PROVE BindingsInv
<1>1. /\ interface \in Seq(Declaration) /\ next = 1 /\ symbols = ModuleSymbols
      /\ methods = <<>> /\ signals = <<>>
      /\ status = "rendering" \/ (status = "done" /\ interface = <<>>)
  <2>1. CASE Init
    BY <2>1, BindingsAssumption DEF Init
  <2>2. CASE PythonIdle
    BY <2>2 DEF PythonIdle
  <2> QED
    BY <2>1, <2>2 DEF Start
<1>2. \A k \in DOMAIN interface : ~Seen(k)
  BY <1>1 DEF Seen
<1>3. TypeOK
  <2>1. next \in 1..(Len(interface) + 1)
    BY <1>1, LenProperties
  <2> QED
    BY <1>1, <2>1, ModuleSymbolsAreClasses DEF TypeOK
<1>4. MethodsAreTabled /\ MethodsAreDeclared /\ SignalsAreDeclared /\ ClassesAreDeclared /\ NamesDiffer
  BY <1>1, <1>2 DEF MethodsAreTabled, MethodsAreDeclared, SignalsAreDeclared, ClassesAreDeclared, NamesDiffer
<1>5. DoneIsDone /\ RefusedForCause
  BY <1>1 DEF DoneIsDone, RefusedForCause
<1> QED
  BY <1>3, <1>4, <1>5 DEF BindingsInv

\* A declaration that is rendered is one more that is seen.
LEMMA Recorded ==
  ASSUME TypeOK, next <= Len(interface), next' = next + 1, interface' = interface
  PROVE  /\ next \in DOMAIN interface /\ interface[next] \in Declaration /\ Number(next) \in Nat
         /\ next' \in 1..(Len(interface') + 1)
         /\ ~Seen(next) /\ \A k : Seen(k)' <=> (Seen(k) \/ k = next)
         /\ \A k : Tabled(k)' = Tabled(k) /\ Announced(k)' = Announced(k)
<1>1. next \in Nat /\ 1 <= next /\ Len(interface) \in Nat /\ DOMAIN interface = 1..Len(interface)
  BY DEF TypeOK
<1>2. next \in DOMAIN interface /\ next' \in 1..(Len(interface') + 1)
  BY <1>1
<1>3. interface[next] \in Declaration
  BY <1>2, NamesType
<1>4. \A k : Seen(k)' <=> (Seen(k) \/ k = next)
  <2>1. \A k \in DOMAIN interface : k < next + 1 <=> (k < next \/ k = next)
    BY <1>1
  <2>2. \A k : Seen(k)' <=> k \in DOMAIN interface /\ k < next + 1
    BY DEF Seen
  <2> QED
    BY <1>2, <2>1, <2>2 DEF Seen
<1>8. ~Seen(next)
  BY <1>1 DEF Seen
<1>5. \A k : Number(k)' = Number(k)
  BY DEF Number
<1>6. \A k : Tabled(k)' = Tabled(k) /\ Announced(k)' = Announced(k)
  BY <1>5 DEF Tabled, Announced
<1>7. Number(next) \in Nat
  BY <1>1, NumberType
<1> QED
  BY <1>2, <1>3, <1>4, <1>6, <1>7, <1>8

LEMMA ClassesKeep ==
  ASSUME BindingsInv, next <= Len(interface), next' = next + 1, interface' = interface,
         \A c \in symbols' : c \in symbols \/ (HasClass(interface[next]) /\ c = ClassOf(interface[next]))
  PROVE  ClassesAreDeclared'
<1>1. TypeOK
  BY DEF BindingsInv
<1> SUFFICES ASSUME NEW c \in symbols', c \notin ModuleSymbols
             PROVE  \E k \in DOMAIN interface : Seen(k)' /\ HasClass(interface[k]) /\ c = ClassOf(interface[k])
  BY DEF ClassesAreDeclared
<1>2. CASE c \in symbols
  <2>1. PICK k \in DOMAIN interface : Seen(k) /\ HasClass(interface[k]) /\ c = ClassOf(interface[k])
    BY <1>2 DEF BindingsInv, ClassesAreDeclared
  <2>2. Seen(k)'
    BY <1>1, <2>1, Recorded
  <2> QED
    BY <2>1, <2>2
<1>3. CASE HasClass(interface[next]) /\ c = ClassOf(interface[next])
  <2>1. next \in DOMAIN interface /\ \A k : k = next => Seen(k)'
    BY <1>1, Recorded
  <2> QED
    BY <1>3, <2>1
<1> QED
  BY <1>2, <1>3

LEMMA RenderEnumKeeps ==
  ASSUME BindingsInv, status = "rendering", next <= Len(interface), RenderEnum(interface[next]),
         ~(Refused(EnumClass(interface[next].name)) \/ interface[next].clash)
  PROVE  BindingsInv'
<1>1. /\ symbols' = symbols \cup {EnumClass(interface[next].name)} /\ next' = next + 1
      /\ interface' = interface /\ methods' = methods /\ signals' = signals /\ status' = "rendering"
      /\ interface[next].kind = "enum"
  BY DEF RenderEnum
<1>2. TypeOK
  BY DEF BindingsInv
<1> USE <1>1, <1>2, Recorded
<1>3. TypeOK'
  <2>1. EnumClass(interface[next].name) \in ClassName
    BY ClassType
  <2> QED
    BY <2>1 DEF TypeOK
<1>4. MethodsAreTabled' /\ MethodsAreDeclared' /\ SignalsAreDeclared'
  BY DEF BindingsInv, MethodsAreTabled, MethodsAreDeclared, SignalsAreDeclared
<1>5. ClassesAreDeclared'
  <2>1. HasClass(interface[next]) /\ EnumClass(interface[next].name) = ClassOf(interface[next])
    BY DEF HasClass, ClassOf
  <2> QED
    BY <2>1, ClassesKeep
<1>6. NamesDiffer' /\ DoneIsDone' /\ RefusedForCause'
  BY DEF BindingsInv, NamesDiffer, DoneIsDone, RefusedForCause
<1> QED
  BY <1>3, <1>4, <1>5, <1>6 DEF BindingsInv

\* One more entry at the end of a list whose entries have names.
LEMMA OneMore ==
  ASSUME NEW S, NEW list \in Seq(S), NEW entry \in S,
         \A i, j \in DOMAIN list : list[i].name = list[j].name => i = j,
         \A i \in DOMAIN list : list[i].name # entry.name
  PROVE  LET more == Append(list, entry)
         IN /\ more \in Seq(S) /\ DOMAIN more = DOMAIN list \cup {Len(list) + 1}
            /\ \A i \in DOMAIN list : more[i] = list[i]
            /\ more[Len(list) + 1] = entry
            /\ \A i, j \in DOMAIN more : more[i].name = more[j].name => i = j
<1> DEFINE more == Append(list, entry)
<1>1. more \in Seq(S) /\ Len(more) = Len(list) + 1 /\ DOMAIN more = 1..(Len(list) + 1)
      /\ Len(list) \in Nat /\ DOMAIN list = 1..Len(list)
  OBVIOUS
<1>2. /\ DOMAIN more = DOMAIN list \cup {Len(list) + 1}
      /\ \A i \in DOMAIN list : more[i] = list[i]
      /\ more[Len(list) + 1] = entry
  BY <1>1
<1> HIDE DEF more
<1>3. \A i, j \in DOMAIN more : more[i].name = more[j].name => i = j
  BY <1>2
<1> QED
  BY <1>1, <1>2, <1>3 DEF more

LEMMA RenderMethodKeeps ==
  ASSUME BindingsInv, status = "rendering", next <= Len(interface), interface[next].kind = "method",
         NameOf(interface[next]) \notin PublicMethods,
         methods' = Append(methods, Tabled(next)),
         symbols' = IF interface[next].fields THEN symbols \cup {ClassOf(interface[next])} ELSE symbols,
         next' = next + 1, UNCHANGED <<interface, signals, status>>
  PROVE  BindingsInv'
<1>1. TypeOK
  BY DEF BindingsInv
<1> USE <1>1, Recorded
<1>2. /\ interface[next].service \in Services /\ interface[next].name \in Name
      /\ interface[next].fields \in BOOLEAN
  BY DEF Declaration, Services
<1>3. Tabled(next) \in MethodEntry /\ Tabled(next).name = NameOf(interface[next])
  <2>1. NameOf(interface[next]) \in PyName
    BY <1>2, MethodNameIsFree DEF NameOf, PyName
  <2> QED
    BY <1>2, <2>1 DEF Tabled, MethodEntry, Services
<1>4. methods \in Seq(MethodEntry)
  BY DEF TypeOK, MethodEntry
<1>5. /\ methods' \in Seq(MethodEntry) /\ DOMAIN methods' = DOMAIN methods \cup {Len(methods) + 1}
      /\ \A i \in DOMAIN methods : methods'[i] = methods[i]
      /\ methods'[Len(methods) + 1] = Tabled(next)
      /\ \A i, j \in DOMAIN methods' : methods'[i].name = methods'[j].name => i = j
  <2>1. \A i \in DOMAIN methods : methods[i].name # Tabled(next).name
    BY <1>3 DEF PublicMethods
  <2>2. \A i, j \in DOMAIN methods : methods[i].name = methods[j].name => i = j
    BY DEF BindingsInv, NamesDiffer
  <2> QED
    BY <1>3, <1>4, <2>1, <2>2, OneMore
<1>6. TypeOK'
  <2>1. ClassOf(interface[next]) \in ClassName
    BY ClassType DEF ClassOf
  <2>2. symbols' \subseteq ClassName
    BY <2>1 DEF TypeOK
  <2> QED
    BY <1>5, <2>2 DEF TypeOK, MethodEntry
<1>7. MethodsAreTabled'
  <2> SUFFICES ASSUME NEW k \in DOMAIN interface, Seen(k)', interface[k].kind = "method"
               PROVE  \E j \in DOMAIN methods' : methods'[j] = Tabled(k)
    BY DEF MethodsAreTabled
  <2>1. CASE k = next
    BY <1>5, <2>1
  <2>2. CASE Seen(k)
    BY <1>5, <2>2 DEF BindingsInv, MethodsAreTabled
  <2> QED
    BY <2>1, <2>2
<1>8. MethodsAreDeclared'
  <2> SUFFICES ASSUME NEW j \in DOMAIN methods'
               PROVE  \E k \in DOMAIN interface : Seen(k)' /\ interface[k].kind = "method" /\ methods'[j] = Tabled(k)
    BY DEF MethodsAreDeclared
  <2>1. CASE j = Len(methods) + 1
    <3>1. methods'[j] = Tabled(next) /\ next \in DOMAIN interface /\ \A k : k = next => Seen(k)'
      BY <1>5, <2>1
    <3> QED
      BY <3>1
  <2>2. CASE j \in DOMAIN methods
    BY <1>5, <2>2 DEF BindingsInv, MethodsAreDeclared
  <2> QED
    BY <1>5, <2>1, <2>2
<1>9. SignalsAreDeclared'
  BY DEF BindingsInv, SignalsAreDeclared
<1>10. ClassesAreDeclared'
  <2>1. interface[next].fields => HasClass(interface[next])
    BY DEF HasClass
  <2>2. \A c \in symbols' : c \in symbols \/ (HasClass(interface[next]) /\ c = ClassOf(interface[next]))
    BY <1>2, <2>1
  <2> QED
    BY <2>2, ClassesKeep
<1>11. NamesDiffer' /\ DoneIsDone' /\ RefusedForCause'
  BY <1>5 DEF BindingsInv, NamesDiffer, DoneIsDone, RefusedForCause
<1> QED
  BY <1>6, <1>7, <1>8, <1>9, <1>10, <1>11 DEF BindingsInv

LEMMA RenderSignalKeeps ==
  ASSUME BindingsInv, status = "rendering", next <= Len(interface), interface[next].kind = "signal",
         NameOf(interface[next]) \notin PublicSignals,
         signals' = Append(signals, Announced(next)),
         next' = next + 1, UNCHANGED <<interface, symbols, methods, status>>
  PROVE  BindingsInv'
<1>1. TypeOK
  BY DEF BindingsInv
<1> USE <1>1, Recorded
<1>2. interface[next].service \in Services /\ interface[next].name \in Name
  BY DEF Declaration, Services
<1>3. Announced(next) \in SignalEntry /\ Announced(next).name = NameOf(interface[next])
  <2>1. NameOf(interface[next]) \in PyName
    BY <1>2, MethodNameIsFree DEF NameOf, PyName
  <2>2. TopicOf(interface[next].service, interface[next].name) \in Name
    BY <1>2, TopicType
  <2> QED
    BY <2>1, <2>2 DEF Announced, SignalEntry
<1>4. signals \in Seq(SignalEntry)
  BY DEF TypeOK, SignalEntry
<1>5. /\ signals' \in Seq(SignalEntry) /\ DOMAIN signals' = DOMAIN signals \cup {Len(signals) + 1}
      /\ \A i \in DOMAIN signals : signals'[i] = signals[i]
      /\ signals'[Len(signals) + 1] = Announced(next)
      /\ \A i, j \in DOMAIN signals' : signals'[i].name = signals'[j].name => i = j
  <2>1. \A i \in DOMAIN signals : signals[i].name # Announced(next).name
    BY <1>3 DEF PublicSignals
  <2>2. \A i, j \in DOMAIN signals : signals[i].name = signals[j].name => i = j
    BY DEF BindingsInv, NamesDiffer
  <2> QED
    BY <1>3, <1>4, <2>1, <2>2, OneMore
<1>6. TypeOK'
  BY <1>5 DEF TypeOK, SignalEntry
<1>7. MethodsAreTabled' /\ MethodsAreDeclared'
  BY DEF BindingsInv, MethodsAreTabled, MethodsAreDeclared
<1>8. SignalsAreDeclared'
  <2> SUFFICES ASSUME NEW j \in DOMAIN signals'
               PROVE  \E k \in DOMAIN interface : Seen(k)' /\ interface[k].kind = "signal" /\ signals'[j] = Announced(k)
    BY DEF SignalsAreDeclared
  <2>1. CASE j = Len(signals) + 1
    <3>1. signals'[j] = Announced(next) /\ next \in DOMAIN interface /\ \A k : k = next => Seen(k)'
      BY <1>5, <2>1
    <3> QED
      BY <3>1
  <2>2. CASE j \in DOMAIN signals
    BY <1>5, <2>2 DEF BindingsInv, SignalsAreDeclared
  <2> QED
    BY <1>5, <2>1, <2>2
<1>9. ClassesAreDeclared'
  BY ClassesKeep
<1>10. NamesDiffer' /\ DoneIsDone' /\ RefusedForCause'
  BY <1>5 DEF BindingsInv, NamesDiffer, DoneIsDone, RefusedForCause
<1> QED
  BY <1>6, <1>7, <1>8, <1>9, <1>10 DEF BindingsInv

-----------------------------------------------------------------------------
(* What is refused is refused for a cause.                                 *)

LEMMA FailKeeps ==
  ASSUME BindingsInv, Fail, Cause
  PROVE  BindingsInv'
<1>1. Cause' /\ status' = "failed" /\ UNCHANGED <<interface, next, symbols, methods, signals>>
  BY DEF Fail, Cause
<1>2. TypeOK'
  BY <1>1 DEF BindingsInv, TypeOK
<1>3. \A k : (Tabled(k)' = Tabled(k)) /\ (Announced(k)' = Announced(k)) /\ (Seen(k)' <=> Seen(k))
  <2>1. \A k : Number(k)' = Number(k)
    BY <1>1 DEF Number
  <2> QED
    BY <1>1, <2>1 DEF Tabled, Announced, Seen
<1>4. MethodsAreTabled' /\ MethodsAreDeclared' /\ SignalsAreDeclared' /\ ClassesAreDeclared'
  BY <1>1, <1>3 DEF BindingsInv, MethodsAreTabled, MethodsAreDeclared, SignalsAreDeclared, ClassesAreDeclared
<1>5. NamesDiffer' /\ DoneIsDone' /\ RefusedForCause'
  BY <1>1 DEF BindingsInv, NamesDiffer, DoneIsDone, RefusedForCause
<1> QED
  BY <1>2, <1>4, <1>5 DEF BindingsInv

\* A class is refused because of the module's own names, an underscore in front or
\* another class.
LEMMA RefusedClass ==
  ASSUME BindingsInv, next <= Len(interface), HasClass(interface[next]), Refused(ClassOf(interface[next]))
  PROVE  Cause
<1>1. next \in DOMAIN interface
  BY DEF BindingsInv, TypeOK
<1>2. CASE ClassOf(interface[next]) \in ModuleSymbols \/ Private(ClassOf(interface[next]).words)
  BY <1>1, <1>2 DEF Cause
<1>3. CASE ClassOf(interface[next]) \in symbols /\ ClassOf(interface[next]) \notin ModuleSymbols
  <2>1. PICK k \in DOMAIN interface : Seen(k) /\ HasClass(interface[k]) /\ ClassOf(interface[next]) = ClassOf(interface[k])
    BY <1>3 DEF BindingsInv, ClassesAreDeclared
  <2>2. k # next
    BY <1>1, <2>1 DEF Seen, BindingsInv, TypeOK
  <2>3. Ambiguous(interface[k], interface[next])
    BY <2>1 DEF Ambiguous
  <2> QED
    BY <1>1, <2>2, <2>3 DEF Cause
<1> QED
  BY <1>2, <1>3 DEF Refused

LEMMA TakenMethodName ==
  ASSUME BindingsInv, next <= Len(interface), interface[next].kind = "method",
         NameOf(interface[next]) \in PublicMethods
  PROVE  Cause
<1>1. next \in DOMAIN interface
  BY DEF BindingsInv, TypeOK
<1>2. PICK j \in DOMAIN methods : methods[j].name = NameOf(interface[next])
  BY DEF PublicMethods
<1>3. PICK k \in DOMAIN interface : Seen(k) /\ interface[k].kind = "method" /\ methods[j] = Tabled(k)
  BY DEF BindingsInv, MethodsAreDeclared
<1>4. k # next /\ NameOf(interface[k]) = NameOf(interface[next])
  BY <1>1, <1>2, <1>3 DEF Seen, Tabled, BindingsInv, TypeOK
<1> QED
  BY <1>1, <1>3, <1>4 DEF Cause, Ambiguous, NameOf

LEMMA TakenSignalName ==
  ASSUME BindingsInv, next <= Len(interface), interface[next].kind = "signal",
         NameOf(interface[next]) \in PublicSignals
  PROVE  Cause
<1>1. next \in DOMAIN interface
  BY DEF BindingsInv, TypeOK
<1>2. PICK j \in DOMAIN signals : signals[j].name = NameOf(interface[next])
  BY DEF PublicSignals
<1>3. PICK k \in DOMAIN interface : Seen(k) /\ interface[k].kind = "signal" /\ signals[j] = Announced(k)
  BY DEF BindingsInv, SignalsAreDeclared
<1>4. k # next /\ NameOf(interface[k]) = NameOf(interface[next])
  BY <1>1, <1>2, <1>3 DEF Seen, Announced, BindingsInv, TypeOK
<1> QED
  BY <1>1, <1>3, <1>4 DEF Cause, Ambiguous, NameOf

LEMMA FinishKeeps ==
  ASSUME BindingsInv, status = "rendering", Finish
  PROVE  BindingsInv'
<1>1. CASE PublicMethods \cap {OnName(n) : n \in PublicSignals} # {}
  <2>1. PICK i \in DOMAIN methods, j \in DOMAIN signals : methods[i].name = OnName(signals[j].name)
    BY <1>1 DEF PublicMethods, PublicSignals
  <2>2. PICK k \in DOMAIN interface : interface[k].kind = "method" /\ methods[i] = Tabled(k)
    BY DEF BindingsInv, MethodsAreDeclared
  <2>3. PICK l \in DOMAIN interface : interface[l].kind = "signal" /\ signals[j] = Announced(l)
    BY DEF BindingsInv, SignalsAreDeclared
  <2>4. NameOf(interface[k]) = OnName(NameOf(interface[l]))
    BY <2>1, <2>2, <2>3 DEF Tabled, Announced
  <2>5. Ambiguous(interface[k], interface[l]) /\ k # l
    BY <2>2, <2>3, <2>4 DEF Ambiguous, NameOf
  <2>6. Cause
    BY <2>5 DEF Cause
  <2>7. Fail
    BY <1>1 DEF Finish, Fail
  <2> QED
    BY <2>6, <2>7, FailKeeps
<1>2. CASE PublicMethods \cap {OnName(n) : n \in PublicSignals} = {}
  <2>1. status' = "done" /\ next > Len(interface) /\ UNCHANGED <<interface, next, symbols, methods, signals>>
    BY <1>2 DEF Finish
  <2>2. TypeOK'
    BY <2>1 DEF BindingsInv, TypeOK
  <2>3. \A k : (Tabled(k)' = Tabled(k)) /\ (Announced(k)' = Announced(k)) /\ (Seen(k)' <=> Seen(k))
    <3>1. \A k : Number(k)' = Number(k)
      BY <2>1 DEF Number
    <3> QED
      BY <2>1, <3>1 DEF Tabled, Announced, Seen
  <2>4. MethodsAreTabled' /\ MethodsAreDeclared' /\ SignalsAreDeclared' /\ ClassesAreDeclared'
    BY <2>1, <2>3 DEF BindingsInv, MethodsAreTabled, MethodsAreDeclared, SignalsAreDeclared, ClassesAreDeclared
  <2>5. \A i \in DOMAIN methods : \A j \in DOMAIN signals : methods[i].name # OnName(signals[j].name)
    BY <1>2 DEF PublicMethods, PublicSignals
  <2>6. NamesDiffer' /\ DoneIsDone' /\ RefusedForCause'
    BY <2>1, <2>5 DEF BindingsInv, NamesDiffer, DoneIsDone, RefusedForCause
  <2> QED
    BY <2>2, <2>4, <2>6 DEF BindingsInv
<1> QED
  BY <1>1, <1>2

LEMMA RenderKeeps ==
  ASSUME BindingsInv, status = "rendering", Render
  PROVE  BindingsInv'
<1> DEFINE d == interface[next]
<1>1. next <= Len(interface) /\ next \in DOMAIN interface
  BY DEF Render, BindingsInv, TypeOK
<1>2. CASE RenderEnum(d)
  <2>1. d.kind = "enum" /\ HasClass(d) /\ ClassOf(d) = EnumClass(d.name)
    BY <1>2 DEF RenderEnum, HasClass, ClassOf
  <2>2. CASE Refused(EnumClass(d.name)) \/ d.clash
    <3>1. Cause
      BY <1>1, <2>1, <2>2, RefusedClass DEF Cause
    <3>2. Fail
      BY <1>2, <2>2 DEF RenderEnum
    <3> QED
      BY <3>1, <3>2, FailKeeps
  <2>3. CASE ~(Refused(EnumClass(d.name)) \/ d.clash)
    BY <1>1, <1>2, <2>3, RenderEnumKeeps
  <2> QED
    BY <2>2, <2>3
<1>3. CASE RenderMethod(d)
  <2> DEFINE class == ResultClass(d.service, d.name)
             refused == NameOf(d) \in PublicMethods \/ (d.fields /\ Refused(class)) \/ d.clash
  <2>1. d.kind = "method" /\ (d.fields => HasClass(d)) /\ ClassOf(d) = class
    BY <1>3 DEF RenderMethod, HasClass, ClassOf
  <2>2. CASE refused
    <3>1. Cause
      BY <1>1, <2>1, <2>2, RefusedClass, TakenMethodName DEF Cause
    <3>2. Fail
      BY <1>3, <2>2 DEF RenderMethod, NameOf
    <3> QED
      BY <3>1, <3>2, FailKeeps
  <2>3. CASE ~refused
    <3>1. /\ methods' = Append(methods, Tabled(next))
          /\ symbols' = IF d.fields THEN symbols \cup {ClassOf(d)} ELSE symbols
          /\ next' = next + 1 /\ UNCHANGED <<interface, signals, status>>
      BY <1>3, <2>1, <2>3 DEF RenderMethod, NameOf, Tabled
    <3> QED
      BY <1>1, <2>1, <2>3, <3>1, RenderMethodKeeps
  <2> QED
    BY <2>2, <2>3
<1>4. CASE RenderSignal(d)
  <2> DEFINE refused == NameOf(d) \in PublicSignals \/ d.clash
  <2>1. d.kind = "signal"
    BY <1>4 DEF RenderSignal
  <2>2. CASE refused
    <3>1. Cause
      BY <1>1, <2>1, <2>2, TakenSignalName DEF Cause
    <3>2. Fail
      BY <1>4, <2>2 DEF RenderSignal, NameOf
    <3> QED
      BY <3>1, <3>2, FailKeeps
  <2>3. CASE ~refused
    <3>1. /\ signals' = Append(signals, Announced(next))
          /\ next' = next + 1 /\ UNCHANGED <<interface, symbols, methods, status>>
      BY <1>4, <2>3 DEF RenderSignal, NameOf, Announced
    <3> QED
      BY <1>1, <2>1, <2>3, <3>1, RenderSignalKeeps
  <2> QED
    BY <2>2, <2>3
<1> QED
  BY <1>2, <1>3, <1>4 DEF Render

LEMMA NothingRendered ==
  ASSUME BindingsInv, UNCHANGED vars
  PROVE  BindingsInv'
<1>1. UNCHANGED <<interface, next, symbols, methods, signals, status>>
  BY DEF vars
<1>2. \A k : (Tabled(k)' = Tabled(k)) /\ (Announced(k)' = Announced(k)) /\ (Seen(k)' <=> Seen(k))
  <2>1. \A k : Number(k)' = Number(k)
    BY <1>1 DEF Number
  <2> QED
    BY <1>1, <2>1 DEF Tabled, Announced, Seen
<1>3. TypeOK' /\ NamesDiffer' /\ DoneIsDone'
  BY <1>1 DEF BindingsInv, TypeOK, NamesDiffer, DoneIsDone
<1>4. MethodsAreTabled' /\ MethodsAreDeclared' /\ SignalsAreDeclared' /\ ClassesAreDeclared'
  BY <1>1, <1>2 DEF BindingsInv, MethodsAreTabled, MethodsAreDeclared, SignalsAreDeclared, ClassesAreDeclared
<1>5. RefusedForCause'
  BY <1>1 DEF BindingsInv, RefusedForCause, Cause
<1> QED
  BY <1>3, <1>4, <1>5 DEF BindingsInv

LEMMA StepKeeps ==
  ASSUME BindingsInv, [Step]_<<language, output, vars, cppVars>>
  PROVE  BindingsInv'
<1>1. CASE RenderPython
  BY <1>1, RenderKeeps, FinishKeeps DEF RenderPython, Next
<1>2. CASE RenderCpp \/ FailCpp \/ Write \/ UNCHANGED <<language, output, vars, cppVars>>
  BY <1>2, NothingRendered DEF RenderCpp, FailCpp, Write
<1> QED
  BY <1>1, <1>2 DEF Step

-----------------------------------------------------------------------------
(* The compiler.                                                           *)

LEMMA BindingsHold == Generate => []BindingsInv
<1>1. Start => BindingsInv
  BY StartInv
<1>2. BindingsInv /\ [Step]_<<language, output, vars, cppVars>> => BindingsInv'
  BY StepKeeps
<1> QED
  BY <1>1, <1>2, PTL DEF Generate

\* Of every interface whose rendering is done, no method of a generated class hides
\* another one, and the handler table is complete.
THEOREM PythonHidesNothing == Generate => []NothingHidden
<1>1. BindingsInv => NothingHidden
  BY NothingIsHidden
<1> QED
  BY <1>1, BindingsHold, PTL

\* An interface is refused only if it is ambiguous.
THEOREM PythonRefusesForCause == Generate => []RefusedForCause
<1>1. BindingsInv => RefusedForCause
  BY DEF BindingsInv
<1> QED
  BY <1>1, BindingsHold, PTL

\* No two signals have one topic, if none of them is named like a keyword.
THEOREM PythonTopicsDiffer == Generate => []TopicsDistinct
<1>1. BindingsInv => TopicsDistinct
  BY TopicsDiffer
<1> QED
  BY <1>1, BindingsHold, PTL

-----------------------------------------------------------------------------
(* Names of the C++ files.                                                 *)

CppName == Seq(Cpp!Part)
Small(x) == [x EXCEPT !.capital = FALSE]
Large(x) == [x EXCEPT !.capital = TRUE]

LEMMA SmallOrLarge ==
  ASSUME NEW x \in Cpp!Part
  PROVE  /\ Small(x) \in Cpp!Part /\ Large(x) \in Cpp!Part
         /\ Small(Small(x)) = Small(x) /\ (Small(x) = x \/ Large(x) = x)
<1>1. ASSUME NEW b \in BOOLEAN
      PROVE  [x EXCEPT !.capital = b] \in Cpp!Part /\ [[x EXCEPT !.capital = b] EXCEPT !.capital = b] = [x EXCEPT !.capital = b]
  BY DEF Cpp!Part
<1>3. x.capital \in BOOLEAN
  BY DEF Cpp!Part
<1>4. Small(x) \in Cpp!Part /\ Large(x) \in Cpp!Part /\ Small(Small(x)) = Small(x)
  BY <1>1 DEF Small, Large
<1>5. x.capital => Large(x) = x
  BY DEF Large, Cpp!Part
<1>6. ~x.capital => Small(x) = x
  BY DEF Small, Cpp!Part
<1> QED
  BY <1>3, <1>4, <1>5, <1>6

LEMMA CppWords ==
  ASSUME NEW w \in Vocabulary
  PROVE  /\ Cpp!Low(w) \in CppName /\ Len(Cpp!Low(w)) = 1
         /\ Cpp!Cap(w) \in CppName /\ Len(Cpp!Cap(w)) = 1
<1> DEFINE low == [word |-> w, capital |-> FALSE]
           cap == [word |-> w, capital |-> TRUE]
<1>1. low \in Cpp!Part /\ cap \in Cpp!Part
  BY DEF Cpp!Part
<1>2. Cpp!Low(w) = <<low>> /\ Cpp!Cap(w) = <<cap>>
  BY DEF Cpp!Low, Cpp!Cap
<1> HIDE DEF low, cap
<1> QED
  BY <1>1, <1>2 DEF CppName

LEMMA CppWordsKnown ==
  /\ Cpp!Main \in CppName /\ Len(Cpp!Main) = 1
  /\ Cpp!Sep \in CppName /\ Len(Cpp!Sep) = 1
  /\ Cpp!Low("set") \in CppName /\ Len(Cpp!Low("set")) = 1
  /\ Cpp!Cap("changed") \in CppName /\ Len(Cpp!Cap("changed")) = 1
<1>1. "_" \in Vocabulary /\ "__" \in Vocabulary /\ "set" \in Vocabulary /\ "changed" \in Vocabulary
  BY GeneratorAssumption
<1>2. Cpp!Main = Cpp!Low("_") /\ Cpp!Sep = Cpp!Low("__")
  BY DEF Cpp!Main, Cpp!Sep
<1> QED
  BY <1>1, <1>2, CppWords

LEMMA NameType ==
  ASSUME NEW n \in Cpp!Name
  PROVE  n \in CppName /\ n # <<>> /\ n # Cpp!Main
<1>1. n \in CppName /\ n # <<>>
  BY DEF Cpp!Name, CppName
<1>2. n[1].word # "_"
  BY DEF Cpp!Name
<1>3. Cpp!Main[1].word = "_"
  BY DEF Cpp!Main, Cpp!Low
<1> QED
  BY <1>1, <1>2, <1>3

\* Changing the first letter changes nothing else.
LEMMA FirstReplaced ==
  ASSUME NEW S, NEW n \in Seq(S), n # <<>>, NEW t \in Seq(S), NEW x \in S
  PROVE  /\ [n EXCEPT ![1] = x] \in Seq(S) /\ [n EXCEPT ![1] = x] # <<>>
         /\ [n EXCEPT ![1] = x][1] = x /\ n[1] \in S
         /\ Len([n EXCEPT ![1] = x]) = Len(n)
         /\ [n \o t EXCEPT ![1] = x] = [n EXCEPT ![1] = x] \o t
         /\ (n \o t)[1] = n[1]
         /\ n[1] = x => [n EXCEPT ![1] = x] = n
<1> DEFINE m == [n EXCEPT ![1] = x]
           c == n \o t
           d == [c EXCEPT ![1] = x]
<1>1. Len(n) \in Nat /\ 1 <= Len(n) /\ Len(t) \in Nat /\ 1 \in 1..Len(n)
  <2>1. Len(n) \in Nat \ {0}
    BY EmptySeq
  <2>2. Len(t) \in Nat
    BY LenProperties
  <2> QED
    BY <2>1, <2>2
<1>2. /\ m \in Seq(S) /\ Len(m) = Len(n)
      /\ \A j \in 1..Len(n) : m[j] = IF j = 1 THEN x ELSE n[j]
  BY <1>1, ExceptSeq
<1>3. m[1] = x /\ m # <<>>
  BY <1>1, <1>2, EmptySeq
<1>4. n[1] \in S
  BY <1>1, ElementOfSeq
<1>5. /\ c \in Seq(S) /\ Len(c) = Len(n) + Len(t)
      /\ \A i \in 1..(Len(n) + Len(t)) : c[i] = IF i <= Len(n) THEN n[i] ELSE t[i - Len(n)]
  BY ConcatProperties
<1> HIDE DEF m, c
<1>6. 1 \in 1..Len(c) /\ c[1] = n[1]
  BY <1>1, <1>5
<1>7. /\ d \in Seq(S) /\ Len(d) = Len(c)
      /\ \A j \in 1..Len(c) : d[j] = IF j = 1 THEN x ELSE c[j]
  BY <1>5, <1>6, ExceptSeq
<1> HIDE DEF d
<1>8. /\ m \o t \in Seq(S) /\ Len(m \o t) = Len(m) + Len(t)
      /\ \A i \in 1..(Len(m) + Len(t)) : (m \o t)[i] = IF i <= Len(m) THEN m[i] ELSE t[i - Len(m)]
  BY <1>2, ConcatProperties
<1>9. \A i \in 1..Len(d) : d[i] = (m \o t)[i]
  <2> SUFFICES ASSUME NEW i \in 1..Len(d) PROVE d[i] = (m \o t)[i]
    OBVIOUS
  <2>1. i \in 1..(Len(n) + Len(t)) /\ i \in Nat
    BY <1>1, <1>5, <1>7
  <2>2. CASE i = 1
    BY <2>1, <2>2, <1>1, <1>2, <1>3, <1>5, <1>6, <1>7, <1>8
  <2>3. CASE i # 1
    BY <2>1, <2>3, <1>1, <1>2, <1>5, <1>7, <1>8
  <2> QED
    BY <2>2, <2>3
<1>10. d = m \o t
  <2>1. Len(d) = Len(m \o t)
    BY <1>2, <1>5, <1>7, <1>8
  <2> QED
    BY <2>1, <1>7, <1>8, <1>9, SeqEqual
<1>11. ASSUME n[1] = x PROVE m = n
  <2>1. \A j \in 1..Len(n) : m[j] = n[j]
    BY <1>2, <1>11
  <2> QED
    BY <2>1, <1>2, SeqEqual
<1> QED
  BY <1>2, <1>3, <1>4, <1>6, <1>10, <1>11 DEF m, c, d

\* The names that Qt's code is given: the first letter is all that changes.
LEMMA Firsts ==
  ASSUME NEW n \in CppName, n # <<>>, n # Cpp!Main
  PROVE  /\ n[1] \in Cpp!Part
         /\ Cpp!Lowerfirst(n) = [n EXCEPT ![1] = Small(n[1])]
         /\ Cpp!Upperfirst(n) = [n EXCEPT ![1] = Large(n[1])]
         /\ Cpp!Lowerfirst(n) \in CppName /\ Cpp!Lowerfirst(n) # <<>>
         /\ Cpp!Upperfirst(n) \in CppName /\ Cpp!Upperfirst(n) # <<>>
         /\ Cpp!Lowerfirst(n) = n \/ Cpp!Upperfirst(n) = n
<1>1. n[1] \in Cpp!Part
  BY FirstReplaced DEF CppName
<1>2. Cpp!Lowerfirst(n) = [n EXCEPT ![1] = Small(n[1])]
  BY DEF Cpp!Lowerfirst, Small
<1>3. Cpp!Upperfirst(n) = [n EXCEPT ![1] = Large(n[1])]
  BY DEF Cpp!Upperfirst, Large
<1>4. Small(n[1]) \in Cpp!Part /\ Large(n[1]) \in Cpp!Part /\ (Small(n[1]) = n[1] \/ Large(n[1]) = n[1])
  BY <1>1, SmallOrLarge
<1>5. /\ \A x \in Cpp!Part : [n EXCEPT ![1] = x] \in CppName /\ [n EXCEPT ![1] = x] # <<>>
      /\ \A x \in Cpp!Part : n[1] = x => [n EXCEPT ![1] = x] = n
  BY FirstReplaced DEF CppName
<1> QED
  BY <1>1, <1>2, <1>3, <1>4, <1>5

LEMMA LongerName ==
  ASSUME NEW n \in CppName, n # <<>>, NEW t \in CppName, t # <<>>
  PROVE  n \o t \in CppName /\ n \o t # <<>> /\ n \o t # Cpp!Main
<1>1. n \o t \in CppName /\ Len(n \o t) = Len(n) + Len(t)
  BY ConcatProperties DEF CppName
<1>2. Len(n) \in Nat \ {0} /\ Len(t) \in Nat \ {0}
  BY EmptySeq DEF CppName
<1>3. Len(n \o t) > 1
  BY <1>1, <1>2
<1>4. Len(Cpp!Main) = 1 /\ Len(<<>>) = 0
  BY CppWordsKnown
<1> QED
  BY <1>1, <1>3, <1>4

\* Of a name that is put together the first part is changed.
LEMMA FirstOfLonger ==
  ASSUME NEW n \in CppName, n # <<>>, n # Cpp!Main, NEW t \in CppName, t # <<>>
  PROVE  Cpp!Lowerfirst(n \o t) = Cpp!Lowerfirst(n) \o t
<1>1. n \o t \in CppName /\ n \o t # <<>> /\ n \o t # Cpp!Main
  BY LongerName
<1>2. Cpp!Lowerfirst(n \o t) = [n \o t EXCEPT ![1] = Small((n \o t)[1])]
  BY <1>1, Firsts
<1>3. Cpp!Lowerfirst(n) = [n EXCEPT ![1] = Small(n[1])] /\ n[1] \in Cpp!Part
  BY Firsts
<1>4. Small(n[1]) \in Cpp!Part
  BY <1>3, SmallOrLarge
<1>5. (n \o t)[1] = n[1] /\ [n \o t EXCEPT ![1] = Small(n[1])] = [n EXCEPT ![1] = Small(n[1])] \o t
  BY <1>4, FirstReplaced DEF CppName
<1> QED
  BY <1>2, <1>3, <1>5

LEMMA LowerTwice ==
  ASSUME NEW n \in CppName, n # <<>>, n # Cpp!Main, NEW t \in CppName, t # <<>>
  PROVE  Cpp!Lowerfirst(Cpp!Lowerfirst(n) \o t) = Cpp!Lowerfirst(n) \o t
<1> DEFINE m == Cpp!Lowerfirst(n)
           x == Small(n[1])
<1>1. m = [n EXCEPT ![1] = x] /\ n[1] \in Cpp!Part /\ m \in CppName /\ m # <<>>
  BY Firsts
<1>2. x \in Cpp!Part /\ Small(x) = x
  BY <1>1, SmallOrLarge
<1> HIDE DEF m, x
<1>3. m[1] = x
  BY <1>1, <1>2, FirstReplaced DEF CppName
<1>4. m \o t \in CppName /\ m \o t # <<>> /\ m \o t # Cpp!Main
  BY <1>1, LongerName
<1>5. Cpp!Lowerfirst(m \o t) = [m \o t EXCEPT ![1] = Small((m \o t)[1])]
  BY <1>4, Firsts
<1>6. (m \o t)[1] = x
  BY <1>1, <1>2, <1>3, FirstReplaced DEF CppName
<1>7. [m \o t EXCEPT ![1] = x] = m \o t
  <2> DEFINE k == m \o t
  <2>1. k \in Seq(Cpp!Part) /\ k # <<>> /\ k[1] = x
    BY <1>4, <1>6 DEF CppName
  <2> HIDE DEF k
  <2>2. <<>> \in Seq(Cpp!Part)
    OBVIOUS
  <2>3. k[1] = x => [k EXCEPT ![1] = x] = k
    BY <2>1, <2>2, <1>2, FirstReplaced
  <2> QED
    BY <2>1, <2>3 DEF k
<1> QED
  BY <1>2, <1>5, <1>6, <1>7 DEF m

\* What has_property cuts off.
LEMMA ChangedCutOff ==
  ASSUME NEW n \in CppName
  PROVE  Cpp!WithoutChanged(n \o Cpp!Cap("changed")) = n
<1> DEFINE c == Cpp!Cap("changed")
           m == n \o c
<1>1. c \in CppName /\ Len(c) = 1
  BY CppWordsKnown
<1>2. c = <<c[1]>>
  BY DEF Cpp!Cap
<1> HIDE DEF c
<1>4. Len(n) \in Nat
  BY LenProperties DEF CppName
<1>3. /\ m \in CppName /\ Len(m) = Len(n) + 1
      /\ \A i \in 1..(Len(n) + 1) : m[i] = IF i <= Len(n) THEN n[i] ELSE c[i - Len(n)]
  <2>1. /\ n \o c \in Seq(Cpp!Part) /\ Len(n \o c) = Len(n) + Len(c)
        /\ \A i \in 1..(Len(n) + Len(c)) : (n \o c)[i] = IF i <= Len(n) THEN n[i] ELSE c[i - Len(n)]
    BY ONLY n \in CppName, <1>1, ConcatProperties DEF CppName
  <2>2. m = n \o c /\ CppName = Seq(Cpp!Part)
    BY DEF CppName
  <2> HIDE DEF m, CppName
  <2> QED
    BY ONLY <1>1, <2>1, <2>2
<1> HIDE DEF m
<1>5. SubSeq(m, Len(m), Len(m)) = c
  <2>1. SubSeq(m, Len(m), Len(m)) = <<m[Len(m)]>>
    <3> DEFINE k == Len(m)
               s == SubSeq(m, k, k)
    <3>1. k \in Int /\ k \in 1..Len(m) /\ m[k] \in Cpp!Part
      BY <1>3, <1>4, ElementOfSeq DEF CppName
    <3> HIDE DEF k
    <3>2. \A i \in k..k : m[i] \in Cpp!Part
      BY <3>1
    <3>3. s \in Seq(Cpp!Part) /\ Len(s) = 1 /\ \A i \in 1..1 : s[i] = m[k + i - 1]
      BY <3>1, <3>2, SubSeqProperties
    <3> HIDE DEF s
    <3>4. s = <<s[1]>> /\ s[1] = m[k]
      BY <3>1, <3>3
    <3> QED
      BY <3>4 DEF s, k
  <2>2. m[Len(m)] = c[1]
    BY <1>3, <1>4
  <2> QED
    BY <2>1, <2>2, <1>2
<1>6. SubSeq(m, 1, Len(m) - 1) = n
  <2> DEFINE s == SubSeq(m, 1, Len(m) - 1)
  <2>1. /\ s \in CppName /\ Len(s) = Len(n)
        /\ \A i \in 1..Len(n) : s[i] = m[i]
    BY <1>3, <1>4, SubSeqProperties DEF CppName
  <2>2. \A i \in 1..Len(n) : s[i] = n[i]
    BY <2>1, <1>3, <1>4
  <2> QED
    BY <2>1, <2>2, SeqEqual DEF CppName
<1> QED
  BY <1>5, <1>6 DEF m, c, Cpp!WithoutChanged

-----------------------------------------------------------------------------
(* Entities.                                                               *)

LEMMA Regrouped ==
  ASSUME NEW s \in CppName, NEW t \in CppName, NEW u \in CppName
  PROVE  (s \o t) \o u = s \o (t \o u)
BY ConcatAssociative DEF CppName

LEMMA OneIsSome ==
  ASSUME NEW s, Len(s) = 1 PROVE s # <<>>
OBVIOUS

\* What is put behind a name leaves it a name.
LEMMA NameExtended ==
  ASSUME NEW n \in Cpp!Name, NEW t \in CppName, t # <<>>
  PROVE  n \o t \in Cpp!Name
<1>1. n \in CppName /\ n # <<>>
  BY NameType
<1>2. n \o t \in CppName /\ n \o t # <<>>
  BY <1>1, LongerName
<1>3. (n \o t)[1] = n[1]
  <2>1. n[1] \in Cpp!Part
    BY <1>1, NameType, Firsts
  <2> QED
    BY <2>1, <1>1, FirstReplaced DEF CppName
<1>4. n[1].word \notin {"_", "__"}
  BY DEF Cpp!Name
<1>5. (n \o t)[1].word \notin {"_", "__"}
  BY <1>3, <1>4
<1> QED
  BY <1>2, <1>5 DEF Cpp!Name, CppName

LEMMA NameLowered ==
  ASSUME NEW n \in Cpp!Name
  PROVE  Cpp!Lowerfirst(n) \in Cpp!Name
<1>1. n \in CppName /\ n # <<>> /\ n # Cpp!Main
  BY NameType
<1>2. /\ n[1] \in Cpp!Part /\ Cpp!Lowerfirst(n) = [n EXCEPT ![1] = Small(n[1])]
      /\ Cpp!Lowerfirst(n) \in CppName /\ Cpp!Lowerfirst(n) # <<>>
  BY <1>1, Firsts
<1>3. Small(n[1]) \in Cpp!Part
  BY <1>2, SmallOrLarge
<1>4. Cpp!Lowerfirst(n)[1] = Small(n[1])
  BY <1>1, <1>2, <1>3, FirstReplaced DEF CppName
<1>5. Small(n[1]).word = n[1].word
  BY <1>2 DEF Small, Cpp!Part
<1>6. n[1].word \notin {"_", "__"}
  BY DEF Cpp!Name
<1>7. Cpp!Lowerfirst(n)[1].word \notin {"_", "__"}
  BY <1>4, <1>5, <1>6
<1> QED
  BY <1>2, <1>7 DEF Cpp!Name, CppName

LEMMA WordName ==
  ASSUME NEW w \in Vocabulary \ {"_", "__"}
  PROVE  Cpp!Low(w) \in Cpp!Name
<1>1. Cpp!Low(w) \in CppName /\ Len(Cpp!Low(w)) = 1
  BY CppWords
<1>2. Cpp!Low(w) # <<>>
  BY <1>1, OneIsSome
<1>3. Cpp!Low(w)[1].word = w
  BY DEF Cpp!Low
<1>4. Cpp!Low(w)[1].word \notin {"_", "__"}
  BY <1>3
<1> QED
  BY <1>1, <1>2, <1>4 DEF Cpp!Name, CppName

LEMMA EntityType ==
  ASSUME NEW e \in Cpp!Entity
  PROVE  /\ e.service \in Cpp!Name \cup {Cpp!Main} /\ e.name \in Cpp!Name
         /\ e.kind \in {"rpc", "signal", "property"}
         /\ e.kind = "property" => e.access \in Cpp!Access
         /\ e.kind \in {"rpc", "signal"} => e.parameter \in Cpp!Shape
         /\ e.kind = "rpc" => e.returns \in Cpp!Returned
BY DEF Cpp!Entity

LEMMA LoweredType ==
  ASSUME NEW p \in Cpp!Entity
  PROVE  Cpp!ChangedSignal(p) \in Cpp!Entity /\ Cpp!SetRpc(p) \in Cpp!Entity /\ Cpp!ToggleRpc(p) \in Cpp!Entity
<1>1. p.service \in Cpp!Name \cup {Cpp!Main} /\ p.name \in Cpp!Name
  BY EntityType
<1>2. /\ Cpp!Cap("changed") \in CppName /\ Cpp!Cap("changed") # <<>>
      /\ Cpp!Upperfirst(p.name) \in CppName /\ Cpp!Upperfirst(p.name) # <<>>
  <2>1. Cpp!Cap("changed") \in CppName /\ Len(Cpp!Cap("changed")) = 1
    BY CppWordsKnown
  <2>2. Cpp!Cap("changed") # <<>>
    BY <2>1
  <2> QED
    BY <2>1, <2>2, <1>1, NameType, Firsts
<1>3. Cpp!Lowerfirst(p.name) \o Cpp!Cap("changed") \in Cpp!Name
  BY <1>1, <1>2, NameLowered, NameExtended
<1>4. Cpp!Low("set") \in Cpp!Name /\ Cpp!Low("toggle") \in Cpp!Name
  <2>1. "set" \in Vocabulary \ {"_", "__"} /\ "toggle" \in Vocabulary \ {"_", "__"}
    BY GeneratorAssumption
  <2> QED
    BY <2>1, WordName
<1>5. /\ Cpp!Low("set") \o Cpp!Upperfirst(p.name) \in Cpp!Name
      /\ Cpp!Low("toggle") \o Cpp!Upperfirst(p.name) \in Cpp!Name
  BY <1>2, <1>4, NameExtended
<1>6. ASSUME NEW s \in Cpp!Name \cup {Cpp!Main}, NEW n \in Cpp!Name,
             NEW parameter \in Cpp!Shape, NEW returns \in Cpp!Returned
      PROVE  Cpp!Rpc(s, n, parameter, returns) \in Cpp!Entity /\ Cpp!Signal(s, n, parameter) \in Cpp!Entity
  BY DEF Cpp!Entity, Cpp!Rpc, Cpp!Signal
<1>7. "void" \in Cpp!Shape /\ "value" \in Cpp!Shape /\ "void" \in Cpp!Returned
  BY DEF Cpp!Shape, Cpp!Returned
<1> QED
  BY <1>1, <1>3, <1>5, <1>6, <1>7 DEF Cpp!ChangedSignal, Cpp!SetRpc, Cpp!ToggleRpc

\* Qt's classes define what they declare, unless a main service's rpc loses its
\* capital letter.
LEMMA QtMethodNames ==
  ASSUME NEW e \in Cpp!Entity, ~(e.service = Cpp!Main /\ e.name = Cpp!Upperfirst(e.name))
  PROVE  Cpp!HeadName(e, TRUE) = Cpp!RpcMethodNameQt(e)
<1> DEFINE s == e.service
           n == e.name
<1>1. s \in Cpp!Name \cup {Cpp!Main} /\ n \in Cpp!Name
  BY EntityType
<1>2. /\ Cpp!HeadName(e, TRUE) = Cpp!Lowerfirst(Cpp!Qualified(s, e))
      /\ Cpp!RpcMethodNameQt(e) = Cpp!Qualified(Cpp!Lowerfirst(s), e)
  BY DEF Cpp!HeadName, Cpp!RpcMethodNameQt, Cpp!PublicMethodName
<1>3. CASE s = Cpp!Main
  <2>1. Cpp!Lowerfirst(n) = n
    BY <1>1, <1>3, NameType, Firsts
  <2> QED
    BY <1>2, <1>3, <2>1 DEF Cpp!Qualified
<1>4. CASE s # Cpp!Main
  <2>1. s \in CppName /\ s # <<>> /\ n \in CppName /\ n # <<>>
    BY <1>1, <1>4, NameType
  <2>2. Cpp!Sep \in CppName /\ Cpp!Sep # <<>>
    <3>1. Cpp!Sep \in CppName /\ Len(Cpp!Sep) = 1
      BY CppWordsKnown
    <3> QED
      BY <3>1, OneIsSome
  <2>3. Cpp!Sep \o n \in CppName /\ Cpp!Sep \o n # <<>>
    BY <2>1, <2>2, LongerName
  <2>4. Cpp!Lowerfirst(s \o (Cpp!Sep \o n)) = Cpp!Lowerfirst(s) \o (Cpp!Sep \o n)
    BY <2>1, <2>3, <1>4, FirstOfLonger
  <2>5. Cpp!Lowerfirst(s) \in CppName
    BY <2>1, <1>4, Firsts
  <2>6. /\ s \o Cpp!Sep \o n = s \o (Cpp!Sep \o n)
        /\ Cpp!Lowerfirst(s) \o Cpp!Sep \o n = Cpp!Lowerfirst(s) \o (Cpp!Sep \o n)
    <3>1. s \o Cpp!Sep \o n = s \o (Cpp!Sep \o n)
      BY ONLY <2>1, <2>2, Regrouped, Zenon
    <3>2. Cpp!Lowerfirst(s) \o Cpp!Sep \o n = Cpp!Lowerfirst(s) \o (Cpp!Sep \o n)
      BY ONLY <2>1, <2>2, <2>5, Regrouped, Zenon
    <3> QED
      BY ONLY <3>1, <3>2
  <2>7. /\ Cpp!Qualified(s, e) = s \o Cpp!Sep \o n
        /\ Cpp!Qualified(Cpp!Lowerfirst(s), e) = Cpp!Lowerfirst(s) \o Cpp!Sep \o n
    BY <1>4 DEF Cpp!Qualified
  <2> QED
    BY <1>2, <2>4, <2>6, <2>7
<1> QED
  BY <1>3, <1>4

\* A property's notification is the signal it is lowered to, its setter the rpc.
LEMMA PropertyNames ==
  ASSUME NEW p \in Cpp!Entity
  PROVE  /\ Cpp!SetterName(p) = Cpp!RpcMethodNameQt(Cpp!SetRpc(p))
         /\ p.name # Cpp!Upperfirst(p.name) =>
              /\ Cpp!NotificationName(p) = Cpp!SignalMethodNameQt(Cpp!ChangedSignal(p))
              /\ Cpp!WithoutChanged(Cpp!ChangedSignal(p).name) = p.name
<1> DEFINE s == p.service
           n == p.name
           changed == Cpp!Cap("changed")
           set == Cpp!Low("set")
<1>1. s \in Cpp!Name \cup {Cpp!Main} /\ n \in Cpp!Name
  BY EntityType
<1>2. /\ changed \in CppName /\ changed # <<>> /\ Cpp!Sep \in CppName /\ set \in CppName
  <2>1. changed \in CppName /\ Len(changed) = 1 /\ Cpp!Sep \in CppName /\ set \in CppName
    BY CppWordsKnown
  <2> QED
    BY <2>1
<1>3. /\ n \in CppName /\ n # <<>> /\ n # Cpp!Main
      /\ Cpp!Upperfirst(n) \in CppName /\ Cpp!Lowerfirst(n) \in CppName
      /\ Cpp!Lowerfirst(n) = n \/ Cpp!Upperfirst(n) = n
  BY <1>1, NameType, Firsts
<1>4. /\ Cpp!SetRpc(p).service = s /\ Cpp!SetRpc(p).name = set \o Cpp!Upperfirst(n)
      /\ Cpp!ChangedSignal(p).service = s /\ Cpp!ChangedSignal(p).name = Cpp!Lowerfirst(n) \o changed
  BY DEF Cpp!SetRpc, Cpp!ChangedSignal, Cpp!Rpc, Cpp!Signal
<1>5. n # Cpp!Upperfirst(n) => Cpp!WithoutChanged(Cpp!ChangedSignal(p).name) = n
  BY <1>3, <1>4, ChangedCutOff
<1> HIDE DEF changed, set
<1>6. CASE s = Cpp!Main
  <2>1. Cpp!SetterName(p) = Cpp!RpcMethodNameQt(Cpp!SetRpc(p))
    BY <1>4, <1>6 DEF Cpp!SetterName, Cpp!RpcMethodNameQt, Cpp!Qualified, set
  <2>2. Cpp!NotificationName(p) = Cpp!Lowerfirst(n) \o changed
    BY <1>6 DEF Cpp!NotificationName, changed
  <2>3. Cpp!SignalMethodNameQt(Cpp!ChangedSignal(p)) = Cpp!Lowerfirst(Cpp!Lowerfirst(n) \o changed)
    BY <1>4, <1>6 DEF Cpp!SignalMethodNameQt
  <2>4. Cpp!Lowerfirst(Cpp!Lowerfirst(n) \o changed) = Cpp!Lowerfirst(n) \o changed
    BY <1>2, <1>3, LowerTwice
  <2> QED
    BY <1>5, <2>1, <2>2, <2>3, <2>4
<1>7. CASE s # Cpp!Main
  <2> DEFINE l == Cpp!Lowerfirst(s)
  <2>1. l \in CppName
    BY <1>1, <1>7, NameType, Firsts
  <2>2. l \o Cpp!Sep \in CppName
    BY <2>1, <1>2, ConcatProperties DEF CppName
  <2>3. Cpp!SetterName(p) = l \o Cpp!Sep \o set \o Cpp!Upperfirst(n)
    BY <1>7 DEF Cpp!SetterName, set
  <2>4. Cpp!RpcMethodNameQt(Cpp!SetRpc(p)) = l \o Cpp!Sep \o (set \o Cpp!Upperfirst(n))
    BY <1>4, <1>7 DEF Cpp!RpcMethodNameQt, Cpp!Qualified
  <2>5. l \o Cpp!Sep \o set \o Cpp!Upperfirst(n) = l \o Cpp!Sep \o (set \o Cpp!Upperfirst(n))
    <3>1. l \o Cpp!Sep \in CppName /\ set \in CppName /\ Cpp!Upperfirst(n) \in CppName
      BY <2>2, <1>2, <1>3
    <3> HIDE DEF l, set
    <3> QED
      BY ONLY <3>1, Regrouped
  <2>6. Cpp!NotificationName(p) = l \o Cpp!Sep \o n \o changed
    BY <1>7 DEF Cpp!NotificationName, changed
  <2>7. Cpp!SignalMethodNameQt(Cpp!ChangedSignal(p)) = l \o Cpp!Sep \o (Cpp!Lowerfirst(n) \o changed)
    BY <1>4, <1>7 DEF Cpp!SignalMethodNameQt, Cpp!Qualified
  <2>8. l \o Cpp!Sep \o n \o changed = l \o Cpp!Sep \o (n \o changed)
    <3>1. l \o Cpp!Sep \in CppName /\ n \in CppName /\ changed \in CppName
      BY <2>2, <1>2, <1>3
    <3> HIDE DEF l, changed
    <3> QED
      BY ONLY <3>1, Regrouped
  <2> QED
    BY <1>3, <1>5, <2>3, <2>4, <2>5, <2>6, <2>7, <2>8
<1> QED
  BY <1>6, <1>7

-----------------------------------------------------------------------------
(* What the C++ files have in them.                                        *)

Topics == {Cpp!Topic(Cpp!SignalKeyName(e), e) : e \in Cpp!Signals}

Declares(f) ==
  CASE f = "Schema" -> Cpp!SchemaDeclares
    [] f = "ClientTransport.h" -> Cpp!Senders
    [] f = "Client.h" -> Cpp!ClientDeclares
    [] f = "RpcIf.h" -> Cpp!InterfacesDeclare
    [] f = "Server.h" -> Cpp!ServerDeclares
    [] f = "Server.cpp" -> Topics
    [] f = "QObjectClient.h" -> Cpp!QtDeclares
    [] OTHER -> {}

TemplatesDefined == {Cpp!Defined(Cpp!ClientRpc, e, FALSE) : e \in Cpp!Templates}

Defines(f) ==
  CASE f = "ClientTransport.inl" -> Cpp!Senders
    [] f = "Client.inl" -> TemplatesDefined
    [] f = "Client.cpp" -> Cpp!ClientDefines
    [] f = "Server.cpp" -> Cpp!ServerDefines
    [] f = "QObjectClient.cpp" -> Cpp!QtDefines
    [] OTHER -> {}

Uses(f) ==
  CASE f = "ClientTransport.inl" -> UNION {Cpp!Coordinates(e) : e \in Cpp!Rpcs}
    [] f = "Client.inl" -> UNION {Cpp!DefinitionUses(e) : e \in Cpp!Templates}
    [] f = "Client.cpp" -> Cpp!ClientUses
    [] f = "Server.h" -> {Cpp!Interface(s) : s \in Cpp!RpcServices}
    [] f = "Server.cpp" -> Cpp!ServerUses
    [] f = "QObjectClient.h" -> UNION {Cpp!QPropertyUses(p) : p \in Cpp!Props}
    [] f = "QObjectClient.cpp" -> Cpp!QtUses
    [] OTHER -> {}

\* A property's signal and its setter are in the interface.
PropertiesLowered ==
  \A p \in Cpp!Props :
    Cpp!ChangedSignal(p) \in iface /\ (p.access # "read-only" => Cpp!SetRpc(p) \in iface)

InOrder ==
  /\ files \in Seq(Cpp!File) /\ Len(files) <= Len(Cpp!Order)
  /\ \A k \in 1..Len(files) : files[k] = Cpp!Order[k]

CppInv ==
  /\ iface \subseteq Cpp!Entity
  /\ PropertiesLowered
  /\ InOrder
  /\ declared = [f \in Cpp!File |-> IF f \in Cpp!Rendered THEN Declares(f) ELSE {}]
  /\ defined = [f \in Cpp!File |-> IF f \in Cpp!Rendered THEN Defines(f) ELSE {}]
  /\ used = [f \in Cpp!File |-> IF f \in Cpp!Rendered THEN Uses(f) ELSE {}]

CompilerInv ==
  /\ language \in {"python", "cpp"} /\ output \in {"none", "failed", language}
  /\ IF language = "cpp" THEN CppInv ELSE CppIdle

\* The contents follow from the interface.
LEMMA ContentsFixed ==
  ASSUME iface' = iface
  PROVE  \A f : Declares(f)' = Declares(f) /\ Defines(f)' = Defines(f) /\ Uses(f)' = Uses(f)
<1>1. /\ Cpp!Rpcs' = Cpp!Rpcs /\ Cpp!Signals' = Cpp!Signals /\ Cpp!Props' = Cpp!Props
      /\ Cpp!Services' = Cpp!Services /\ Cpp!RpcServices' = Cpp!RpcServices
      /\ Cpp!Templates' = Cpp!Templates /\ Cpp!ValidForQt' = Cpp!ValidForQt
  BY DEF Cpp!Rpcs, Cpp!Signals, Cpp!Props, Cpp!Services, Cpp!RpcServices, Cpp!Templates, Cpp!ValidForQt
<1>2. \A e : Cpp!PropertyOf(e)' = Cpp!PropertyOf(e)
  BY <1>1 DEF Cpp!PropertyOf
<1>3. \A e : Cpp!QClientSignal(e)' = Cpp!QClientSignal(e) /\ Cpp!Connection(e)' = Cpp!Connection(e)
  BY <1>2 DEF Cpp!QClientSignal, Cpp!Connection
<1>4. /\ \A in, names : /\ Cpp!WithRpcs(in, names)' = Cpp!WithRpcs(in, names)
                        /\ Cpp!WithSignals(in, names)' = Cpp!WithSignals(in, names)
      /\ Cpp!ClientAlways' = Cpp!ClientAlways /\ Cpp!QtAlways' = Cpp!QtAlways
  BY <1>1 DEF Cpp!WithRpcs, Cpp!WithSignals, Cpp!ClientAlways, Cpp!QtAlways
<1>5. \A f : Declares(f)' = Declares(f)
  BY <1>1, <1>3, <1>4 DEF Declares, Cpp!SchemaDeclares, Cpp!Senders, Cpp!ClientDeclares, Cpp!InterfacesDeclare,
     Cpp!ServerDeclares, Topics, Cpp!QtDeclares
<1>6. \A f : Defines(f)' = Defines(f)
  BY <1>1 DEF Defines, Cpp!Senders, TemplatesDefined, Cpp!ClientDefines, Cpp!ServerDefines, Cpp!QtDefines
<1>7. \A f : Uses(f)' = Uses(f)
  BY <1>1, <1>3 DEF Uses, Cpp!ClientUses, Cpp!ServerUses, Cpp!QtUses
<1> QED
  BY <1>5, <1>6, <1>7

LEMMA OrderType ==
  /\ Len(Cpp!Order) = 11 /\ Cpp!Order \in Seq(Cpp!File)
  /\ Cpp!File = {"Schema", "ClientTransport.h", "ClientTransport.inl", "Client.h", "Client.inl",
                 "Client.cpp", "RpcIf.h", "Server.h", "Server.cpp", "QObjectClient.h", "QObjectClient.cpp"}
<1>1. Len(Cpp!Order) = 11 /\ DOMAIN Cpp!Order = 1..11
  BY DEF Cpp!Order
<1>2. Cpp!File = {Cpp!Order[k] : k \in 1..11}
  BY <1>1 DEF Cpp!File
<1>3. /\ Cpp!Order[1] = "Schema" /\ Cpp!Order[2] = "ClientTransport.h" /\ Cpp!Order[3] = "ClientTransport.inl"
      /\ Cpp!Order[4] = "Client.h" /\ Cpp!Order[5] = "Client.inl" /\ Cpp!Order[6] = "Client.cpp"
      /\ Cpp!Order[7] = "RpcIf.h" /\ Cpp!Order[8] = "Server.h" /\ Cpp!Order[9] = "Server.cpp"
      /\ Cpp!Order[10] = "QObjectClient.h" /\ Cpp!Order[11] = "QObjectClient.cpp"
  BY DEF Cpp!Order
<1>4. 1..11 = {1, 2, 3, 4, 5, 6, 7, 8, 9, 10, 11}
  OBVIOUS
<1>5. Cpp!File = {"Schema", "ClientTransport.h", "ClientTransport.inl", "Client.h", "Client.inl",
                 "Client.cpp", "RpcIf.h", "Server.h", "Server.cpp", "QObjectClient.h", "QObjectClient.cpp"}
  BY <1>2, <1>3, <1>4
<1>6. Cpp!Order \in Seq(Cpp!File)
  BY <1>5 DEF Cpp!Order
<1> QED
  BY <1>1, <1>5, <1>6

\* One more file.
LEMMA RenderStep ==
  ASSUME CppInv, NEW f \in Cpp!File, Cpp!Render(f, Declares(f), Defines(f), Uses(f))
  PROVE  CppInv'
<1>1. /\ iface' = iface /\ Len(files) < 11 /\ Cpp!Order[Len(files) + 1] = f /\ files' = Append(files, f)
      /\ declared' = [declared EXCEPT ![f] = Declares(f)]
      /\ defined' = [defined EXCEPT ![f] = Defines(f)]
      /\ used' = [used EXCEPT ![f] = Uses(f)]
  BY OrderType DEF Cpp!Render
<1>2. \A g : Declares(g)' = Declares(g) /\ Defines(g)' = Defines(g) /\ Uses(g)' = Uses(g)
  BY <1>1, ContentsFixed
<1>3. iface' \subseteq Cpp!Entity /\ PropertiesLowered'
  BY <1>1 DEF CppInv, PropertiesLowered, Cpp!Props
<1>4. /\ files \in Seq(Cpp!File) /\ Len(files) \in Nat
      /\ Len(files') = Len(files) + 1 /\ files' \in Seq(Cpp!File)
      /\ \A k \in 1..Len(files) : files'[k] = files[k]
      /\ files'[Len(files) + 1] = f
  BY <1>1, LenProperties, AppendProperties DEF CppInv, InOrder
<1>5. InOrder'
  <2>1. \A k \in 1..Len(files') : files'[k] = Cpp!Order[k]
    <3> SUFFICES ASSUME NEW k \in 1..Len(files') PROVE files'[k] = Cpp!Order[k]
      OBVIOUS
    <3>1. CASE k = Len(files) + 1
      BY <3>1, <1>1, <1>4
    <3>2. CASE k # Len(files) + 1
      <4>1. k \in 1..Len(files)
        BY <3>2, <1>4
      <4> QED
        BY <4>1, <1>4 DEF CppInv, InOrder
    <3> QED
      BY <3>1, <3>2
  <2>2. Len(files') <= Len(Cpp!Order)
    BY <1>1, <1>4, OrderType
  <2> QED
    BY <2>1, <2>2, <1>4 DEF InOrder
<1>6. Cpp!Rendered' = Cpp!Rendered \cup {f}
  <2>1. DOMAIN files = 1..Len(files) /\ DOMAIN files' = 1..(Len(files) + 1)
    BY <1>4, LenProperties
  <2>2. Cpp!Rendered = {files[k] : k \in 1..Len(files)} /\ Cpp!Rendered' = {files'[k] : k \in 1..(Len(files) + 1)}
    BY <2>1 DEF Cpp!Rendered
  <2>3. 1..(Len(files) + 1) = (1..Len(files)) \cup {Len(files) + 1}
    BY <1>4
  <2> QED
    BY <2>2, <2>3, <1>4
<1>7. declared' = [g \in Cpp!File |-> IF g \in Cpp!Rendered' THEN Declares(g)' ELSE {}]
  BY <1>1, <1>2, <1>6 DEF CppInv
<1>8. defined' = [g \in Cpp!File |-> IF g \in Cpp!Rendered' THEN Defines(g)' ELSE {}]
  BY <1>1, <1>2, <1>6 DEF CppInv
<1>9. used' = [g \in Cpp!File |-> IF g \in Cpp!Rendered' THEN Uses(g)' ELSE {}]
  BY <1>1, <1>2, <1>6 DEF CppInv
<1> QED
  BY <1>3, <1>5, <1>7, <1>8, <1>9 DEF CppInv

\* The interface that build_protocol makes.
LEMMA NormalizedType ==
  ASSUME NEW d \in SUBSET Cpp!Entity, iface = Cpp!Normalized(d)
  PROVE  iface \subseteq Cpp!Entity /\ PropertiesLowered
<1>1. Cpp!FromProperties(d) \subseteq Cpp!Entity
  BY LoweredType DEF Cpp!FromProperties, Cpp!Properties
<1>2. \A p : Cpp!ChangedSignal(p).kind = "signal" /\ Cpp!SetRpc(p).kind = "rpc" /\ Cpp!ToggleRpc(p).kind = "rpc"
  BY DEF Cpp!ChangedSignal, Cpp!SetRpc, Cpp!ToggleRpc, Cpp!Signal, Cpp!Rpc
<1>3. \A e \in Cpp!FromProperties(d) : e.kind # "property"
  BY <1>2 DEF Cpp!FromProperties
<1>4. Cpp!FromProperties(d) \subseteq iface /\ iface \subseteq Cpp!FromProperties(d) \cup d
  BY DEF Cpp!Normalized
<1>5. ASSUME NEW p \in Cpp!Props
      PROVE  Cpp!ChangedSignal(p) \in iface /\ (p.access # "read-only" => Cpp!SetRpc(p) \in iface)
  <2>1. p \in Cpp!Properties(d)
    BY <1>3, <1>4 DEF Cpp!Props, Cpp!Properties
  <2> QED
    BY <2>1, <1>4 DEF Cpp!FromProperties
<1> QED
  BY <1>1, <1>4, <1>5 DEF PropertiesLowered

LEMMA CompilerStart == Start => CompilerInv
<1> SUFFICES ASSUME Start PROVE CompilerInv
  OBVIOUS
<1>1. output = "none"
  BY DEF Start
<1>2. CASE language = "python" /\ CppIdle
  BY <1>1, <1>2 DEF CompilerInv
<1>3. CASE language = "cpp" /\ Cpp!Init
  <2>1. PICK d \in Descriptions : iface = Cpp!Normalized(d)
    BY <1>3 DEF Cpp!Init
  <2>2. d \in SUBSET Cpp!Entity
    BY GeneratorAssumption
  <2>3. iface \subseteq Cpp!Entity /\ PropertiesLowered
    BY <2>1, <2>2, NormalizedType
  <2>4. files = <<>> /\ Len(files) = 0 /\ Cpp!Rendered = {}
    BY <1>3 DEF Cpp!Init, Cpp!Rendered
  <2>5. InOrder
    BY <2>4, OrderType DEF InOrder
  <2>6. /\ declared = [f \in Cpp!File |-> {}] /\ defined = [f \in Cpp!File |-> {}]
        /\ used = [f \in Cpp!File |-> {}]
    BY <1>3 DEF Cpp!Init
  <2>7. CppInv
    BY <2>3, <2>4, <2>5, <2>6 DEF CppInv
  <2> QED
    BY <1>1, <1>3, <2>7 DEF CompilerInv
<1> QED
  BY <1>2, <1>3 DEF Start

LEMMA CppStep ==
  ASSUME CppInv, Cpp!Next PROVE CppInv'
<1> USE OrderType
<1>1. CASE Cpp!SchemaFile
  <2>1. Cpp!Render("Schema", Declares("Schema"), Defines("Schema"), Uses("Schema"))
    BY <1>1 DEF Cpp!SchemaFile, Declares, Defines, Uses
  <2> QED
    BY <2>1, RenderStep
<1>2. CASE Cpp!TransportHeader
  <2> DEFINE f == "ClientTransport.h"
  <2>1. Cpp!Render(f, Declares(f), Defines(f), Uses(f))
    BY <1>2 DEF Cpp!TransportHeader, Declares, Defines, Uses
  <2> QED
    BY <2>1, RenderStep
<1>3. CASE Cpp!TransportInline
  <2> DEFINE f == "ClientTransport.inl"
  <2>1. Cpp!Render(f, Declares(f), Defines(f), Uses(f))
    BY <1>3 DEF Cpp!TransportInline, Declares, Defines, Uses
  <2> QED
    BY <2>1, RenderStep
<1>4. CASE Cpp!ClientHeader
  <2> DEFINE f == "Client.h"
  <2>1. Cpp!Render(f, Declares(f), Defines(f), Uses(f))
    BY <1>4 DEF Cpp!ClientHeader, Declares, Defines, Uses
  <2> QED
    BY <2>1, RenderStep
<1>5. CASE Cpp!ClientInline
  <2> DEFINE f == "Client.inl"
  <2>1. Cpp!Render(f, Declares(f), Defines(f), Uses(f))
    BY <1>5 DEF Cpp!ClientInline, Declares, Defines, Uses, TemplatesDefined
  <2> QED
    BY <2>1, RenderStep
<1>6. CASE Cpp!ClientSource
  <2> DEFINE f == "Client.cpp"
  <2>1. Cpp!Render(f, Declares(f), Defines(f), Uses(f))
    BY <1>6 DEF Cpp!ClientSource, Declares, Defines, Uses
  <2> QED
    BY <2>1, RenderStep
<1>7. CASE Cpp!RpcInterfaces
  <2> DEFINE f == "RpcIf.h"
  <2>1. Cpp!Render(f, Declares(f), Defines(f), Uses(f))
    BY <1>7 DEF Cpp!RpcInterfaces, Declares, Defines, Uses
  <2> QED
    BY <2>1, RenderStep
<1>8. CASE Cpp!ServerHeader
  <2> DEFINE f == "Server.h"
  <2>1. Cpp!Render(f, Declares(f), Defines(f), Uses(f))
    BY <1>8 DEF Cpp!ServerHeader, Declares, Defines, Uses
  <2> QED
    BY <2>1, RenderStep
<1>9. CASE Cpp!ServerSource
  <2> DEFINE f == "Server.cpp"
  <2>1. Cpp!Render(f, Declares(f), Defines(f), Uses(f))
    BY <1>9 DEF Cpp!ServerSource, Declares, Defines, Uses, Topics
  <2> QED
    BY <2>1, RenderStep
<1>10. CASE Cpp!QtHeader
  <2> DEFINE f == "QObjectClient.h"
  <2>1. Cpp!Render(f, Declares(f), Defines(f), Uses(f))
    BY <1>10 DEF Cpp!QtHeader, Declares, Defines, Uses
  <2> QED
    BY <2>1, RenderStep
<1>11. CASE Cpp!QtSource
  <2> DEFINE f == "QObjectClient.cpp"
  <2>1. Cpp!Render(f, Declares(f), Defines(f), Uses(f))
    BY <1>11 DEF Cpp!QtSource, Declares, Defines, Uses
  <2> QED
    BY <2>1, RenderStep
<1> QED
  BY <1>1, <1>2, <1>3, <1>4, <1>5, <1>6, <1>7, <1>8, <1>9, <1>10, <1>11 DEF Cpp!Next

LEMMA CppUnchanged ==
  ASSUME CppInv, UNCHANGED cppVars PROVE CppInv'
<1>1. iface' = iface /\ files' = files /\ declared' = declared /\ defined' = defined /\ used' = used
  BY DEF cppVars
<1>2. \A f : Declares(f)' = Declares(f) /\ Defines(f)' = Defines(f) /\ Uses(f)' = Uses(f)
  BY <1>1, ContentsFixed
<1>3. PropertiesLowered' /\ InOrder' /\ Cpp!Rendered' = Cpp!Rendered
  BY <1>1 DEF CppInv, PropertiesLowered, InOrder, Cpp!Props, Cpp!Rendered
<1> QED
  BY <1>1, <1>2, <1>3 DEF CppInv

LEMMA CompilerHolds == Generate => []CompilerInv
<1>1. CompilerInv /\ [Step]_<<language, output, vars, cppVars>> => CompilerInv'
  <2> SUFFICES ASSUME CompilerInv, [Step]_<<language, output, vars, cppVars>> PROVE CompilerInv'
    OBVIOUS
  <2>1. ASSUME language' = language, output' \in {"none", "failed", language}, UNCHANGED cppVars PROVE CompilerInv'
    <3>1. CASE language = "cpp"
      BY <2>1, <3>1, CppUnchanged DEF CompilerInv
    <3>2. CASE language # "cpp"
      BY <2>1, <3>2 DEF CompilerInv, CppIdle, cppVars
    <3> QED
      BY <3>1, <3>2
  <2>2. CASE RenderPython
    BY <2>1, <2>2 DEF RenderPython, CompilerInv
  <2>3. CASE RenderCpp
    <3>1. CppInv /\ Cpp!Next /\ language = "cpp" /\ language' = language /\ output' = output
      BY <2>3 DEF RenderCpp, CompilerInv
    <3> QED
      BY <3>1, CppStep DEF CompilerInv
  <2>4. CASE FailCpp
    BY <2>1, <2>4 DEF FailCpp
  <2>5. CASE Write
    BY <2>1, <2>5 DEF Write, CompilerInv
  <2>6. CASE UNCHANGED <<language, output, vars, cppVars>>
    BY <2>1, <2>6 DEF CompilerInv
  <2> QED
    BY <2>2, <2>3, <2>4, <2>5, <2>6 DEF Step
<1> QED
  BY CompilerStart, <1>1, PTL DEF Generate

-----------------------------------------------------------------------------
(* What is found where.                                                    *)

\* A reference is to its entity, or to the service of it.
Of(r, e) == r.what # "topic" /\ (r.of = e \/ r.of = Cpp!Service(e.service))

LEMMA Refs ==
  /\ \A in, name, takes, e : Of(Cpp!Method(in, name, takes, e), e)
  /\ \A in, name, e : Of(Cpp!Member(in, name, e), e) /\ Of(Cpp!Constant(in, name, e), e)
                      /\ Of(Cpp!Nested(in, name, e), e)
  /\ \A name, e : Of(Cpp!Type(name, e), e)
  /\ \A in, name, takes, e : Of(Cpp!Ref("signal", in, name, takes, e), e)
BY DEF Cpp!Method, Cpp!Member, Cpp!Constant, Cpp!Nested, Cpp!Type, Cpp!Ref, Of

LEMMA MadeOf ==
  /\ \A s : Cpp!ServiceNumber(s).of = Cpp!Service(s) /\ Cpp!Interface(s).of = Cpp!Service(s)
            /\ Cpp!InterfaceMember(s).of = Cpp!Service(s)
  /\ \A s : Cpp!ServiceNumber(s).what = "constant" /\ Cpp!Interface(s).what = "type"
            /\ Cpp!InterfaceMember(s).what = "member"
  /\ \A e : /\ \A r \in Cpp!Coordinates(e) : Of(r, e)
            /\ \A r \in Cpp!ParameterType(e) \cup Cpp!ReturnType(e) : Of(r, e)
            /\ \A r \in Cpp!SignalType(e) \cup Cpp!ClientReturn(e) : Of(r, e)
            /\ \A r \in Cpp!ServerReturn(e) \cup Cpp!Gadget(e) : Of(r, e)
            /\ \A r \in Cpp!DefinitionUses(e) : Of(r, e)
  /\ \A e : /\ Of(Cpp!Sender(e), e) /\ Of(Cpp!SenderCall(e), e) /\ Of(Cpp!ClientMethod(e), e)
            /\ Of(Cpp!Handler(e), e) /\ Of(Cpp!HandlerCall(e), e)
            /\ Of(Cpp!Emitter(e), e) /\ Of(Cpp!Register(e), e)
            /\ Of(Cpp!Getter(e), e) /\ Of(Cpp!Cache(e), e)
            /\ Of(Cpp!QClientSignal(e), e) /\ Of(Cpp!Emission(e), e)
  /\ \A in, e, qt : Of(Cpp!Defined(in, e, qt), e)
  /\ \A in, e : /\ Of(Cpp!CallbackType(in, e), e) /\ Of(Cpp!Registration(in, e), e)
                /\ Of(Cpp!CallbackMember(in, e), e) /\ Of(Cpp!Invokable(in, e), e)
  /\ \A in, e, takes : Of(Cpp!QtSignal(in, e, takes), e)
<1> USE Refs
<1>1. \A s : /\ Cpp!ServiceNumber(s).of = Cpp!Service(s) /\ Cpp!ServiceNumber(s).what = "constant"
             /\ Cpp!Interface(s).of = Cpp!Service(s) /\ Cpp!Interface(s).what = "type"
             /\ Cpp!InterfaceMember(s).of = Cpp!Service(s) /\ Cpp!InterfaceMember(s).what = "member"
  BY DEF Cpp!ServiceNumber, Cpp!Interface, Cpp!InterfaceMember,
     Cpp!Constant, Cpp!Type, Cpp!Nested, Cpp!Member, Cpp!Ref
<1>2. \A e : \A r \in Cpp!Coordinates(e) : Of(r, e)
  BY <1>1 DEF Cpp!Coordinates, Of
<1>3. \A e : \A r \in Cpp!ParameterType(e) \cup Cpp!ReturnType(e) : Of(r, e)
  BY DEF Cpp!ParameterType, Cpp!ReturnType
<1>4. \A e : \A r \in Cpp!SignalType(e) \cup Cpp!ClientReturn(e) : Of(r, e)
  BY DEF Cpp!SignalType, Cpp!ClientReturn
<1>5. \A e : \A r \in Cpp!ServerReturn(e) \cup Cpp!Gadget(e) : Of(r, e)
  BY DEF Cpp!ServerReturn, Cpp!Gadget
<1>6. \A e : /\ Of(Cpp!Sender(e), e) /\ Of(Cpp!SenderCall(e), e) /\ Of(Cpp!ClientMethod(e), e)
             /\ Of(Cpp!Handler(e), e)
  <2>1. \A e : Of(Cpp!Sender(e), e) /\ Of(Cpp!SenderCall(e), e)
    BY Zenon DEF Cpp!Sender, Cpp!SenderCall
  <2>2. \A e : Of(Cpp!ClientMethod(e), e)
    BY Zenon DEF Cpp!ClientMethod
  <2>3. \A e : Of(Cpp!Handler(e), e)
    BY DEF Cpp!Handler
  <2> QED
    BY <2>1, <2>2, <2>3
<1>7. \A e : Of(Cpp!HandlerCall(e), e)
  <2> SUFFICES ASSUME NEW e PROVE Of(Cpp!HandlerCall(e), e)
    OBVIOUS
  <2>1. Cpp!HandlerCall(e).what = Cpp!Handler(e).what /\ Cpp!HandlerCall(e).of = Cpp!Handler(e).of
    BY DEF Cpp!HandlerCall, Cpp!Handler, Cpp!Method, Cpp!Ref
  <2> QED
    BY <2>1, <1>6 DEF Of
<1>8. \A e : /\ Of(Cpp!Emitter(e), e) /\ Of(Cpp!Register(e), e)
             /\ Of(Cpp!Getter(e), e) /\ Of(Cpp!Cache(e), e)
  BY DEF Cpp!Emitter, Cpp!Register, Cpp!Getter, Cpp!Cache
<1>9. \A in, e, takes : Of(Cpp!QtSignal(in, e, takes), e)
  BY DEF Cpp!QtSignal
<1>10. \A e : Of(Cpp!QClientSignal(e), e) /\ Of(Cpp!Emission(e), e)
  BY <1>9 DEF Cpp!QClientSignal, Cpp!Emission
<1>11. \A in, e, qt : Of(Cpp!Defined(in, e, qt), e)
  BY DEF Cpp!Defined
<1>12. \A in, e : /\ Of(Cpp!CallbackType(in, e), e) /\ Of(Cpp!Registration(in, e), e)
                  /\ Of(Cpp!CallbackMember(in, e), e) /\ Of(Cpp!Invokable(in, e), e)
  BY DEF Cpp!CallbackType, Cpp!Registration, Cpp!CallbackMember, Cpp!Invokable
<1>13. \A e : \A r \in Cpp!DefinitionUses(e) : Of(r, e)
  <2> SUFFICES ASSUME NEW e, NEW r \in Cpp!DefinitionUses(e) PROVE Of(r, e)
    OBVIOUS
  <2>1. r \in Cpp!ParameterType(e) \cup Cpp!ReturnType(e) \/ r = Cpp!SenderCall(e)
    BY DEF Cpp!DefinitionUses
  <2> QED
    BY <2>1, <1>3, <1>6, Zenon
<1> QED
  BY <1>1, <1>2, <1>3, <1>4, <1>5, <1>6, <1>7, <1>8, <1>9, <1>10, <1>11, <1>12, <1>13

\* Which file sees which.
LEMMA SeenFiles ==
  \A p \in {<<"ClientTransport.inl", "Schema">>, <<"ClientTransport.inl", "ClientTransport.h">>,
            <<"Client.inl", "Client.h">>, <<"Client.inl", "Schema">>, <<"Client.inl", "ClientTransport.h">>,
            <<"Client.cpp", "Client.h">>, <<"Client.cpp", "Schema">>, <<"Client.cpp", "ClientTransport.h">>,
            <<"Server.h", "RpcIf.h">>, <<"Server.cpp", "Server.h">>, <<"Server.cpp", "Schema">>,
            <<"Server.cpp", "RpcIf.h">>, <<"QObjectClient.h", "QObjectClient.h">>,
            <<"QObjectClient.cpp", "QObjectClient.h">>, <<"QObjectClient.cpp", "Schema">>,
            <<"QObjectClient.cpp", "ClientTransport.h">>} :
    p \in Cpp!Sees
<1> DEFINE R == Cpp!Includes \cup {<<f, f>> : f \in Cpp!File}
           Q == Cpp!Composed(R)
<1>1. \A f \in Cpp!File : <<f, f>> \in R
  OBVIOUS
<1>2. \A p \in Cpp!Includes : p \in R
  OBVIOUS
<1> HIDE DEF R
<1>3. \A f, g, h \in Cpp!File : <<f, g>> \in R /\ <<g, h>> \in R => <<f, h>> \in Q
  BY DEF Cpp!Composed
<1>4. \A f \in Cpp!File : <<f, f>> \in Q
  BY <1>1, <1>3
<1>5. Cpp!Sees = Cpp!Composed(Q)
  BY DEF Cpp!Sees, R
<1> HIDE DEF Q
<1>6. \A f, h \in Cpp!File : <<f, h>> \in Q => <<f, h>> \in Cpp!Sees
  BY <1>4, <1>5 DEF Cpp!Composed
<1>7. \A f, g, h \in Cpp!File : <<f, g>> \in R /\ <<g, h>> \in R => <<f, h>> \in Cpp!Sees
  BY <1>3, <1>6
<1>8. \A f, h \in Cpp!File : <<f, h>> \in R => <<f, h>> \in Cpp!Sees
  BY <1>1, <1>7
<1>9. \A f \in Cpp!File : <<f, f>> \in Cpp!Sees
  BY <1>4, <1>6
<1>10. /\ "Schema" \in Cpp!File /\ "ClientTransport.h" \in Cpp!File /\ "ClientTransport.inl" \in Cpp!File
       /\ "Client.h" \in Cpp!File /\ "Client.inl" \in Cpp!File /\ "Client.cpp" \in Cpp!File
       /\ "RpcIf.h" \in Cpp!File /\ "Server.h" \in Cpp!File /\ "Server.cpp" \in Cpp!File
       /\ "QObjectClient.h" \in Cpp!File /\ "QObjectClient.cpp" \in Cpp!File
  BY OrderType
<1>11. /\ <<"ClientTransport.inl", "Schema">> \in R /\ <<"ClientTransport.inl", "ClientTransport.h">> \in R
       /\ <<"Client.inl", "Client.h">> \in R /\ <<"Client.h", "Schema">> \in R
       /\ <<"Client.h", "ClientTransport.h">> \in R /\ <<"Client.cpp", "Client.h">> \in R
       /\ <<"Server.h", "RpcIf.h">> \in R /\ <<"Server.h", "Schema">> \in R
       /\ <<"Server.cpp", "Server.h">> \in R /\ <<"QObjectClient.h", "Schema">> \in R
       /\ <<"QObjectClient.h", "ClientTransport.h">> \in R
       /\ <<"QObjectClient.cpp", "QObjectClient.h">> \in R
  BY <1>2 DEF Cpp!Includes
<1>12. /\ <<"ClientTransport.inl", "Schema">> \in Cpp!Sees
       /\ <<"ClientTransport.inl", "ClientTransport.h">> \in Cpp!Sees
       /\ <<"Client.inl", "Client.h">> \in Cpp!Sees /\ <<"Client.cpp", "Client.h">> \in Cpp!Sees
       /\ <<"Server.h", "RpcIf.h">> \in Cpp!Sees /\ <<"Server.cpp", "Server.h">> \in Cpp!Sees
       /\ <<"QObjectClient.cpp", "QObjectClient.h">> \in Cpp!Sees
       /\ <<"QObjectClient.h", "QObjectClient.h">> \in Cpp!Sees
  BY <1>8, <1>9, <1>10, <1>11
<1>13. /\ <<"Client.inl", "Schema">> \in Cpp!Sees /\ <<"Client.inl", "ClientTransport.h">> \in Cpp!Sees
       /\ <<"Client.cpp", "Schema">> \in Cpp!Sees /\ <<"Client.cpp", "ClientTransport.h">> \in Cpp!Sees
       /\ <<"Server.cpp", "Schema">> \in Cpp!Sees /\ <<"Server.cpp", "RpcIf.h">> \in Cpp!Sees
       /\ <<"QObjectClient.cpp", "Schema">> \in Cpp!Sees
       /\ <<"QObjectClient.cpp", "ClientTransport.h">> \in Cpp!Sees
  BY <1>7, <1>10, <1>11
<1> QED
  BY <1>12, <1>13

\* The files come in their order.
LEMMA EarlierRendered ==
  ASSUME InOrder, NEW j \in 1..11, NEW k \in 1..11, j <= k, Cpp!Order[k] \in Cpp!Rendered
  PROVE  Cpp!Order[j] \in Cpp!Rendered
<1>1. /\ Cpp!Order[1] = "Schema" /\ Cpp!Order[2] = "ClientTransport.h" /\ Cpp!Order[3] = "ClientTransport.inl"
      /\ Cpp!Order[4] = "Client.h" /\ Cpp!Order[5] = "Client.inl" /\ Cpp!Order[6] = "Client.cpp"
      /\ Cpp!Order[7] = "RpcIf.h" /\ Cpp!Order[8] = "Server.h" /\ Cpp!Order[9] = "Server.cpp"
      /\ Cpp!Order[10] = "QObjectClient.h" /\ Cpp!Order[11] = "QObjectClient.cpp"
  BY DEF Cpp!Order
<1>2. \A a, b \in 1..11 : Cpp!Order[a] = Cpp!Order[b] => a = b
  BY <1>1
<1>3. DOMAIN files = 1..Len(files) /\ Len(files) \in Nat /\ Len(files) <= 11
  BY LenProperties, OrderType DEF InOrder
<1>4. PICK i \in 1..Len(files) : files[i] = Cpp!Order[k]
  BY <1>3 DEF Cpp!Rendered
<1>5. i = k
  <2>1. files[i] = Cpp!Order[i] /\ i \in 1..11
    BY <1>3 DEF InOrder
  <2> QED
    BY <2>1, <1>2, <1>4
<1>6. j \in DOMAIN files /\ files[j] = Cpp!Order[j]
  BY <1>3, <1>5 DEF InOrder
<1> QED
  BY <1>6 DEF Cpp!Rendered

\* What each file has, entity by entity.
LEMMA SchemaHas ==
  ASSUME NEW r
  PROVE  r \in Cpp!SchemaDeclares <=>
           \/ \E s \in Cpp!Services : r = Cpp!ServiceNumber(s)
           \/ \E e \in Cpp!Rpcs : r \in Cpp!Coordinates(e) \/ r \in Cpp!ParameterType(e) \/ r \in Cpp!ReturnType(e)
           \/ \E e \in Cpp!Signals : r \in Cpp!SignalType(e)
BY DEF Cpp!SchemaDeclares

LEMMA ClientHas ==
  ASSUME NEW r
  PROVE  r \in Cpp!ClientDeclares <=>
           \/ \E e \in Cpp!Rpcs : r = Cpp!ClientMethod(e) \/ r \in Cpp!ClientReturn(e)
           \/ \E in \in Cpp!SignalClients : \E e \in Cpp!Signals :
                r = Cpp!CallbackType(in, e) \/ r = Cpp!Registration(in, e) \/ r = Cpp!CallbackMember(in, e)
           \/ r \in Cpp!ClientAlways
<1> DEFINE S == {Cpp!ClientMethod(e) : e \in Cpp!Rpcs}
           T == UNION {Cpp!ClientReturn(e) : e \in Cpp!Rpcs}
           U == UNION {{Cpp!CallbackType(in, e), Cpp!Registration(in, e), Cpp!CallbackMember(in, e)} :
                        in \in Cpp!SignalClients, e \in Cpp!Signals}
<1>1. r \in S \/ r \in T <=> \E e \in Cpp!Rpcs : r = Cpp!ClientMethod(e) \/ r \in Cpp!ClientReturn(e)
  OBVIOUS
<1>2. r \in U <=> \E in \in Cpp!SignalClients : \E e \in Cpp!Signals :
        r = Cpp!CallbackType(in, e) \/ r = Cpp!Registration(in, e) \/ r = Cpp!CallbackMember(in, e)
  <2> DEFINE A(in, e) == {Cpp!CallbackType(in, e), Cpp!Registration(in, e), Cpp!CallbackMember(in, e)}
  <2>1. \A in, e : r \in A(in, e) <=>
          r = Cpp!CallbackType(in, e) \/ r = Cpp!Registration(in, e) \/ r = Cpp!CallbackMember(in, e)
    OBVIOUS
  <2> HIDE DEF A
  <2>2. r \in UNION {A(in, e) : in \in Cpp!SignalClients, e \in Cpp!Signals} <=>
          \E in \in Cpp!SignalClients : \E e \in Cpp!Signals : r \in A(in, e)
    OBVIOUS
  <2>3. U = UNION {A(in, e) : in \in Cpp!SignalClients, e \in Cpp!Signals}
    BY DEF A
  <2> HIDE DEF U
  <2> QED
    BY <2>1, <2>2, <2>3
<1>3. r \in Cpp!ClientDeclares <=> r \in S \/ r \in T \/ r \in U \/ r \in Cpp!ClientAlways
  BY DEF Cpp!ClientDeclares
<1> QED
  BY <1>1, <1>2, <1>3

LEMMA InterfacesHave ==
  ASSUME NEW r
  PROVE  r \in Cpp!InterfacesDeclare <=>
           \/ \E s \in Cpp!RpcServices : r = Cpp!Interface(s)
           \/ \E e \in Cpp!Rpcs : r = Cpp!Handler(e) \/ r \in Cpp!ServerReturn(e)
BY DEF Cpp!InterfacesDeclare

LEMMA ServerHas ==
  ASSUME NEW r
  PROVE  /\ r \in Cpp!ServerDeclares <=>
              \/ \E s \in Cpp!RpcServices : r = Cpp!InterfaceMember(s)
              \/ \E e \in Cpp!Signals : r = Cpp!Emitter(e) \/ r = Cpp!Register(e)
              \/ r \in Cpp!WithSignals(Cpp!ServerSignals, Cpp!FixedOfSignals)
         /\ r \in Cpp!ServerDefines <=> \E e \in Cpp!Signals : r = Cpp!Emitter(e) \/ r = Cpp!Register(e)
BY DEF Cpp!ServerDeclares, Cpp!ServerDefines

LEMMA QtHas ==
  ASSUME NEW r
  PROVE  r \in Cpp!QtDeclares <=>
           \/ \E e \in Cpp!Rpcs : r \in Cpp!Gadget(e)
           \/ \E in \in {Cpp!QClientRpc, Cpp!QClient} : \E e \in Cpp!ValidForQt : r = Cpp!Invokable(in, e)
           \/ \E e \in Cpp!Signals :
                r = Cpp!QtSignal(Cpp!QClientSignals, e, Cpp!Parameters(e)) \/ r = Cpp!QClientSignal(e)
           \/ \E p \in Cpp!Props : r = Cpp!Getter(p) \/ r = Cpp!Cache(p)
           \/ r \in Cpp!QtAlways
BY DEF Cpp!QtDeclares

\* A member that is there for every interface.
IsFixed(r, in, names) == r.what = "member" /\ r.of = Cpp!Fixed /\ r.in = in /\ r.name \in names

LEMMA FixedMembers ==
  ASSUME NEW r, NEW in, NEW names,
         r \in Cpp!Always(in, names) \/ r \in Cpp!WithRpcs(in, names) \/ r \in Cpp!WithSignals(in, names)
  PROVE  IsFixed(r, in, names)
<1>1. r \in Cpp!Always(in, names)
  BY DEF Cpp!WithRpcs, Cpp!WithSignals
<1>2. PICK n \in names : r = Cpp!Member(in, n, Cpp!Fixed)
  BY <1>1 DEF Cpp!Always
<1> QED
  BY <1>2 DEF IsFixed, Cpp!Member, Cpp!Ref

LEMMA FixedOfClasses ==
  /\ \A r \in Cpp!ClientAlways :
       IsFixed(r, Cpp!ClientRpc, Cpp!FixedOfClient) \/ \E in \in Cpp!SignalClients : IsFixed(r, in, Cpp!FixedOfClient)
  /\ \A r \in Cpp!WithSignals(Cpp!ServerSignals, Cpp!FixedOfSignals) :
       IsFixed(r, Cpp!ServerSignals, Cpp!FixedOfSignals)
  /\ \A r \in Cpp!QtAlways :
       \/ IsFixed(r, Cpp!QClientSignals, Cpp!FixedOfQt) \/ IsFixed(r, Cpp!QClient, Cpp!FixedOfQt)
       \/ IsFixed(r, Cpp!QClient, {Cpp!Low("m_") \o h : h \in Cpp!Halves})
<1>1. ASSUME NEW r \in Cpp!ClientAlways
      PROVE  IsFixed(r, Cpp!ClientRpc, Cpp!FixedOfClient) \/ \E in \in Cpp!SignalClients : IsFixed(r, in, Cpp!FixedOfClient)
  <2>1. \/ IsFixed(r, Cpp!ClientRpc, {Cpp!Cap("Super")})
        \/ IsFixed(r, Cpp!Cap("ClientSignals"), Cpp!Handling)
        \/ IsFixed(r, Cpp!Cap("ClientSignalsThreaded"), Cpp!Receiving)
    BY FixedMembers DEF Cpp!ClientAlways
  <2> QED
    BY <2>1 DEF IsFixed, Cpp!FixedOfClient, Cpp!SignalClients
<1>2. \A r \in Cpp!WithSignals(Cpp!ServerSignals, Cpp!FixedOfSignals) :
        IsFixed(r, Cpp!ServerSignals, Cpp!FixedOfSignals)
  BY FixedMembers
<1>3. ASSUME NEW r \in Cpp!QtAlways
      PROVE  \/ IsFixed(r, Cpp!QClientSignals, Cpp!FixedOfQt) \/ IsFixed(r, Cpp!QClient, Cpp!FixedOfQt)
             \/ IsFixed(r, Cpp!QClient, {Cpp!Low("m_") \o h : h \in Cpp!Halves})
  <2>1. \/ IsFixed(r, Cpp!QClientSignals, Cpp!Handling)
        \/ IsFixed(r, Cpp!QClient, {Cpp!Low("registerMetaTypes")})
        \/ IsFixed(r, Cpp!QClient, {Cpp!Low("m_") \o Cpp!Low("qclientRpc")})
        \/ IsFixed(r, Cpp!QClient, {Cpp!Low("m_") \o Cpp!Low("qclientSignals")})
    BY FixedMembers DEF Cpp!QtAlways
  <2> QED
    BY <2>1 DEF IsFixed, Cpp!FixedOfQt, Cpp!Halves
<1> QED
  BY <1>1, <1>2, <1>3

LEMMA ClientDefinesThem ==
  ASSUME NEW r
  PROVE  r \in Cpp!ClientDefines <=>
           \/ \E e \in Cpp!Rpcs : e \notin Cpp!Templates /\ r = Cpp!Defined(Cpp!ClientRpc, e, FALSE)
           \/ \E in \in Cpp!SignalClients : \E e \in Cpp!Signals : r = Cpp!Registration(in, e)
BY DEF Cpp!ClientDefines

LEMMA QtDefinesThem ==
  ASSUME NEW r
  PROVE  r \in Cpp!QtDefines <=>
           \/ \E in \in {Cpp!QClientRpc, Cpp!QClient} : \E e \in Cpp!ValidForQt : r = Cpp!Defined(in, e, TRUE)
           \/ \E p \in Cpp!Props : r = Cpp!Getter(p)
BY DEF Cpp!QtDefines

LEMMA ClientUsesThem ==
  ASSUME NEW r \in Cpp!ClientUses
  PROVE  \/ \E e \in Cpp!Rpcs : r \in Cpp!DefinitionUses(e) \/ r \in Cpp!ClientReturn(e)
         \/ \E in \in Cpp!SignalClients : \E e \in Cpp!Signals :
              r = Cpp!CallbackType(in, e) \/ r = Cpp!CallbackMember(in, e)
         \/ \E e \in Cpp!Signals :
              \/ r \in Cpp!SignalType(e)
              \/ r = Cpp!Topic(Cpp!SignalMethodName(e), e) \/ r = Cpp!Topic(Cpp!SignalKeyName(e), e)
BY DEF Cpp!ClientUses

LEMMA ServerUsesThem ==
  ASSUME NEW r \in Cpp!ServerUses
  PROVE  \/ \E s \in Cpp!RpcServices : r = Cpp!InterfaceMember(s)
         \/ \E e \in Cpp!Rpcs : \/ r \in Cpp!Coordinates(e) \/ r \in Cpp!ParameterType(e)
                                \/ r \in Cpp!ReturnType(e) \/ r = Cpp!HandlerCall(e)
         \/ \E e \in Cpp!Signals : r \in Cpp!SignalType(e) \/ r = Cpp!Topic(Cpp!SignalKeyName(e), e)
BY DEF Cpp!ServerUses

LEMMA QtUsesThem ==
  ASSUME NEW r \in Cpp!QtUses
  PROVE  \/ \E e \in Cpp!ValidForQt :
              \/ r \in Cpp!DefinitionUses(e)
              \/ r = Cpp!Method(Cpp!QClientRpc, Cpp!PublicMethodNameQt(e), Cpp!Parameters(e), e)
         \/ \E e \in Cpp!Rpcs : r \in Cpp!Gadget(e)
         \/ \E e \in Cpp!Signals :
              \/ r = Cpp!Topic(Cpp!SignalMethodName(e), e) \/ r = Cpp!Topic(Cpp!SignalKeyName(e), e)
              \/ r \in Cpp!SignalType(e) \/ r \in Cpp!Connection(e) \/ r = Cpp!Emission(e)
         \/ \E p \in Cpp!Props : r = Cpp!Cache(p)
BY DEF Cpp!QtUses

-----------------------------------------------------------------------------
(* What the files have was made of the interface.                          *)

Origin == iface \cup {Cpp!Service(s) : s \in Cpp!Services} \cup {Cpp!Fixed}
Belong(refs) == \A r \in refs : r.of \in Origin

LEMMA ContentsBelong ==
  ASSUME CppInv, NEW f
  PROVE  Belong(Declares(f)) /\ Belong(Defines(f)) /\ Belong(Uses(f))
<1>1. Cpp!Rpcs \subseteq iface /\ Cpp!Signals \subseteq iface /\ Cpp!Props \subseteq iface
      /\ Cpp!Templates \subseteq iface /\ Cpp!ValidForQt \subseteq iface
      /\ Cpp!RpcServices \subseteq Cpp!Services
  BY DEF Cpp!Rpcs, Cpp!Signals, Cpp!Props, Cpp!Templates, Cpp!ValidForQt, Cpp!RpcServices, Cpp!Services
<1>2. ASSUME NEW r, NEW e \in iface, Of(r, e) PROVE r.of \in Origin
  BY <1>2 DEF Of, Origin, Cpp!Services
<1>3. \A s \in Cpp!Services : Cpp!Service(s) \in Origin
  BY DEF Origin
<1>4. \A s \in Cpp!Services : /\ Cpp!ServiceNumber(s).of \in Origin /\ Cpp!Interface(s).of \in Origin
                              /\ Cpp!InterfaceMember(s).of \in Origin
  BY <1>3, MadeOf
<1>5. \A e \in iface : Cpp!Topic(Cpp!SignalKeyName(e), e).of \in Origin /\ Cpp!Topic(Cpp!SignalMethodName(e), e).of \in Origin
  BY DEF Cpp!Topic, Cpp!Ref, Origin
<1>6. /\ Belong(Cpp!ClientAlways) /\ Belong(Cpp!QtAlways)
      /\ Belong(Cpp!WithSignals(Cpp!ServerSignals, Cpp!FixedOfSignals))
  BY FixedOfClasses DEF IsFixed, Belong, Origin
<1>7. \A e \in iface :
        /\ Belong(Cpp!Coordinates(e)) /\ Belong(Cpp!ParameterType(e) \cup Cpp!ReturnType(e))
        /\ Belong(Cpp!SignalType(e) \cup Cpp!ClientReturn(e)) /\ Belong(Cpp!ServerReturn(e) \cup Cpp!Gadget(e))
        /\ Belong(Cpp!DefinitionUses(e))
  BY <1>2, MadeOf DEF Belong
<1>8. \A e \in iface :
        /\ Cpp!Sender(e).of \in Origin /\ Cpp!SenderCall(e).of \in Origin /\ Cpp!ClientMethod(e).of \in Origin
        /\ Cpp!Handler(e).of \in Origin /\ Cpp!HandlerCall(e).of \in Origin
        /\ Cpp!Emitter(e).of \in Origin /\ Cpp!Register(e).of \in Origin
        /\ Cpp!Getter(e).of \in Origin /\ Cpp!Cache(e).of \in Origin
        /\ Cpp!QClientSignal(e).of \in Origin /\ Cpp!Emission(e).of \in Origin
  BY <1>2, MadeOf
<1>9. \A e \in iface : \A in :
        /\ Cpp!Defined(in, e, TRUE).of \in Origin /\ Cpp!Defined(in, e, FALSE).of \in Origin
        /\ Cpp!CallbackType(in, e).of \in Origin /\ Cpp!Registration(in, e).of \in Origin
        /\ Cpp!CallbackMember(in, e).of \in Origin /\ Cpp!Invokable(in, e).of \in Origin
  BY <1>2, MadeOf
<1>10. \A e \in iface : \A in, takes : Cpp!QtSignal(in, e, takes).of \in Origin
  BY <1>2, MadeOf
<1>11. Belong(Cpp!SchemaDeclares)
  BY <1>1, <1>4, <1>7, SchemaHas DEF Belong
<1>12. Belong(Cpp!Senders) /\ Belong(Topics)
  BY <1>1, <1>5, <1>8 DEF Cpp!Senders, Topics, Belong
<1>13. Belong(Cpp!ClientDeclares)
  BY <1>1, <1>6, <1>7, <1>8, <1>9, ClientHas DEF Belong
<1>14. Belong(Cpp!InterfacesDeclare)
  BY <1>1, <1>4, <1>7, <1>8, InterfacesHave DEF Belong
<1>15. Belong(Cpp!ServerDeclares) /\ Belong(Cpp!ServerDefines)
  BY <1>1, <1>4, <1>6, <1>8, ServerHas DEF Belong
<1>16. Belong(Cpp!QtDeclares)
  BY <1>1, <1>6, <1>7, <1>8, <1>9, <1>10, QtHas DEF Belong
<1>17. Belong(TemplatesDefined)
  BY <1>1, <1>9 DEF TemplatesDefined, Belong
<1>18. Belong(Cpp!ClientDefines)
  BY <1>1, <1>9, ClientDefinesThem DEF Belong
<1>19. Belong(Cpp!QtDefines)
  BY <1>1, <1>8, <1>9, QtDefinesThem DEF Belong
<1>20. /\ Belong(UNION {Cpp!Coordinates(e) : e \in Cpp!Rpcs})
       /\ Belong(UNION {Cpp!DefinitionUses(e) : e \in Cpp!Templates})
       /\ Belong({Cpp!Interface(s) : s \in Cpp!RpcServices})
  BY <1>1, <1>4, <1>7 DEF Belong
<1>21. Belong(Cpp!ClientUses)
  BY <1>1, <1>5, <1>7, <1>9, ClientUsesThem DEF Belong
<1>22. Belong(Cpp!ServerUses)
  BY <1>1, <1>4, <1>5, <1>7, <1>8, ServerUsesThem DEF Belong
<1>23. Belong(UNION {Cpp!QPropertyUses(p) : p \in Cpp!Props})
  <2> SUFFICES ASSUME NEW p \in Cpp!Props, NEW r \in Cpp!QPropertyUses(p) PROVE r.of \in Origin
    BY DEF Belong
  <2>1. CASE r = Cpp!Getter(p)
    BY <2>1, <1>1, <1>8
  <2>2. CASE r = Cpp!Ref("signal", Cpp!QClient, Cpp!NotificationName(p), <<>>, Cpp!ChangedSignal(p))
    <3>1. r.of = Cpp!ChangedSignal(p)
      BY <2>2 DEF Cpp!Ref
    <3> QED
      BY <3>1 DEF CppInv, PropertiesLowered, Origin
  <2>3. CASE p.access # "read-only" /\ r = Cpp!Method(Cpp!QClient, Cpp!SetterName(p), <<"val">>, Cpp!SetRpc(p))
    <3>1. r.of = Cpp!SetRpc(p)
      BY <2>3 DEF Cpp!Method, Cpp!Ref
    <3> QED
      BY <3>1, <2>3 DEF CppInv, PropertiesLowered, Origin
  <2> QED
    BY <2>1, <2>2, <2>3 DEF Cpp!QPropertyUses
<1>24. Belong(Cpp!QtUses)
  <2>1. \A e \in Cpp!Signals : Belong(Cpp!Connection(e))
    BY <1>1, <1>8, <1>10 DEF Cpp!Connection, Cpp!PropertyOf, Belong
  <2>2. \A e \in Cpp!ValidForQt : Cpp!Method(Cpp!QClientRpc, Cpp!PublicMethodNameQt(e), Cpp!Parameters(e), e).of \in Origin
    BY <1>1, <1>2, Refs
  <2> QED
    BY <1>1, <1>5, <1>7, <1>8, <2>1, <2>2, QtUsesThem DEF Belong
<1>25. Belong({})
  BY DEF Belong
<1>26. Belong(Declares(f))
  BY <1>11, <1>12, <1>13, <1>14, <1>15, <1>16, <1>25 DEF Declares
<1>27. Belong(Defines(f))
  BY <1>12, <1>15, <1>17, <1>18, <1>19, <1>25 DEF Defines
<1>28. Belong(Uses(f))
  BY <1>20, <1>21, <1>22, <1>23, <1>24, <1>25 DEF Uses
<1> QED
  BY <1>26, <1>27, <1>28

LEMMA CppTypeOK ==
  ASSUME CppInv PROVE Cpp!TypeOK
<1>1. files = SubSeq(Cpp!Order, 1, Len(files))
  <2> DEFINE n == Len(files)
             s == SubSeq(Cpp!Order, 1, n)
  <2>1. n \in Nat /\ n <= 11 /\ files \in Seq(Cpp!File) /\ \A k \in 1..n : files[k] = Cpp!Order[k]
    BY OrderType, LenProperties DEF CppInv, InOrder
  <2>2. \A k \in 1..n : Cpp!Order[k] \in Cpp!File
    BY <2>1, OrderType, ElementOfSeq
  <2> HIDE DEF n
  <2>3. /\ s \in Seq(Cpp!File) /\ Len(s) = n
        /\ \A k \in 1..n : s[k] = Cpp!Order[k]
    <3>1. /\ s \in Seq(Cpp!File) /\ Len(s) = IF 1 <= n THEN n - 1 + 1 ELSE 0
          /\ \A k \in 1..(n - 1 + 1) : s[k] = Cpp!Order[1 + k - 1]
      BY <2>1, <2>2, SubSeqProperties
    <3> QED
      BY <3>1, <2>1
  <2> HIDE DEF s
  <2>4. Len(files) = n
    BY DEF n
  <2>5. files = s
    BY <2>1, <2>3, <2>4, SeqEqual
  <2> QED
    BY <2>5 DEF s, n
<1>2. ASSUME NEW f \in Cpp!File, f \notin Cpp!Rendered
      PROVE  declared[f] \cup defined[f] \cup used[f] = {}
  BY <1>2 DEF CppInv
<1>3. ASSUME NEW f \in Cpp!File, NEW r \in declared[f] \cup defined[f] \cup used[f]
      PROVE  r.of \in Origin
  <2>1. r \in Declares(f) \cup Defines(f) \cup Uses(f)
    BY <1>3 DEF CppInv
  <2> QED
    BY <2>1, ContentsBelong DEF Belong
<1> QED
  BY <1>1, <1>2, <1>3 DEF Cpp!TypeOK, Origin

\* What is declared in a file that is rendered and seen resolves what a file has.
LEMMA Found ==
  ASSUME CppInv, NEW f, NEW g \in Cpp!Rendered, <<f, g>> \in Cpp!Sees,
         NEW r \in Declares(g), r.what # "topic"
  PROVE  Cpp!Resolved(f, r)
<1>1. g \in Cpp!File
  <2>1. DOMAIN files = 1..Len(files) /\ files \in Seq(Cpp!File)
    BY LenProperties DEF CppInv, InOrder
  <2> QED
    BY <2>1, ElementOfSeq DEF Cpp!Rendered
<1>2. declared[g] = Declares(g)
  BY <1>1 DEF CppInv
<1> QED
  BY <1>1, <1>2 DEF Cpp!Resolved

LEMMA FoundTopic ==
  ASSUME CppInv, NEW f, NEW r \in Topics, r.what = "topic"
  PROVE  Cpp!Resolved(f, r)
<1>1. Cpp!Done => declared["Server.cpp"] = Topics
  BY OrderType DEF CppInv, Cpp!Done, Declares
<1> QED
  BY <1>1 DEF Cpp!Resolved

-----------------------------------------------------------------------------
(* What is declared is what is used and defined.                           *)

IsMethod(r, in, e) == r.what = "method" /\ r.in = in /\ r.of = e

LEMMA AnyMethod ==
  ASSUME NEW in, NEW name, NEW takes, NEW e
  PROVE  IsMethod(Cpp!Method(in, name, takes, e), in, e)
BY DEF Cpp!Method, Cpp!Ref, IsMethod

LEMMA Methods ==
  /\ \A e : /\ IsMethod(Cpp!Sender(e), Cpp!Transport, e) /\ IsMethod(Cpp!ClientMethod(e), Cpp!ClientRpc, e)
            /\ IsMethod(Cpp!Handler(e), Cpp!RpcIfType(e.service), e)
            /\ IsMethod(Cpp!HandlerCall(e), Cpp!RpcIfType(e.service), e)
            /\ IsMethod(Cpp!Emitter(e), Cpp!ServerSignals, e) /\ IsMethod(Cpp!Register(e), Cpp!ServerSignals, e)
            /\ IsMethod(Cpp!Getter(e), Cpp!QClient, e)
  /\ \A in, e : /\ IsMethod(Cpp!Registration(in, e), in, e) /\ IsMethod(Cpp!Invokable(in, e), in, e)
                /\ IsMethod(Cpp!Defined(in, e, TRUE), in, e) /\ IsMethod(Cpp!Defined(in, e, FALSE), in, e)
<1>1. \A e : IsMethod(Cpp!Sender(e), Cpp!Transport, e) /\ IsMethod(Cpp!ClientMethod(e), Cpp!ClientRpc, e)
  BY AnyMethod DEF Cpp!Sender, Cpp!ClientMethod
<1>2. \A e : IsMethod(Cpp!Handler(e), Cpp!RpcIfType(e.service), e)
  BY AnyMethod DEF Cpp!Handler
<1>3. ASSUME NEW e PROVE IsMethod(Cpp!HandlerCall(e), Cpp!RpcIfType(e.service), e)
  <2>1. /\ Cpp!HandlerCall(e).what = Cpp!Handler(e).what /\ Cpp!HandlerCall(e).in = Cpp!Handler(e).in
        /\ Cpp!HandlerCall(e).of = Cpp!Handler(e).of
    BY DEF Cpp!HandlerCall, Cpp!Handler, Cpp!Method, Cpp!Ref
  <2> QED
    BY <2>1, <1>2 DEF IsMethod
<1>4. \A e : /\ IsMethod(Cpp!Emitter(e), Cpp!ServerSignals, e) /\ IsMethod(Cpp!Register(e), Cpp!ServerSignals, e)
             /\ IsMethod(Cpp!Getter(e), Cpp!QClient, e)
  BY AnyMethod DEF Cpp!Emitter, Cpp!Register, Cpp!Getter
<1>5. \A in, e : IsMethod(Cpp!Registration(in, e), in, e) /\ IsMethod(Cpp!Invokable(in, e), in, e)
  BY AnyMethod DEF Cpp!Registration, Cpp!Invokable
<1>6. \A in, e : IsMethod(Cpp!Defined(in, e, TRUE), in, e) /\ IsMethod(Cpp!Defined(in, e, FALSE), in, e)
  BY AnyMethod DEF Cpp!Defined
<1> QED
  BY <1>1, <1>2, <1>3, <1>4, <1>5, <1>6

LEMMA SenderCalled ==
  ASSUME NEW e PROVE Cpp!SenderCall(e) = Cpp!Sender(e)
BY DEF Cpp!SenderCall, Cpp!Sender, Cpp!ProtectedMethodName, Cpp!PublicMethodName, Cpp!RpcMethodName

LEMMA SignalNamed ==
  ASSUME NEW e PROVE Cpp!Topic(Cpp!SignalMethodName(e), e) = Cpp!Topic(Cpp!SignalKeyName(e), e)
BY DEF Cpp!SignalMethodName, Cpp!SignalKeyName

Alone(e) == e.parameter = "void" /\ e.returns = "native"

\* The comma is where it has to be unless there is nothing in front of it.
LEMMA Commas ==
  ASSUME NEW e, e.returns = "native", ~Alone(e), NEW more
  PROVE  /\ Cpp!WithMore(Cpp!Parameters(e), more) = Cpp!Parameters(e) \o <<",", more>>
         /\ Cpp!WithMore(Cpp!Received(e), more) = Cpp!Received(e) \o <<",", more>>
<1>1. Cpp!Parameters(e) \in {<<"arguments">>, <<"val">>, <<"builder">>}
  BY DEF Cpp!Parameters, Alone
<1>2. Cpp!Received(e) \in {<<"arguments">>, <<"val">>, <<"builder">>, <<"reader">>}
  BY <1>1 DEF Cpp!Received
<1>3. ASSUME NEW x PROVE Cpp!WithMore(<<x>>, more) = <<x>> \o <<",", more>>
  <2>1. <<x>> # <<>>
    OBVIOUS
  <2> QED
    BY <2>1 DEF Cpp!WithMore
<1> QED
  BY <1>1, <1>2, <1>3

LEMMA ClientMethodDefined ==
  ASSUME NEW e, ~Alone(e)
  PROVE  Cpp!Defined(Cpp!ClientRpc, e, FALSE) = Cpp!ClientMethod(e)
<1>1. Cpp!HeadName(e, FALSE) = Cpp!RpcMethodName(e)
  BY DEF Cpp!HeadName, Cpp!PublicMethodName, Cpp!RpcMethodName
<1>2. (IF e.returns = "native" THEN Cpp!WithMore(Cpp!Parameters(e), "callback") ELSE Cpp!Parameters(e))
      = IF e.returns = "native" THEN Cpp!Parameters(e) \o <<",", "callback">> ELSE Cpp!Parameters(e)
  BY Commas
<1> QED
  BY <1>1, <1>2, Zenon DEF Cpp!Defined, Cpp!ClientMethod

LEMMA HandlerCalled ==
  ASSUME NEW e, ~Alone(e)
  PROVE  Cpp!HandlerCall(e) = Cpp!Handler(e)
<1> DEFINE takes == IF e.returns = "native" THEN Cpp!WithMore(Cpp!Received(e), "writer") ELSE Cpp!Received(e)
           called == IF e.returns = "native" THEN Cpp!Received(e) \o <<",", "writer">> ELSE Cpp!Received(e)
           h == Cpp!Method(Cpp!RpcIfType(e.service), e.name, takes, e)
<1>1. called = takes
  BY Commas
<1>2. Cpp!Handler(e) = h /\ Cpp!HandlerCall(e) = [h EXCEPT !.takes = called]
  BY Zenon DEF Cpp!Handler, Cpp!HandlerCall
<1> HIDE DEF takes, called
<1>3. [h EXCEPT !.takes = takes] = h
  BY DEF Cpp!Method, Cpp!Ref
<1> QED
  BY <1>1, <1>2, <1>3

LEMMA QtMethodDefined ==
  ASSUME NEW e \in Cpp!Entity, NEW in, e.returns # "native",
         ~(e.service = Cpp!Main /\ e.name = Cpp!Upperfirst(e.name))
  PROVE  Cpp!Defined(in, e, TRUE) = Cpp!Invokable(in, e)
<1>1. Cpp!HeadName(e, TRUE) = Cpp!RpcMethodNameQt(e)
  BY QtMethodNames
<1> QED
  BY <1>1 DEF Cpp!Defined, Cpp!Invokable

LEMMA QtMethodCalled ==
  ASSUME NEW e
  PROVE  Cpp!Method(Cpp!QClientRpc, Cpp!PublicMethodNameQt(e), Cpp!Parameters(e), e) = Cpp!Invokable(Cpp!QClientRpc, e)
BY DEF Cpp!Invokable, Cpp!PublicMethodNameQt, Cpp!RpcMethodNameQt

LEMMA SetterDeclared ==
  ASSUME NEW p \in Cpp!Entity
  PROVE  /\ Cpp!Method(Cpp!QClient, Cpp!SetterName(p), <<"val">>, Cpp!SetRpc(p))
              = Cpp!Invokable(Cpp!QClient, Cpp!SetRpc(p))
         /\ Cpp!SetRpc(p) \in iface => Cpp!SetRpc(p) \in Cpp!ValidForQt
<1>1. Cpp!SetRpc(p).kind = "rpc" /\ Cpp!SetRpc(p).parameter = "value" /\ Cpp!SetRpc(p).returns = "void"
  BY DEF Cpp!SetRpc, Cpp!Rpc
<1>2. Cpp!Parameters(Cpp!SetRpc(p)) = <<"val">>
  BY <1>1 DEF Cpp!Parameters
<1>3. Cpp!SetterName(p) = Cpp!RpcMethodNameQt(Cpp!SetRpc(p))
  BY PropertyNames
<1>4. Cpp!SetRpc(p) \in iface => Cpp!SetRpc(p) \in Cpp!ValidForQt
  BY <1>1 DEF Cpp!ValidForQt, Cpp!Rpcs
<1> QED
  BY <1>2, <1>3, <1>4 DEF Cpp!Invokable

LEMMA NotificationDeclared ==
  ASSUME NEW p \in Cpp!Props, p \in Cpp!Entity, p.name # Cpp!Upperfirst(p.name)
  PROVE  /\ Cpp!Ref("signal", Cpp!QClient, Cpp!NotificationName(p), <<>>, Cpp!ChangedSignal(p))
              = Cpp!QClientSignal(Cpp!ChangedSignal(p))
         /\ Cpp!ChangedSignal(p) \in iface => Cpp!ChangedSignal(p) \in Cpp!Signals
<1> DEFINE c == Cpp!ChangedSignal(p)
<1>1. c.kind = "signal" /\ c.service = p.service
  BY DEF Cpp!ChangedSignal, Cpp!Signal
<1>2. Cpp!NotificationName(p) = Cpp!SignalMethodNameQt(c) /\ Cpp!WithoutChanged(c.name) = p.name
  BY PropertyNames
<1> HIDE DEF c
<1>3. p \in Cpp!PropertyOf(c)
  BY <1>1, <1>2 DEF Cpp!PropertyOf
<1>4. Cpp!QClientSignal(c) = Cpp!QtSignal(Cpp!QClient, c, <<>>)
  BY <1>3 DEF Cpp!QClientSignal
<1>5. c \in iface => c \in Cpp!Signals
  BY <1>1 DEF Cpp!Signals
<1> QED
  BY <1>2, <1>4, <1>5 DEF c, Cpp!QtSignal

\* What a file sees was rendered before it.
LEMMA Visible ==
  ASSUME CppInv
  PROVE  /\ "ClientTransport.inl" \in Cpp!Rendered => {"Schema", "ClientTransport.h"} \subseteq Cpp!Rendered
         /\ "Client.inl" \in Cpp!Rendered => {"Schema", "ClientTransport.h", "Client.h"} \subseteq Cpp!Rendered
         /\ "Client.cpp" \in Cpp!Rendered => {"Schema", "ClientTransport.h", "Client.h"} \subseteq Cpp!Rendered
         /\ "Server.h" \in Cpp!Rendered => "RpcIf.h" \in Cpp!Rendered
         /\ "Server.cpp" \in Cpp!Rendered => {"Schema", "RpcIf.h", "Server.h"} \subseteq Cpp!Rendered
         /\ "QObjectClient.cpp" \in Cpp!Rendered =>
              {"Schema", "ClientTransport.h", "QObjectClient.h"} \subseteq Cpp!Rendered
<1>1. \A j, k \in 1..11 : j <= k /\ Cpp!Order[k] \in Cpp!Rendered => Cpp!Order[j] \in Cpp!Rendered
  BY EarlierRendered DEF CppInv
<1>2. /\ Cpp!Order[1] = "Schema" /\ Cpp!Order[2] = "ClientTransport.h" /\ Cpp!Order[3] = "ClientTransport.inl"
      /\ Cpp!Order[4] = "Client.h" /\ Cpp!Order[5] = "Client.inl" /\ Cpp!Order[6] = "Client.cpp"
      /\ Cpp!Order[7] = "RpcIf.h" /\ Cpp!Order[8] = "Server.h" /\ Cpp!Order[9] = "Server.cpp"
      /\ Cpp!Order[10] = "QObjectClient.h" /\ Cpp!Order[11] = "QObjectClient.cpp"
  BY DEF Cpp!Order
<1>3. \A n \in 1..11 : Cpp!Order[n] \in Cpp!Rendered => Cpp!Order[1] \in Cpp!Rendered
  BY <1>1
<1>4. \A n \in 2..11 : Cpp!Order[n] \in Cpp!Rendered => Cpp!Order[2] \in Cpp!Rendered
  BY <1>1
<1>5. \A n \in 4..11 : Cpp!Order[n] \in Cpp!Rendered => Cpp!Order[4] \in Cpp!Rendered
  BY <1>1
<1>6. \A n \in 7..11 : Cpp!Order[n] \in Cpp!Rendered => Cpp!Order[7] \in Cpp!Rendered
  BY <1>1
<1>7. /\ Cpp!Order[9] \in Cpp!Rendered => Cpp!Order[8] \in Cpp!Rendered
      /\ Cpp!Order[11] \in Cpp!Rendered => Cpp!Order[10] \in Cpp!Rendered
  BY <1>1
<1> QED
  BY <1>2, <1>3, <1>4, <1>5, <1>6, <1>7

\* A schema's types, a transport's senders.
LEMMA DefinitionResolved ==
  ASSUME CppInv, NEW f, <<f, "Schema">> \in Cpp!Sees, <<f, "ClientTransport.h">> \in Cpp!Sees,
         {"Schema", "ClientTransport.h"} \subseteq Cpp!Rendered,
         NEW e \in Cpp!Rpcs, NEW r \in Cpp!DefinitionUses(e)
  PROVE  Cpp!Resolved(f, r)
<1>1. r.what # "topic"
  BY MadeOf DEF Of
<1>2. CASE r \in Cpp!ParameterType(e) \cup Cpp!ReturnType(e)
  <2>1. r \in Declares("Schema")
    BY <1>2, SchemaHas DEF Declares
  <2> QED
    BY <2>1, <1>1, Found
<1>3. CASE r = Cpp!SenderCall(e)
  <2>1. r \in Declares("ClientTransport.h")
    BY <1>3, SenderCalled DEF Declares, Cpp!Senders
  <2> QED
    BY <2>1, <1>1, Found
<1> QED
  BY <1>2, <1>3 DEF Cpp!DefinitionUses

LEMMA TypeResolved ==
  ASSUME CppInv, NEW f, <<f, "Schema">> \in Cpp!Sees, "Schema" \in Cpp!Rendered, NEW r,
         \/ \E e \in Cpp!Rpcs : r \in Cpp!Coordinates(e) \/ r \in Cpp!ParameterType(e) \/ r \in Cpp!ReturnType(e)
         \/ \E e \in Cpp!Signals : r \in Cpp!SignalType(e)
  PROVE  Cpp!Resolved(f, r)
<1>1. r.what # "topic"
  BY MadeOf DEF Of
<1>2. r \in Declares("Schema")
  BY SchemaHas DEF Declares
<1> QED
  BY <1>1, <1>2, Found

LEMMA TopicResolved ==
  ASSUME CppInv, NEW f, NEW e \in Cpp!Signals, NEW r,
         r = Cpp!Topic(Cpp!SignalMethodName(e), e) \/ r = Cpp!Topic(Cpp!SignalKeyName(e), e)
  PROVE  Cpp!Resolved(f, r)
<1>1. r = Cpp!Topic(Cpp!SignalKeyName(e), e)
  BY SignalNamed
<1>2. r \in Topics /\ r.what = "topic"
  BY <1>1 DEF Topics, Cpp!Topic, Cpp!Ref
<1> QED
  BY <1>2, FoundTopic

Fine(f, r) ==
  \/ Cpp!Resolved(f, r)
  \/ Cpp!CommaAlone(r) \/ Cpp!Unbound(r) \/ Cpp!LosesCapital(r) \/ Cpp!WrongMessage(r) \/ Cpp!NoValue(r)

LEMMA RpcsAreKnown ==
  ASSUME CppInv
  PROVE  /\ \A e \in Cpp!Rpcs : e \in Cpp!Entity /\ e.kind = "rpc"
         /\ Cpp!ValidForQt \subseteq Cpp!Rpcs /\ Cpp!Templates \subseteq Cpp!Rpcs
         /\ \A p \in Cpp!Props : p \in Cpp!Entity
BY DEF CppInv, Cpp!Rpcs, Cpp!ValidForQt, Cpp!Templates, Cpp!Props

LEMMA TransportInlineFine ==
  ASSUME CppInv, "ClientTransport.inl" \in Cpp!Rendered,
         NEW r \in Uses("ClientTransport.inl") \cup Defines("ClientTransport.inl")
  PROVE  Fine("ClientTransport.inl", r)
<1> DEFINE f == "ClientTransport.inl"
<1>1. <<f, "Schema">> \in Cpp!Sees /\ <<f, "ClientTransport.h">> \in Cpp!Sees
  BY SeenFiles
<1>2. "Schema" \in Cpp!Rendered /\ "ClientTransport.h" \in Cpp!Rendered
  BY Visible
<1>3. CASE \E e \in Cpp!Rpcs : r \in Cpp!Coordinates(e)
  BY <1>1, <1>2, <1>3, TypeResolved DEF Fine
<1>4. CASE r \in Cpp!Senders
  <2>1. r.what # "topic"
    <3>1. PICK e \in Cpp!Rpcs : r = Cpp!Sender(e)
      BY <1>4 DEF Cpp!Senders
    <3>2. Of(Cpp!Sender(e), e)
      BY ONLY MadeOf, Zenon
    <3> QED
      BY ONLY <3>1, <3>2 DEF Of
  <2>2. r \in Declares("ClientTransport.h")
    BY <1>4 DEF Declares
  <2> QED
    BY <2>1, <2>2, <1>1, <1>2, Found DEF Fine
<1> QED
  BY <1>3, <1>4 DEF Uses, Defines

LEMMA ClientDefinedFine ==
  ASSUME CppInv, NEW f, <<f, "Client.h">> \in Cpp!Sees, "Client.h" \in Cpp!Rendered,
         NEW e \in Cpp!Rpcs, NEW r, r = Cpp!Defined(Cpp!ClientRpc, e, FALSE)
  PROVE  Fine(f, r)
<1>1. r.what = "method" /\ r.of = e
  <2>1. IsMethod(r, Cpp!ClientRpc, e)
    BY Methods, Zenon
  <2> QED
    BY <2>1 DEF IsMethod
<1>2. CASE Alone(e)
  BY <1>1, <1>2, RpcsAreKnown DEF Fine, Cpp!CommaAlone, Alone
<1>3. CASE ~Alone(e)
  <2>1. r = Cpp!ClientMethod(e)
    BY <1>3, ClientMethodDefined
  <2>2. r \in Declares("Client.h")
    BY <2>1, ClientHas DEF Declares
  <2> QED
    BY <2>2, <1>1, Found DEF Fine
<1> QED
  BY <1>2, <1>3

LEMMA ClientInlineFine ==
  ASSUME CppInv, "Client.inl" \in Cpp!Rendered, NEW r \in Uses("Client.inl") \cup Defines("Client.inl")
  PROVE  Fine("Client.inl", r)
<1> DEFINE f == "Client.inl"
<1>1. <<f, "Schema">> \in Cpp!Sees /\ <<f, "ClientTransport.h">> \in Cpp!Sees /\ <<f, "Client.h">> \in Cpp!Sees
  BY SeenFiles
<1>2. {"Schema", "ClientTransport.h"} \subseteq Cpp!Rendered /\ "Client.h" \in Cpp!Rendered
  BY Visible
<1>3. CASE \E e \in Cpp!Templates : r \in Cpp!DefinitionUses(e)
  BY <1>1, <1>2, <1>3, RpcsAreKnown, DefinitionResolved DEF Fine
<1>4. CASE \E e \in Cpp!Templates : r = Cpp!Defined(Cpp!ClientRpc, e, FALSE)
  BY <1>1, <1>2, <1>4, RpcsAreKnown, ClientDefinedFine
<1> QED
  BY <1>3, <1>4 DEF Uses, Defines, TemplatesDefined

LEMMA ClientSourceFine ==
  ASSUME CppInv, "Client.cpp" \in Cpp!Rendered, NEW r \in Uses("Client.cpp") \cup Defines("Client.cpp")
  PROVE  Fine("Client.cpp", r)
<1> DEFINE f == "Client.cpp"
<1>1. <<f, "Schema">> \in Cpp!Sees /\ <<f, "ClientTransport.h">> \in Cpp!Sees /\ <<f, "Client.h">> \in Cpp!Sees
  BY SeenFiles
<1>2. {"Schema", "ClientTransport.h"} \subseteq Cpp!Rendered /\ "Client.h" \in Cpp!Rendered
  BY Visible
<1>3. CASE \E e \in Cpp!Rpcs : r \in Cpp!DefinitionUses(e)
  BY <1>1, <1>2, <1>3, DefinitionResolved DEF Fine
<1>4. CASE \E e \in Cpp!Signals : r \in Cpp!SignalType(e)
  BY <1>1, <1>2, <1>4, TypeResolved DEF Fine
<1>5. CASE \E e \in Cpp!Signals : r = Cpp!Topic(Cpp!SignalMethodName(e), e) \/ r = Cpp!Topic(Cpp!SignalKeyName(e), e)
  BY <1>5, TopicResolved DEF Fine
<1>6. CASE \E e \in Cpp!Rpcs : r = Cpp!Defined(Cpp!ClientRpc, e, FALSE)
  BY <1>1, <1>2, <1>6, ClientDefinedFine
<1>7. CASE \/ \E e \in Cpp!Rpcs : r \in Cpp!ClientReturn(e)
           \/ \E in \in Cpp!SignalClients : \E e \in Cpp!Signals :
                r = Cpp!CallbackType(in, e) \/ r = Cpp!Registration(in, e) \/ r = Cpp!CallbackMember(in, e)
  <2>1. r \in Declares("Client.h")
    BY <1>7, ClientHas DEF Declares
  <2>2. \E e : Of(r, e)
    BY <1>7, MadeOf, Zenon
  <2>3. r.what # "topic"
    BY <2>2 DEF Of
  <2> QED
    BY <2>1, <2>3, <1>1, <1>2, Found DEF Fine
<1>8. r \in Cpp!ClientUses \/ r \in Cpp!ClientDefines
  BY DEF Uses, Defines
<1>9. CASE r \in Cpp!ClientUses
  BY <1>9, <1>3, <1>4, <1>5, <1>7, ClientUsesThem
<1>10. CASE r \in Cpp!ClientDefines
  BY <1>10, <1>6, <1>7, ClientDefinesThem
<1> QED
  BY <1>8, <1>9, <1>10

LEMMA ServerHeaderFine ==
  ASSUME CppInv, "Server.h" \in Cpp!Rendered, NEW r \in Uses("Server.h") \cup Defines("Server.h")
  PROVE  Fine("Server.h", r)
<1>1. <<"Server.h", "RpcIf.h">> \in Cpp!Sees /\ "RpcIf.h" \in Cpp!Rendered
  BY SeenFiles, Visible
<1>2. PICK s \in Cpp!RpcServices : r = Cpp!Interface(s)
  BY DEF Uses, Defines
<1>3. r \in Declares("RpcIf.h")
  BY <1>2, InterfacesHave DEF Declares
<1>4. r.what # "topic"
  BY <1>2, MadeOf
<1> QED
  BY <1>1, <1>3, <1>4, Found DEF Fine

LEMMA ServerSourceFine ==
  ASSUME CppInv, "Server.cpp" \in Cpp!Rendered, NEW r \in Uses("Server.cpp") \cup Defines("Server.cpp")
  PROVE  Fine("Server.cpp", r)
<1> DEFINE f == "Server.cpp"
<1>1. <<f, "Schema">> \in Cpp!Sees /\ <<f, "RpcIf.h">> \in Cpp!Sees /\ <<f, "Server.h">> \in Cpp!Sees
  BY SeenFiles
<1>2. "Schema" \in Cpp!Rendered /\ "RpcIf.h" \in Cpp!Rendered /\ "Server.h" \in Cpp!Rendered
  BY Visible
<1>3. CASE \/ \E e \in Cpp!Rpcs : r \in Cpp!Coordinates(e) \/ r \in Cpp!ParameterType(e) \/ r \in Cpp!ReturnType(e)
           \/ \E e \in Cpp!Signals : r \in Cpp!SignalType(e)
  BY <1>1, <1>2, <1>3, TypeResolved DEF Fine
<1>4. CASE \E e \in Cpp!Signals : r = Cpp!Topic(Cpp!SignalKeyName(e), e)
  BY <1>4, TopicResolved DEF Fine
<1>5. CASE \/ \E s \in Cpp!RpcServices : r = Cpp!InterfaceMember(s)
           \/ \E e \in Cpp!Signals : r = Cpp!Emitter(e) \/ r = Cpp!Register(e)
  <2>1. r \in Declares("Server.h")
    BY <1>5, ServerHas DEF Declares
  <2>2. r.what # "topic"
    <3>1. CASE \E s \in Cpp!RpcServices : r = Cpp!InterfaceMember(s)
      <4>1. PICK s \in Cpp!RpcServices : r = Cpp!InterfaceMember(s)
        BY <3>1
      <4>2. Cpp!InterfaceMember(s).what = "member"
        BY ONLY MadeOf, Zenon
      <4> QED
        BY ONLY <4>1, <4>2
    <3>2. CASE \E e \in Cpp!Signals : r = Cpp!Emitter(e) \/ r = Cpp!Register(e)
      <4>1. PICK e \in Cpp!Signals : r = Cpp!Emitter(e) \/ r = Cpp!Register(e)
        BY <3>2
      <4>2. Of(Cpp!Emitter(e), e) /\ Of(Cpp!Register(e), e)
        BY ONLY MadeOf, Zenon
      <4> QED
        BY ONLY <4>1, <4>2 DEF Of
    <3> QED
      BY <1>5, <3>1, <3>2
  <2> QED
    BY <2>1, <2>2, <1>1, <1>2, Found DEF Fine
<1>6. CASE \E e \in Cpp!Rpcs : r = Cpp!HandlerCall(e)
  <2>1. PICK e \in Cpp!Rpcs : r = Cpp!HandlerCall(e)
    BY <1>6
  <2>2. r.what = "method" /\ r.of = e
    BY <2>1, Methods DEF IsMethod
  <2>3. CASE Alone(e)
    BY <2>2, <2>3, RpcsAreKnown DEF Fine, Cpp!CommaAlone, Alone
  <2>4. CASE ~Alone(e)
    <3>1. r = Cpp!Handler(e)
      BY <2>1, <2>4, HandlerCalled
    <3>2. r \in Declares("RpcIf.h")
      BY <3>1, InterfacesHave DEF Declares
    <3> QED
      BY <3>2, <2>2, <1>1, <1>2, Found DEF Fine
  <2> QED
    BY <2>3, <2>4
<1>7. r \in Cpp!ServerUses \/ r \in Cpp!ServerDefines
  BY DEF Uses, Defines
<1>8. CASE r \in Cpp!ServerUses
  BY <1>8, <1>3, <1>4, <1>5, <1>6, ServerUsesThem
<1>9. CASE r \in Cpp!ServerDefines
  BY <1>9, <1>5, ServerHas
<1> QED
  BY <1>7, <1>8, <1>9

LEMMA QtHeaderFine ==
  ASSUME CppInv, "QObjectClient.h" \in Cpp!Rendered, NEW r \in Uses("QObjectClient.h") \cup Defines("QObjectClient.h")
  PROVE  Fine("QObjectClient.h", r)
<1> DEFINE f == "QObjectClient.h"
<1>1. <<f, f>> \in Cpp!Sees
  BY SeenFiles
<1>2. PICK p \in Cpp!Props : r \in Cpp!QPropertyUses(p)
  BY DEF Uses, Defines
<1>3. p \in Cpp!Entity
  BY RpcsAreKnown
<1>4. CASE p.name = Cpp!Upperfirst(p.name)
  BY <1>2, <1>4 DEF Fine, Cpp!Unbound
<1>5. CASE p.name # Cpp!Upperfirst(p.name)
  <2>1. r \in Cpp!QtDeclares /\ r.what # "topic"
    <3>1. CASE r = Cpp!Getter(p)
      BY <3>1, QtHas, MadeOf DEF Of
    <3>2. CASE r = Cpp!Ref("signal", Cpp!QClient, Cpp!NotificationName(p), <<>>, Cpp!ChangedSignal(p))
      <4>1. r = Cpp!QClientSignal(Cpp!ChangedSignal(p)) /\ Cpp!ChangedSignal(p) \in Cpp!Signals
        BY <3>2, <1>3, <1>5, NotificationDeclared DEF CppInv, PropertiesLowered
      <4>2. r \in Cpp!QtDeclares
        BY <4>1, QtHas
      <4>3. Of(r, Cpp!ChangedSignal(p))
        BY <4>1, MadeOf
      <4> QED
        BY <4>2, <4>3 DEF Of
    <3>3. CASE p.access # "read-only" /\ r = Cpp!Method(Cpp!QClient, Cpp!SetterName(p), <<"val">>, Cpp!SetRpc(p))
      <4>1. r = Cpp!Invokable(Cpp!QClient, Cpp!SetRpc(p)) /\ Cpp!SetRpc(p) \in Cpp!ValidForQt
        BY <3>3, <1>3, SetterDeclared DEF CppInv, PropertiesLowered
      <4>2. r \in Cpp!QtDeclares
        BY <4>1, QtHas
      <4>3. Of(r, Cpp!SetRpc(p))
        BY <4>1, MadeOf, Zenon
      <4> QED
        BY <4>2, <4>3 DEF Of
    <3> QED
      BY <1>2, <3>1, <3>2, <3>3 DEF Cpp!QPropertyUses
  <2>2. r \in Declares(f)
    BY <2>1 DEF Declares
  <2> QED
    BY <2>1, <2>2, <1>1, Found DEF Fine
<1> QED
  BY <1>4, <1>5

LEMMA QtSourceFine ==
  ASSUME CppInv, "QObjectClient.cpp" \in Cpp!Rendered,
         NEW r \in Uses("QObjectClient.cpp") \cup Defines("QObjectClient.cpp")
  PROVE  Fine("QObjectClient.cpp", r)
<1> DEFINE f == "QObjectClient.cpp"
<1>1. <<f, "Schema">> \in Cpp!Sees /\ <<f, "ClientTransport.h">> \in Cpp!Sees /\ <<f, "QObjectClient.h">> \in Cpp!Sees
  BY SeenFiles
<1>2. {"Schema", "ClientTransport.h"} \subseteq Cpp!Rendered /\ "QObjectClient.h" \in Cpp!Rendered
  BY Visible
<1>3. CASE \E e \in Cpp!ValidForQt : r \in Cpp!DefinitionUses(e)
  BY <1>1, <1>2, <1>3, RpcsAreKnown, DefinitionResolved DEF Fine
<1>4. CASE \E e \in Cpp!Signals : r \in Cpp!SignalType(e)
  BY <1>1, <1>2, <1>4, TypeResolved DEF Fine
<1>5. CASE \E e \in Cpp!Signals : r = Cpp!Topic(Cpp!SignalMethodName(e), e) \/ r = Cpp!Topic(Cpp!SignalKeyName(e), e)
  BY <1>5, TopicResolved DEF Fine
<1>6. ASSUME r \in Cpp!QtDeclares, r.what # "topic" PROVE Fine(f, r)
  <2>1. r \in Declares("QObjectClient.h")
    BY <1>6 DEF Declares
  <2> QED
    BY <2>1, <1>1, <1>2, <1>6, Found DEF Fine
<1>7. CASE \/ \E e \in Cpp!Rpcs : r \in Cpp!Gadget(e)
           \/ \E p \in Cpp!Props : r = Cpp!Cache(p) \/ r = Cpp!Getter(p)
  <2>1. r \in Cpp!QtDeclares
    BY ONLY <1>7, QtHas, Zenon
  <2>2. r.what # "topic"
    <3>1. CASE \E e \in Cpp!Rpcs : r \in Cpp!Gadget(e)
      <4>1. PICK e \in Cpp!Rpcs : r \in Cpp!Gadget(e)
        BY <3>1
      <4>2. \A q \in Cpp!Gadget(e) : Of(q, e)
        BY ONLY MadeOf, Zenon
      <4> QED
        BY ONLY <4>1, <4>2 DEF Of
    <3>2. CASE \E p \in Cpp!Props : r = Cpp!Cache(p) \/ r = Cpp!Getter(p)
      <4>1. PICK p \in Cpp!Props : r = Cpp!Cache(p) \/ r = Cpp!Getter(p)
        BY <3>2
      <4>2. Of(Cpp!Cache(p), p) /\ Of(Cpp!Getter(p), p)
        BY ONLY MadeOf, Zenon
      <4> QED
        BY ONLY <4>1, <4>2 DEF Of
    <3> QED
      BY <1>7, <3>1, <3>2
  <2> QED
    BY <1>6, <2>1, <2>2
<1>8. CASE \E e \in Cpp!Signals : r \in Cpp!Connection(e)
  <2>1. PICK e \in Cpp!Signals : r \in Cpp!Connection(e)
    BY <1>8
  <2>2. \/ r = Cpp!QtSignal(Cpp!QClientSignals, e, Cpp!Parameters(e)) \/ r = Cpp!QClientSignal(e)
        \/ r = Cpp!QtSignal(Cpp!QClientSignals, e, <<"val">>)
        \/ \E p \in Cpp!Props : r = Cpp!Cache(p)
    BY <2>1 DEF Cpp!Connection, Cpp!PropertyOf
  <2>3. ASSUME \/ r = Cpp!QtSignal(Cpp!QClientSignals, e, Cpp!Parameters(e)) \/ r = Cpp!QClientSignal(e)
               \/ \E p \in Cpp!Props : r = Cpp!Cache(p)
        PROVE  Fine(f, r)
    <3>1. r \in Cpp!QtDeclares
      BY <2>3, QtHas
    <3>2. \E x : Of(r, x)
      BY <2>3, MadeOf, Zenon
    <3> QED
      BY <3>1, <3>2, <1>6 DEF Of
  <2>4. CASE r = Cpp!QtSignal(Cpp!QClientSignals, e, <<"val">>)
    <3>1. CASE e.parameter = "value"
      <4>1. Cpp!Parameters(e) = <<"val">>
        BY <3>1 DEF Cpp!Parameters
      <4> QED
        BY <4>1, <2>3, <2>4
    <3>2. CASE e.parameter # "value"
      BY <3>2, <2>4 DEF Fine, Cpp!NoValue, Cpp!QtSignal, Cpp!Ref
    <3> QED
      BY <3>1, <3>2
  <2> QED
    BY <2>2, <2>3, <2>4
<1>9. CASE \E e \in Cpp!Signals : r = Cpp!Emission(e)
  <2>1. PICK e \in Cpp!Signals : r = Cpp!Emission(e)
    BY <1>9
  <2>2. CASE e.parameter = "native"
    <3>1. r = Cpp!QtSignal(Cpp!QClientSignals, e, <<"reader">>)
      BY <2>1, <2>2 DEF Cpp!Emission, Cpp!Received
    <3> QED
      BY <3>1, <2>2 DEF Fine, Cpp!WrongMessage, Cpp!QtSignal, Cpp!Ref
  <2>3. CASE e.parameter # "native"
    <3>1. r = Cpp!QtSignal(Cpp!QClientSignals, e, Cpp!Parameters(e))
      BY <2>1, <2>3 DEF Cpp!Emission, Cpp!Received
    <3>2. r \in Cpp!QtDeclares
      BY <3>1, QtHas
    <3>3. Of(r, e)
      BY <3>1, MadeOf, Zenon
    <3> QED
      BY <3>2, <3>3, <1>6 DEF Of
  <2> QED
    BY <2>2, <2>3
<1>10. CASE \E e \in Cpp!ValidForQt : r = Cpp!Method(Cpp!QClientRpc, Cpp!PublicMethodNameQt(e), Cpp!Parameters(e), e)
  <2>1. \E e \in Cpp!ValidForQt : r = Cpp!Invokable(Cpp!QClientRpc, e)
    BY <1>10, QtMethodCalled
  <2>2. r \in Cpp!QtDeclares
    BY <2>1, QtHas
  <2>3. \E x : Of(r, x)
    BY <2>1, MadeOf, Zenon
  <2> QED
    BY <2>2, <2>3, <1>6 DEF Of
<1>11. CASE \E in \in {Cpp!QClientRpc, Cpp!QClient} : \E e \in Cpp!ValidForQt : r = Cpp!Defined(in, e, TRUE)
  <2>1. PICK in \in {Cpp!QClientRpc, Cpp!QClient}, e \in Cpp!ValidForQt : r = Cpp!Defined(in, e, TRUE)
    BY <1>11
  <2>2. r.what = "method" /\ r.in = in /\ r.of = e
    <3>1. IsMethod(r, in, e)
      BY <2>1, Methods, Zenon
    <3> QED
      BY <3>1 DEF IsMethod
  <2>3. e \in Cpp!Entity /\ e.kind = "rpc" /\ e.returns # "native"
    BY RpcsAreKnown DEF Cpp!ValidForQt
  <2>4. CASE e.service = Cpp!Main /\ e.name = Cpp!Upperfirst(e.name)
    BY <2>2, <2>3, <2>4 DEF Fine, Cpp!LosesCapital
  <2>5. CASE ~(e.service = Cpp!Main /\ e.name = Cpp!Upperfirst(e.name))
    <3>1. r = Cpp!Invokable(in, e)
      BY <2>1, <2>3, <2>5, QtMethodDefined
    <3> QED
      BY <3>1, <2>2, <1>6, QtHas
  <2> QED
    BY <2>4, <2>5
<1>12. r \in Cpp!QtUses \/ r \in Cpp!QtDefines
  BY DEF Uses, Defines
<1>13. CASE r \in Cpp!QtUses
  BY <1>13, <1>3, <1>4, <1>5, <1>7, <1>8, <1>10, <1>9, QtUsesThem
<1>14. CASE r \in Cpp!QtDefines
  BY <1>14, <1>7, <1>11, QtDefinesThem
<1> QED
  BY <1>12, <1>13, <1>14

LEMMA CppNamesResolve ==
  ASSUME CppInv PROVE Cpp!NamesResolve
<1> SUFFICES ASSUME NEW f \in Cpp!Rendered, NEW r \in used[f] \cup defined[f]
             PROVE  Fine(f, r)
  BY DEF Cpp!NamesResolve, Fine
<1>1. f \in Cpp!File
  <2>1. DOMAIN files = 1..Len(files) /\ files \in Seq(Cpp!File)
    BY LenProperties DEF CppInv, InOrder
  <2> QED
    BY <2>1, ElementOfSeq DEF Cpp!Rendered
<1>2. r \in Uses(f) \cup Defines(f)
  BY <1>1 DEF CppInv
<1>3. f \notin {"Schema", "ClientTransport.h", "Client.h", "RpcIf.h"}
  BY <1>2 DEF Uses, Defines
<1>4. f \in {"ClientTransport.inl", "Client.inl", "Client.cpp", "Server.h", "Server.cpp",
             "QObjectClient.h", "QObjectClient.cpp"}
  BY <1>1, <1>3, OrderType
<1> QED
  BY <1>2, <1>4, TransportInlineFine, ClientInlineFine, ClientSourceFine, ServerHeaderFine, ServerSourceFine,
     QtHeaderFine, QtSourceFine

-----------------------------------------------------------------------------
(* Definitions.                                                            *)

\* The classes are told apart by their names.
LEMMA ClassesDiffer ==
  /\ Cpp!Transport \notin Cpp!SignalClients \cup {Cpp!ClientRpc, Cpp!ServerSignals, Cpp!QClientRpc, Cpp!QClient}
  /\ Cpp!ClientRpc \notin Cpp!SignalClients \cup {Cpp!ServerSignals, Cpp!QClientRpc, Cpp!QClient}
  /\ \A c \in Cpp!SignalClients : c \notin {Cpp!ServerSignals, Cpp!QClientRpc, Cpp!QClient}
  /\ Cpp!ServerSignals \notin {Cpp!QClientRpc, Cpp!QClient}
<1>1. \A v, w : Cpp!Cap(v) = Cpp!Cap(w) => v = w
  BY DEF Cpp!Cap
<1> QED
  BY <1>1 DEF Cpp!Transport, Cpp!ClientRpc, Cpp!SignalClients, Cpp!ServerSignals, Cpp!QClientRpc, Cpp!QClient

\* The class of a member function tells which file defines it; of the client's the rpc does.
LEMMA Places ==
  ASSUME NEW r, NEW g, r \in Defines(g)
  PROVE  \/ g = "ClientTransport.inl" /\ r.in = Cpp!Transport
         \/ g = "Client.inl" /\ r.in = Cpp!ClientRpc /\ r.of \in Cpp!Templates
         \/ g = "Client.cpp" /\ r.in \in Cpp!SignalClients
         \/ g = "Client.cpp" /\ r.in = Cpp!ClientRpc /\ r.of \notin Cpp!Templates
         \/ g = "Server.cpp" /\ r.in = Cpp!ServerSignals
         \/ g = "QObjectClient.cpp" /\ r.in \in {Cpp!QClientRpc, Cpp!QClient}
<1>1. g \in {"ClientTransport.inl", "Client.inl", "Client.cpp", "Server.cpp", "QObjectClient.cpp"}
  BY DEF Defines
<1>2. CASE g = "ClientTransport.inl"
  <2>1. PICK e \in Cpp!Rpcs : r = Cpp!Sender(e)
    BY <1>2 DEF Defines, Cpp!Senders
  <2>2. IsMethod(r, Cpp!Transport, e)
    BY <2>1, Methods
  <2> QED
    BY <1>2, <2>2 DEF IsMethod
<1>3. CASE g = "Client.inl"
  <2>1. PICK e \in Cpp!Templates : r = Cpp!Defined(Cpp!ClientRpc, e, FALSE)
    BY <1>3 DEF Defines, TemplatesDefined
  <2>2. IsMethod(r, Cpp!ClientRpc, e)
    BY <2>1, Methods, Zenon
  <2> QED
    BY <1>3, <2>1, <2>2 DEF IsMethod
<1>4. CASE g = "Client.cpp"
  <2>1. r \in Cpp!ClientDefines
    BY <1>4 DEF Defines
  <2>2. CASE \E e \in Cpp!Rpcs : e \notin Cpp!Templates /\ r = Cpp!Defined(Cpp!ClientRpc, e, FALSE)
    <3>1. PICK e \in Cpp!Rpcs : e \notin Cpp!Templates /\ r = Cpp!Defined(Cpp!ClientRpc, e, FALSE)
      BY <2>2
    <3>2. IsMethod(r, Cpp!ClientRpc, e)
      BY <3>1, Methods, Zenon
    <3> QED
      BY <1>4, <3>1, <3>2 DEF IsMethod
  <2>3. CASE \E in \in Cpp!SignalClients : \E e \in Cpp!Signals : r = Cpp!Registration(in, e)
    <3>1. PICK in \in Cpp!SignalClients, e \in Cpp!Signals : r = Cpp!Registration(in, e)
      BY <2>3
    <3>2. IsMethod(r, in, e)
      BY <3>1, Methods, Zenon
    <3>3. r.in \in Cpp!SignalClients
      <4>1. r.in = in
        BY <3>2 DEF IsMethod
      <4> QED
        BY <4>1, <3>1
    <3> QED
      BY <1>4, <3>3
  <2> QED
    BY <2>1, <2>2, <2>3, ClientDefinesThem
<1>5. CASE g = "Server.cpp"
  <2>1. r \in Cpp!ServerDefines
    BY <1>5 DEF Defines
  <2>2. PICK e \in Cpp!Signals : r = Cpp!Emitter(e) \/ r = Cpp!Register(e)
    BY <2>1, ServerHas
  <2>3. IsMethod(r, Cpp!ServerSignals, e)
    BY <2>2, Methods
  <2> QED
    BY <1>5, <2>3 DEF IsMethod
<1>6. CASE g = "QObjectClient.cpp"
  <2>1. r \in Cpp!QtDefines
    BY <1>6 DEF Defines
  <2>2. CASE \E in \in {Cpp!QClientRpc, Cpp!QClient} : \E e \in Cpp!ValidForQt : r = Cpp!Defined(in, e, TRUE)
    <3>1. PICK in \in {Cpp!QClientRpc, Cpp!QClient}, e \in Cpp!ValidForQt : r = Cpp!Defined(in, e, TRUE)
      BY <2>2
    <3>2. IsMethod(r, in, e)
      BY <3>1, Methods, Zenon
    <3> QED
      BY <1>6, <3>1, <3>2 DEF IsMethod
  <2>3. CASE \E p \in Cpp!Props : r = Cpp!Getter(p)
    <3>1. PICK p \in Cpp!Props : r = Cpp!Getter(p)
      BY <2>3
    <3>2. IsMethod(r, Cpp!QClient, p)
      BY <3>1, Methods
    <3> QED
      BY <1>6, <3>2 DEF IsMethod
  <2> QED
    BY <2>1, <2>2, <2>3, QtDefinesThem
<1> QED
  BY <1>1, <1>2, <1>3, <1>4, <1>5, <1>6

LEMMA OnePlace ==
  ASSUME NEW r, NEW g, NEW h, r \in Defines(g), r \in Defines(h)
  PROVE  g = h
BY Places, ClassesDiffer

LEMMA NotMethods ==
  /\ \A in, name, e : Cpp!Member(in, name, e).what # "method"
  /\ \A s : /\ Cpp!ServiceNumber(s).what # "method" /\ Cpp!Interface(s).what # "method"
            /\ Cpp!InterfaceMember(s).what # "method"
  /\ \A name, e : Cpp!Topic(name, e).what # "method"
  /\ \A e : \A r \in Cpp!Coordinates(e) \cup Cpp!ParameterType(e) \cup Cpp!ReturnType(e) : r.what # "method"
  /\ \A e : \A r \in Cpp!SignalType(e) \cup Cpp!ClientReturn(e) : r.what # "method"
  /\ \A e : \A r \in Cpp!ServerReturn(e) \cup Cpp!Gadget(e) : r.what # "method"
  /\ \A in, e : Cpp!CallbackType(in, e).what # "method" /\ Cpp!CallbackMember(in, e).what # "method"
  /\ \A in, e, takes : Cpp!QtSignal(in, e, takes).what # "method"
  /\ \A e : Cpp!QClientSignal(e).what # "method" /\ Cpp!Cache(e).what # "method"
  /\ \A r \in Cpp!ClientAlways \cup Cpp!QtAlways \cup Cpp!WithSignals(Cpp!ServerSignals, Cpp!FixedOfSignals) :
       r.what # "method"
<1>1. /\ \A in, name, e : Cpp!Member(in, name, e).what # "method" /\ Cpp!Constant(in, name, e).what # "method"
                          /\ Cpp!Nested(in, name, e).what # "method"
      /\ \A name, e : Cpp!Topic(name, e).what # "method" /\ Cpp!Type(name, e).what # "method"
      /\ \A in, e, takes : Cpp!QtSignal(in, e, takes).what # "method"
  BY DEF Cpp!Member, Cpp!Constant, Cpp!Nested, Cpp!Topic, Cpp!Type, Cpp!QtSignal, Cpp!Ref
<1>2. \A s : /\ Cpp!ServiceNumber(s).what # "method" /\ Cpp!Interface(s).what # "method"
             /\ Cpp!InterfaceMember(s).what # "method"
  BY <1>1 DEF Cpp!ServiceNumber, Cpp!Interface, Cpp!InterfaceMember
<1>3. \A e : \A r \in Cpp!Coordinates(e) \cup Cpp!ParameterType(e) \cup Cpp!ReturnType(e) : r.what # "method"
  BY <1>1, <1>2 DEF Cpp!Coordinates, Cpp!ParameterType, Cpp!ReturnType
<1>4. \A e : \A r \in Cpp!SignalType(e) \cup Cpp!ClientReturn(e) : r.what # "method"
  BY <1>1 DEF Cpp!SignalType, Cpp!ClientReturn
<1>5. \A e : \A r \in Cpp!ServerReturn(e) \cup Cpp!Gadget(e) : r.what # "method"
  BY <1>1 DEF Cpp!ServerReturn, Cpp!Gadget
<1>6. \A in, e : Cpp!CallbackType(in, e).what # "method" /\ Cpp!CallbackMember(in, e).what # "method"
  BY <1>1 DEF Cpp!CallbackType, Cpp!CallbackMember
<1>7. \A e : Cpp!QClientSignal(e).what # "method" /\ Cpp!Cache(e).what # "method"
  BY <1>1 DEF Cpp!QClientSignal, Cpp!Cache
<1>8. \A r \in Cpp!ClientAlways \cup Cpp!QtAlways \cup Cpp!WithSignals(Cpp!ServerSignals, Cpp!FixedOfSignals) :
        r.what # "method"
  BY FixedOfClasses DEF IsFixed
<1> QED
  BY <1>1, <1>2, <1>3, <1>4, <1>5, <1>6, <1>7, <1>8

\* A member function that is declared is defined somewhere.
LEMMA SomePlace ==
  ASSUME CppInv, NEW f, NEW r \in Declares(f), r.what = "method",
         r.in \notin {Cpp!RpcIfType(s) : s \in Cpp!Services}, ~Cpp!CommaAlone(r), ~Cpp!LosesCapital(r)
  PROVE  \E g \in Cpp!File : r \in Defines(g)
<1> USE OrderType
<1>1. CASE r \in Cpp!SchemaDeclares
  BY <1>1, SchemaHas, NotMethods
<1>2. CASE r \in Cpp!Senders
  BY <1>2 DEF Defines
<1>3. CASE r \in Cpp!ClientDeclares
  <2>1. \/ \E e \in Cpp!Rpcs : r = Cpp!ClientMethod(e)
        \/ \E in \in Cpp!SignalClients : \E e \in Cpp!Signals : r = Cpp!Registration(in, e)
    BY <1>3, ClientHas, NotMethods
  <2>2. CASE \E e \in Cpp!Rpcs : r = Cpp!ClientMethod(e)
    <3>1. PICK e \in Cpp!Rpcs : r = Cpp!ClientMethod(e)
      BY <2>2
    <3>2. r.of = e
      BY <3>1, Methods DEF IsMethod
    <3>3. ~Alone(e)
      BY <3>2, RpcsAreKnown DEF Cpp!CommaAlone, Alone
    <3>4. r = Cpp!Defined(Cpp!ClientRpc, e, FALSE)
      BY <3>1, <3>3, ClientMethodDefined
    <3>5. r \in Defines("Client.inl") \/ r \in Defines("Client.cpp")
      <4>1. CASE e \in Cpp!Templates
        BY <3>4, <4>1 DEF Defines, TemplatesDefined
      <4>2. CASE e \notin Cpp!Templates
        BY <3>4, <4>2, ClientDefinesThem DEF Defines
      <4> QED
        BY <4>1, <4>2
    <3> QED
      BY <3>5
  <2>3. CASE \E in \in Cpp!SignalClients : \E e \in Cpp!Signals : r = Cpp!Registration(in, e)
    <3>1. r \in Defines("Client.cpp")
      BY <2>3, ClientDefinesThem DEF Defines
    <3> QED
      BY <3>1
  <2> QED
    BY <2>1, <2>2, <2>3
<1>4. CASE r \in Cpp!InterfacesDeclare
  <2>1. PICK e \in Cpp!Rpcs : r = Cpp!Handler(e)
    BY <1>4, InterfacesHave, NotMethods
  <2>2. r.in = Cpp!RpcIfType(e.service)
    BY <2>1, Methods DEF IsMethod
  <2>3. e.service \in Cpp!Services
    BY DEF Cpp!Rpcs, Cpp!Services
  <2> QED
    BY <2>2, <2>3
<1>5. CASE r \in Cpp!ServerDeclares
  <2>1. \E e \in Cpp!Signals : r = Cpp!Emitter(e) \/ r = Cpp!Register(e)
    BY <1>5, ServerHas, NotMethods
  <2>2. r \in Defines("Server.cpp")
    BY <2>1, ServerHas DEF Defines
  <2> QED
    BY <2>2
<1>6. CASE r \in Topics
  BY <1>6, NotMethods DEF Topics
<1>7. CASE r \in Cpp!QtDeclares
  <2>1. \/ \E in \in {Cpp!QClientRpc, Cpp!QClient} : \E e \in Cpp!ValidForQt : r = Cpp!Invokable(in, e)
        \/ \E p \in Cpp!Props : r = Cpp!Getter(p)
    BY <1>7, QtHas, NotMethods
  <2>2. CASE \E in \in {Cpp!QClientRpc, Cpp!QClient} : \E e \in Cpp!ValidForQt : r = Cpp!Invokable(in, e)
    <3>1. PICK in \in {Cpp!QClientRpc, Cpp!QClient}, e \in Cpp!ValidForQt : r = Cpp!Invokable(in, e)
      BY <2>2
    <3>2. r.in = in /\ r.of = e
      <4>1. IsMethod(r, in, e)
        BY <3>1, Methods, Zenon
      <4> QED
        BY <4>1 DEF IsMethod
    <3>3. e \in Cpp!Entity /\ e.kind = "rpc" /\ e.returns # "native"
      BY RpcsAreKnown DEF Cpp!ValidForQt
    <3>4. ~(e.service = Cpp!Main /\ e.name = Cpp!Upperfirst(e.name))
      BY <3>2, <3>3 DEF Cpp!LosesCapital
    <3>5. r = Cpp!Defined(in, e, TRUE)
      BY <3>1, <3>3, <3>4, QtMethodDefined
    <3>6. r \in Defines("QObjectClient.cpp")
      BY <3>5, QtDefinesThem DEF Defines
    <3> QED
      BY <3>6
  <2>3. CASE \E p \in Cpp!Props : r = Cpp!Getter(p)
    <3>1. r \in Defines("QObjectClient.cpp")
      BY <2>3, QtDefinesThem DEF Defines
    <3> QED
      BY <3>1
  <2> QED
    BY <2>1, <2>2, <2>3
<1> QED
  BY <1>1, <1>2, <1>3, <1>4, <1>5, <1>6, <1>7 DEF Declares

LEMMA CppDefinedOnce ==
  ASSUME CppInv PROVE Cpp!DefinedOnce
<1> SUFFICES ASSUME Cpp!Done, NEW f \in Cpp!File, NEW r \in declared[f], r.what = "method",
                    r.in \notin {Cpp!RpcIfType(s) : s \in Cpp!Services},
                    ~Cpp!CommaAlone(r), ~Cpp!LosesCapital(r)
             PROVE  \E g \in Cpp!File : \A h \in Cpp!File : r \in defined[h] <=> h = g
  BY DEF Cpp!DefinedOnce
<1>1. /\ r \in Declares(f)
      /\ \A g \in Cpp!File : defined[g] = Defines(g)
  BY DEF CppInv, Cpp!Done
<1>2. PICK g \in Cpp!File : r \in Defines(g)
  BY <1>1, SomePlace
<1>3. \A h \in Cpp!File : r \in defined[h] <=> h = g
  BY <1>1, <1>2, OnePlace
<1> QED
  BY <1>3

-----------------------------------------------------------------------------
(* The C++ files of every interface.                                       *)

\* What the files have was made of the interface, by the backend of the language.
THEOREM FilesAreOfTheInterface == Generate => []TypesOK
<1>1. BindingsInv /\ CompilerInv => TypesOK
  BY CppTypeOK DEF BindingsInv, CompilerInv, TypesOK
<1> QED
  BY <1>1, BindingsHold, CompilerHolds, PTL

\* What a C++ file uses or defines is declared in a file it includes, with the same name
\* and parameters, if it is not one of the five cases that NamesResolve names.
THEOREM CppNamesAreDeclared == Generate => []NamesResolve
<1>1. CompilerInv => NamesResolve
  BY CppNamesResolve DEF CompilerInv, NamesResolve
<1> QED
  BY <1>1, CompilerHolds, PTL

\* When all files are rendered, each member function is defined in one of them.
THEOREM CppMethodsAreDefined == Generate => []DefinedOnce
<1>1. CompilerInv => DefinedOnce
  BY CppDefinedOnce DEF CompilerInv, DefinedOnce
<1> QED
  BY <1>1, CompilerHolds, PTL

-----------------------------------------------------------------------------
(* Names with what the generator puts in them.                             *)

\* The words of the names that classes have for every interface.
FixedWords ==
  {"Super", "StartThread", "signalReceiverThreadFn", "handleIncomingSignal", "handleSubscriptionRequest",
   "handleIncomingSignalAllNonBlock", "getFd", "Signals", "SubscriptionCb", "unbind", "handleAllSubscriptions",
   "registerMetaTypes", "qclientRpc", "qclientSignals"}

Generated ==
  {"Return", "Cb", "Subscr", "on", "m_", "m_p", "register", "RpcIf", "RpcIds",
   "CAPNPParameter", "CAPNPReturn", "CAPNPSignalParameter"}
  \cup FixedWords

TextPart == [word : Vocabulary \cup Generated, capital : BOOLEAN]
Text == Seq(TextPart)

FirstWord(n) == n[1].word
LastWord(n) == n[Len(n)].word
Divided(n) == \E k \in DOMAIN n : n[k].word = "__"

LEMMA NamesAreTexts ==
  ASSUME NEW n \in CppName PROVE n \in Text
<1>1. Cpp!Part \subseteq TextPart
  BY DEF Cpp!Part, TextPart
<1> QED
  BY <1>1, SeqMonotonic DEF CppName, Text

LEMMA WordTexts ==
  ASSUME NEW w \in Vocabulary \cup Generated
  PROVE  \A n \in {Cpp!Low(w), Cpp!Cap(w)} :
           /\ n \in Text /\ n # <<>> /\ Len(n) = 1 /\ n[1].word = w
           /\ FirstWord(n) = w /\ LastWord(n) = w /\ (Divided(n) <=> w = "__")
<1> SUFFICES ASSUME NEW b \in BOOLEAN
             PROVE  LET n == <<[word |-> w, capital |-> b]>>
                    IN  /\ n \in Text /\ n # <<>> /\ Len(n) = 1 /\ n[1].word = w
                        /\ FirstWord(n) = w /\ LastWord(n) = w /\ (Divided(n) <=> w = "__")
  BY DEF Cpp!Low, Cpp!Cap
<1> DEFINE x == [word |-> w, capital |-> b]
           n == <<x>>
<1>1. x \in TextPart /\ x.word = w
  BY DEF TextPart
<1> HIDE DEF x
<1>2. n \in Text /\ Len(n) = 1 /\ n[1] = x /\ DOMAIN n = {1} /\ n # <<>>
  BY <1>1 DEF Text
<1> HIDE DEF n
<1>3. FirstWord(n) = w /\ LastWord(n) = w /\ (Divided(n) <=> w = "__")
  BY <1>1, <1>2 DEF FirstWord, LastWord, Divided
<1> QED
  BY <1>1, <1>2, <1>3 DEF n, x

LEMMA SmallCapital ==
  ASSUME NEW w PROVE ~Cpp!Low(w)[1].capital /\ Cpp!Cap(w)[1].capital
BY DEF Cpp!Low, Cpp!Cap

\* What two texts have, put together.
LEMMA Together ==
  ASSUME NEW s \in Text, NEW t \in Text, s # <<>>, t # <<>>
  PROVE  /\ s \o t \in Text /\ s \o t # <<>> /\ Len(s \o t) = Len(s) + Len(t) /\ Len(s \o t) > 1
         /\ (s \o t)[1] = s[1] /\ FirstWord(s \o t) = FirstWord(s)
         /\ LastWord(s \o t) = LastWord(t)
         /\ Divided(s \o t) <=> Divided(s) \/ Divided(t)
<1> DEFINE c == s \o t
<1>1. /\ c \in Text /\ Len(c) = Len(s) + Len(t)
      /\ \A i \in 1..Len(s) + Len(t) : c[i] = IF i <= Len(s) THEN s[i] ELSE t[i - Len(s)]
  BY ConcatProperties DEF Text
<1>2. Len(s) \in Nat \ {0} /\ Len(t) \in Nat \ {0}
  BY EmptySeq DEF Text
<1>3. DOMAIN s = 1..Len(s) /\ DOMAIN t = 1..Len(t) /\ DOMAIN c = 1..Len(c)
  BY <1>1, LenProperties DEF Text
<1> HIDE DEF c
<1>4. c[1] = s[1] /\ c[Len(c)] = t[Len(t)] /\ Len(c) > 1
  BY <1>1, <1>2
<1>5. ASSUME Divided(c) PROVE Divided(s) \/ Divided(t)
  <2>1. PICK k \in 1..Len(c) : c[k].word = "__"
    BY <1>3, <1>5 DEF Divided
  <2>2. CASE k <= Len(s)
    <3>1. k \in 1..Len(s) /\ s[k].word = "__"
      BY <1>1, <1>2, <2>1, <2>2
    <3> QED
      BY <3>1, <1>3 DEF Divided
  <2>3. CASE ~(k <= Len(s))
    <3>1. k - Len(s) \in 1..Len(t) /\ t[k - Len(s)].word = "__"
      BY <1>1, <1>2, <2>1, <2>3
    <3> QED
      BY <3>1, <1>3 DEF Divided
  <2> QED
    BY <2>2, <2>3
<1>6. ASSUME Divided(s) PROVE Divided(c)
  <2>1. PICK k \in 1..Len(s) : s[k].word = "__"
    BY <1>3, <1>6 DEF Divided
  <2>2. k \in 1..Len(c) /\ c[k] = s[k]
    BY <1>1, <1>2, <2>1
  <2> QED
    BY <2>1, <2>2, <1>3 DEF Divided
<1>7. ASSUME Divided(t) PROVE Divided(c)
  <2>1. PICK k \in 1..Len(t) : t[k].word = "__"
    BY <1>3, <1>7 DEF Divided
  <2>2. k + Len(s) \in 1..Len(c) /\ c[k + Len(s)] = t[k]
    BY <1>1, <1>2, <2>1
  <2> QED
    BY <2>1, <2>2, <1>3 DEF Divided
<1>8. Len(c) = Len(s) + Len(t) /\ c # <<>>
  BY <1>1, <1>4
<1>9. FirstWord(c) = FirstWord(s) /\ LastWord(c) = LastWord(t)
  BY <1>4 DEF FirstWord, LastWord
<1> QED
  BY <1>1, <1>4, <1>5, <1>6, <1>7, <1>8, <1>9 DEF c

LEMMA Cancelled ==
  ASSUME NEW s \in Text, NEW t \in Text, NEW u \in Text
  PROVE  /\ s \o t = s \o u => t = u
         /\ t \o s = u \o s => t = u
<1> DEFINE P == TextPart
<1>1. s \in Seq(P) /\ t \in Seq(P) /\ u \in Seq(P)
  BY DEF Text
<1> HIDE DEF P
<1>2. s \o t = s \o u => t = u
  <2>1. \A S : \A a, b, c \in Seq(S) : a \o b = a \o c => b = c
    BY ConcatSimplifications, Zenon
  <2> QED
    BY ONLY <1>1, <2>1, Zenon
<1>3. t \o s = u \o s => t = u
  <2>1. \A S : \A a, b, c \in Seq(S) : a \o c = b \o c => a = b
    BY ConcatSimplifications, Zenon
  <2> QED
    BY ONLY <1>1, <2>1, Zenon
<1> QED
  BY <1>1, <1>2, <1>3

LEMMA RegroupedText ==
  ASSUME NEW s \in Text, NEW t \in Text, NEW u \in Text
  PROVE  (s \o t) \o u = s \o (t \o u)
BY ConcatAssociative DEF Text

\* Another first letter.
Alters(m, n) ==
  /\ m \in Text /\ m # <<>> /\ m # Cpp!Main
  /\ FirstWord(m) = FirstWord(n) /\ LastWord(m) = LastWord(n) /\ (Divided(m) <=> Divided(n))

LEMMA Letters ==
  ASSUME NEW n \in Text, n # <<>>, FirstWord(n) # "_"
  PROVE  /\ n # Cpp!Main
         /\ Alters(Cpp!Upperfirst(n), n) /\ Alters(Cpp!Lowerfirst(n), n)
         /\ Cpp!Upperfirst(n)[1].capital /\ ~Cpp!Lowerfirst(n)[1].capital
         /\ n[1].capital => Cpp!Upperfirst(n) = n
         /\ ~n[1].capital => Cpp!Lowerfirst(n) = n
         /\ \A t \in Text : t # <<>> =>
              Cpp!Upperfirst(n \o t) = Cpp!Upperfirst(n) \o t /\ Cpp!Lowerfirst(n \o t) = Cpp!Lowerfirst(n) \o t
<1>0. FirstWord(Cpp!Main) = "_"
  BY DEF FirstWord, Cpp!Main, Cpp!Low
<1>1. n # Cpp!Main
  BY <1>0
<1>2. Len(n) \in Nat \ {0} /\ DOMAIN n = 1..Len(n) /\ n[1] \in TextPart /\ 1 \in 1..Len(n) /\ Len(n) \in 1..Len(n)
  <2>1. Len(n) \in Nat \ {0} /\ DOMAIN n = 1..Len(n)
    BY EmptySeq, LenProperties DEF Text
  <2>2. 1 \in 1..Len(n) /\ Len(n) \in 1..Len(n)
    BY ONLY <2>1
  <2>3. n[1] \in TextPart
    BY <2>2, ElementOfSeq DEF Text
  <2> QED
    BY <2>1, <2>2, <2>3
<1> DEFINE X(b) == [n[1] EXCEPT !.capital = b]
           M(b) == [n EXCEPT ![1] = X(b)]
<1>3. \A b \in BOOLEAN : X(b) \in TextPart /\ X(b).word = n[1].word /\ X(b).capital = b
  BY <1>2 DEF TextPart
<1>4. \A b \in BOOLEAN : n[1].capital = b => X(b) = n[1]
  BY <1>2 DEF TextPart
<1>5. n[1].capital \in BOOLEAN
  BY <1>2 DEF TextPart
<1> HIDE DEF X
<1>6. ASSUME NEW b \in BOOLEAN
      PROVE  /\ M(b) \in Text /\ M(b) # <<>> /\ Len(M(b)) = Len(n) /\ M(b)[1] = X(b)
             /\ n[1] = X(b) => M(b) = n
             /\ \A t \in Text : [n \o t EXCEPT ![1] = X(b)] = M(b) \o t
  <2> DEFINE P == TextPart
             x == X(b)
  <2>1. n \in Seq(P) /\ x \in P
    BY <1>3 DEF Text
  <2> HIDE DEF P, x
  <2>2. <<>> \in Seq(P)
    BY EmptySeq
  <2>3. ASSUME NEW t \in Seq(P)
        PROVE  /\ [n EXCEPT ![1] = x] \in Seq(P) /\ [n EXCEPT ![1] = x] # <<>>
               /\ [n EXCEPT ![1] = x][1] = x /\ Len([n EXCEPT ![1] = x]) = Len(n)
               /\ [n \o t EXCEPT ![1] = x] = [n EXCEPT ![1] = x] \o t
               /\ n[1] = x => [n EXCEPT ![1] = x] = n
    BY ONLY <2>1, n # <<>>, t \in Seq(P), FirstReplaced
  <2>4. M(b) = [n EXCEPT ![1] = x] /\ Seq(P) = Text
    BY DEF Text, P, x
  <2> HIDE DEF M
  <2> QED
    BY <2>2, <2>3, <2>4 DEF x
<1>7. ASSUME NEW b \in BOOLEAN
      PROVE  /\ \A k \in 1..Len(n) : M(b)[k].word = n[k].word
             /\ DOMAIN M(b) = 1..Len(n)
  <2>1. \A k \in 1..Len(n) : M(b)[k] = IF k = 1 THEN X(b) ELSE n[k]
    BY <1>2
  <2>2. DOMAIN M(b) = 1..Len(n)
    BY <1>2
  <2> HIDE DEF M
  <2> QED
    BY <2>1, <2>2, <1>3
<1> HIDE DEF M
<1>8. ASSUME NEW b \in BOOLEAN
      PROVE  /\ FirstWord(M(b)) = FirstWord(n) /\ LastWord(M(b)) = LastWord(n)
             /\ Divided(M(b)) <=> Divided(n)
             /\ M(b)[1].capital = b
             /\ M(b) # Cpp!Main
  <2>1. FirstWord(M(b)) = FirstWord(n)
    BY <1>2, <1>7 DEF FirstWord
  <2>2. LastWord(M(b)) = LastWord(n)
    BY <1>2, <1>6, <1>7 DEF LastWord
  <2>3. Divided(M(b)) <=> Divided(n)
    BY <1>2, <1>7 DEF Divided
  <2>4. M(b)[1].capital = b
    BY <1>3, <1>6
  <2>5. FirstWord(Cpp!Main) = "_"
    BY DEF FirstWord, Cpp!Main, Cpp!Low
  <2> QED
    BY <2>1, <2>2, <2>3, <2>4, <2>5
<1>9. Cpp!Upperfirst(n) = M(TRUE) /\ Cpp!Lowerfirst(n) = M(FALSE)
  BY <1>1 DEF Cpp!Upperfirst, Cpp!Lowerfirst, M, X
<1>10. ASSUME NEW t \in Text, t # <<>>
       PROVE  /\ Cpp!Upperfirst(n \o t) = Cpp!Upperfirst(n) \o t
              /\ Cpp!Lowerfirst(n \o t) = Cpp!Lowerfirst(n) \o t
  <2>1. n \o t # Cpp!Main /\ (n \o t)[1] = n[1]
    <3>1. (n \o t)[1] = n[1] /\ FirstWord(n \o t) # "_"
      BY <1>10, Together
    <3>2. FirstWord(Cpp!Main) = "_"
      BY DEF FirstWord, Cpp!Main, Cpp!Low
    <3> QED
      BY <3>1, <3>2
  <2>2. /\ Cpp!Upperfirst(n \o t) = [n \o t EXCEPT ![1] = X(TRUE)]
        /\ Cpp!Lowerfirst(n \o t) = [n \o t EXCEPT ![1] = X(FALSE)]
    BY <2>1 DEF Cpp!Upperfirst, Cpp!Lowerfirst, X
  <2> QED
    BY <2>2, <1>6, <1>9
<1>13. Alters(M(TRUE), n) /\ Alters(M(FALSE), n)
  BY <1>6, <1>8 DEF Alters
<1>11. n[1].capital => M(TRUE) = n
  BY <1>4, <1>5, <1>6
<1>12. ~n[1].capital => M(FALSE) = n
  BY <1>4, <1>5, <1>6
<1> QED
  BY <1>1, <1>8, <1>9, <1>10, <1>11, <1>12, <1>13

LEMMA FirstLetters ==
  ASSUME NEW n \in Text, n # <<>>, FirstWord(n) # "_", NEW t \in Text, t # <<>>
  PROVE  Cpp!Upperfirst(n \o t) = Cpp!Upperfirst(n) \o t /\ Cpp!Lowerfirst(n \o t) = Cpp!Lowerfirst(n) \o t
<1>1. \A u \in Text : u # <<>> =>
        /\ Cpp!Upperfirst(n \o u) = Cpp!Upperfirst(n) \o u
        /\ Cpp!Lowerfirst(n \o u) = Cpp!Lowerfirst(n) \o u
  BY ONLY n \in Text, n # <<>>, FirstWord(n) # "_", Letters
<1> QED
  BY <1>1

\* What the words of the generator are in a text.
LEMMA Marks ==
  /\ \A n \in {Cpp!Main, Cpp!Sep} : n \in Text /\ n # <<>> /\ Len(n) = 1
  /\ FirstWord(Cpp!Main) = "_" /\ LastWord(Cpp!Main) = "_" /\ ~Divided(Cpp!Main)
  /\ FirstWord(Cpp!Sep) = "__" /\ Divided(Cpp!Sep)
<1>1. "_" \in Vocabulary \cup Generated /\ "__" \in Vocabulary \cup Generated
  BY GeneratorAssumption
<1>2. Cpp!Main = Cpp!Low("_") /\ Cpp!Sep = Cpp!Low("__")
  BY DEF Cpp!Main, Cpp!Sep
<1>3. ASSUME NEW w \in {"_", "__"}
      PROVE  /\ Cpp!Low(w) \in Text /\ Cpp!Low(w) # <<>> /\ Len(Cpp!Low(w)) = 1
             /\ FirstWord(Cpp!Low(w)) = w /\ LastWord(Cpp!Low(w)) = w /\ (Divided(Cpp!Low(w)) <=> w = "__")
  BY <1>1, WordTexts
<1> QED
  BY <1>2, <1>3

\* A name is a text that does not begin like the main service, nor does its capital.
Begins(n) == n \in Text /\ n # <<>> /\ FirstWord(n) \notin {"_", "__"}

LEMMA EntityTexts ==
  ASSUME NEW e \in Cpp!Entity
  PROVE  /\ Begins(e.name) /\ Begins(Cpp!Upperfirst(e.name)) /\ Begins(Cpp!Lowerfirst(e.name))
         /\ e.service # Cpp!Main =>
              Begins(e.service) /\ Begins(Cpp!Upperfirst(e.service)) /\ Begins(Cpp!Lowerfirst(e.service))
<1>1. ASSUME NEW n \in Cpp!Name
      PROVE  Begins(n) /\ Begins(Cpp!Upperfirst(n)) /\ Begins(Cpp!Lowerfirst(n))
  <2>1. n \in Text /\ n # <<>>
    BY NameType, NamesAreTexts
  <2>2. FirstWord(n) \notin {"_", "__"}
    BY DEF Cpp!Name, FirstWord
  <2>3. Alters(Cpp!Upperfirst(n), n) /\ Alters(Cpp!Lowerfirst(n), n)
    <3>1. FirstWord(n) # "_"
      BY <2>2
    <3> QED
      BY ONLY <2>1, <3>1, Letters
  <2> QED
    BY <2>1, <2>2, <2>3 DEF Begins, Alters
<1>2. e.name \in Cpp!Name /\ e.service \in Cpp!Name \cup {Cpp!Main}
  BY EntityType
<1> QED
  BY <1>1, <1>2

\* A joined name, and the qualified names.
LEMMA JoinedText ==
  ASSUME NEW e \in Cpp!Entity
  PROVE  /\ Begins(Cpp!Joined(e)) /\ Cpp!Joined(e)[1].capital
         /\ LastWord(Cpp!Joined(e)) = LastWord(e.name)
         /\ Divided(Cpp!Joined(e)) => Divided(e.name) \/ Divided(e.service)
         /\ Cpp!Prefix(e.service) \o Cpp!Upperfirst(e.name) \in Text
         /\ Cpp!Prefix(e.service) \o Cpp!Upperfirst(e.name) # <<>>
         /\ LastWord(Cpp!Prefix(e.service) \o Cpp!Upperfirst(e.name)) = LastWord(e.name)
         /\ e.service = Cpp!Main => Cpp!Joined(e) = Cpp!Upperfirst(e.name)
         /\ e.service # Cpp!Main => Cpp!Joined(e) = Cpp!Upperfirst(e.service) \o Cpp!Upperfirst(e.name)
<1> DEFINE s == e.service
           u == Cpp!Upperfirst(e.name)
           j == Cpp!Prefix(s) \o u
<1>1. Begins(e.name) /\ Begins(u) /\ (s # Cpp!Main => Begins(s))
  BY EntityTexts
<1>2. u[1].capital /\ LastWord(u) = LastWord(e.name) /\ (Divided(u) <=> Divided(e.name)) /\ Cpp!Upperfirst(u) = u
  <2>1. u[1].capital /\ LastWord(u) = LastWord(e.name) /\ (Divided(u) <=> Divided(e.name))
    BY <1>1, Letters DEF Begins, Alters
  <2> HIDE DEF u
  <2>2. Cpp!Upperfirst(u) = u
    BY <1>1, <2>1, Letters DEF Begins
  <2> QED
    BY <2>1, <2>2
<1>3. Cpp!Joined(e) = Cpp!Upperfirst(j)
  BY DEF Cpp!Joined
<1> HIDE DEF u
<1>4. CASE s = Cpp!Main
  <2>1. j = u
    <3>1. j = <<>> \o u
      BY <1>4 DEF Cpp!Prefix
    <3>2. <<>> \o u = u
      BY <1>1, ConcatEmptySeq DEF Begins, Text
    <3> QED
      BY <3>1, <3>2
  <2> HIDE DEF j
  <2>2. Cpp!Joined(e) = u
    BY <2>1, <1>2, <1>3
  <2> QED
    BY <1>1, <1>2, <1>4, <2>1, <2>2 DEF Begins, j, u
<1>5. CASE s # Cpp!Main
  <2>1. j = s \o u
    BY <1>5 DEF Cpp!Prefix
  <2> HIDE DEF j
  <2>2. s \in Text /\ s # <<>> /\ FirstWord(s) # "_" /\ u \in Text /\ u # <<>>
    BY <1>1, <1>5 DEF Begins
  <2>3. Cpp!Upperfirst(s \o u) = Cpp!Upperfirst(s) \o u
    BY ONLY <2>2, FirstLetters
  <2>4. j \in Text /\ j # <<>> /\ LastWord(j) = LastWord(u) /\ FirstWord(j) = FirstWord(s)
        /\ (Divided(j) <=> Divided(s) \/ Divided(u))
    BY <2>1, <2>2, Together
  <2>5. FirstWord(j) \notin {"_", "__"}
    BY <2>4, <1>1, <1>5 DEF Begins
  <2>6. /\ Cpp!Upperfirst(j) \in Text /\ Cpp!Upperfirst(j) # <<>> /\ FirstWord(Cpp!Upperfirst(j)) = FirstWord(j)
        /\ LastWord(Cpp!Upperfirst(j)) = LastWord(j) /\ (Divided(Cpp!Upperfirst(j)) <=> Divided(j))
        /\ Cpp!Upperfirst(j)[1].capital
    BY <2>4, <2>5, Letters DEF Alters
  <2>7. Begins(Cpp!Joined(e)) /\ Cpp!Joined(e)[1].capital /\ LastWord(Cpp!Joined(e)) = LastWord(e.name)
    BY <1>2, <1>3, <2>4, <2>5, <2>6 DEF Begins
  <2>8. Divided(Cpp!Joined(e)) => Divided(e.name) \/ Divided(e.service)
    BY <1>2, <1>3, <2>4, <2>6
  <2>9. Cpp!Joined(e) = Cpp!Upperfirst(e.service) \o Cpp!Upperfirst(e.name)
    BY <1>3, <2>1, <2>3 DEF u
  <2> QED
    BY <1>2, <1>5, <2>4, <2>7, <2>8, <2>9 DEF j, u
<1> QED
  BY <1>4, <1>5

LEMMA QualifiedText ==
  ASSUME NEW e \in Cpp!Entity
  PROVE  LET q == Cpp!Qualified(e.service, e)
         IN  /\ q \in Text /\ q # <<>> /\ LastWord(q) = LastWord(e.name)
             /\ e.service = Cpp!Main => q = e.name
             /\ e.service # Cpp!Main => Divided(q) /\ FirstWord(q) = FirstWord(e.service)
<1> DEFINE s == e.service
           q == Cpp!Qualified(s, e)
<1>1. Begins(e.name) /\ (s # Cpp!Main => Begins(s))
  BY EntityTexts
<1>2. CASE s = Cpp!Main
  <2>1. q = e.name
    BY <1>2 DEF Cpp!Qualified
  <2> QED
    BY <1>1, <1>2, <2>1 DEF Begins
<1>3. CASE s # Cpp!Main
  <2>1. q = (s \o Cpp!Sep) \o e.name
    BY <1>3 DEF Cpp!Qualified
  <2> HIDE DEF q
  <2>2. s \in Text /\ s # <<>> /\ e.name \in Text /\ e.name # <<>>
    BY <1>1, <1>3 DEF Begins
  <2>3. /\ s \o Cpp!Sep \in Text /\ s \o Cpp!Sep # <<>> /\ FirstWord(s \o Cpp!Sep) = FirstWord(s)
        /\ Divided(s \o Cpp!Sep)
    <3>1. Cpp!Sep \in Text /\ Cpp!Sep # <<>> /\ Divided(Cpp!Sep)
      BY Marks
    <3> QED
      BY <2>2, <3>1, Together
  <2>4. /\ q \in Text /\ q # <<>> /\ FirstWord(q) = FirstWord(s) /\ LastWord(q) = LastWord(e.name)
        /\ Divided(q)
    BY <2>1, <2>2, <2>3, Together
  <2> QED
    BY <2>4, <1>3 DEF q
<1> QED
  BY <1>2, <1>3

\* Every name of an entity's method, signal or property is the property's but for its
\* first letter.
LEMMA Keys ==
  ASSUME NEW e \in Cpp!Entity
  PROVE  /\ Cpp!Lowerfirst(Cpp!Qualified(e.service, e)) = Cpp!PropertyVarName(e)
         /\ Cpp!Lowerfirst(Cpp!RpcMethodNameQt(e)) = Cpp!PropertyVarName(e)
         /\ Cpp!Lowerfirst(Cpp!PropertyVarName(e)) = Cpp!PropertyVarName(e)
         /\ Cpp!SignalMethodNameQt(e) = Cpp!PropertyVarName(e)
         /\ \A n \in {Cpp!RpcMethodNameQt(e), Cpp!PropertyVarName(e)} :
              n \in Text /\ n # <<>> /\ FirstWord(n) \in {FirstWord(e.name), FirstWord(e.service)}
<1> DEFINE s == e.service
           n == e.name
           l == Cpp!Lowerfirst(s)
<1>1. Begins(n) /\ Begins(Cpp!Lowerfirst(n)) /\ (s # Cpp!Main => Begins(s) /\ Begins(l))
  BY EntityTexts
<1>2. Cpp!SignalMethodNameQt(e) = Cpp!PropertyVarName(e)
  BY DEF Cpp!SignalMethodNameQt, Cpp!PropertyVarName
<1>3. CASE s = Cpp!Main
  <2>1. /\ Cpp!Qualified(s, e) = n /\ Cpp!RpcMethodNameQt(e) = n
        /\ Cpp!PropertyVarName(e) = Cpp!Lowerfirst(n)
    BY <1>3 DEF Cpp!Qualified, Cpp!RpcMethodNameQt, Cpp!PropertyVarName
  <2>2. FirstWord(Cpp!Lowerfirst(n)) = FirstWord(n) /\ ~Cpp!Lowerfirst(n)[1].capital
    BY <1>1, Letters DEF Begins, Alters
  <2> DEFINE k == Cpp!Lowerfirst(n)
  <2>3. k \in Text /\ k # <<>> /\ FirstWord(k) # "_" /\ ~k[1].capital
    BY <2>2, <1>1 DEF Begins
  <2> HIDE DEF k
  <2>4. Cpp!Lowerfirst(k) = k
    BY <2>3, Letters
  <2> QED
    BY <1>1, <1>2, <2>1, <2>2, <2>3, <2>4 DEF k, Begins
<1>4. CASE s # Cpp!Main
  <2> DEFINE t == Cpp!Sep \o n
             k == l \o t
  <2>1. s \in Text /\ s # <<>> /\ FirstWord(s) # "_" /\ l \in Text /\ l # <<>> /\ FirstWord(l) # "_"
        /\ n \in Text /\ n # <<>>
    BY <1>1, <1>4 DEF Begins
  <2>2. FirstWord(l) = FirstWord(s) /\ ~l[1].capital
    BY <2>1, Letters DEF Alters
  <2>3. t \in Text /\ t # <<>> /\ Cpp!Sep \in Text
    BY <2>1, Marks, Together
  <2>4. s \o Cpp!Sep \o n = s \o t /\ l \o Cpp!Sep \o n = l \o t
    <3>1. \A x, y, z \in Text : (x \o y) \o z = x \o (y \o z)
      BY RegroupedText
    <3>2. (s \o Cpp!Sep) \o n = s \o (Cpp!Sep \o n)
      BY ONLY <2>1, <2>3, <3>1, ZenonT(40)
    <3>3. (l \o Cpp!Sep) \o n = l \o (Cpp!Sep \o n)
      BY ONLY <2>1, <2>3, <3>1, ZenonT(40)
    <3> QED
      BY ONLY <3>2, <3>3 DEF t
  <2>5. /\ Cpp!Qualified(s, e) = s \o Cpp!Sep \o n /\ Cpp!RpcMethodNameQt(e) = l \o Cpp!Sep \o n
        /\ Cpp!PropertyVarName(e) = l \o Cpp!Sep \o n
    BY <1>4 DEF Cpp!Qualified, Cpp!RpcMethodNameQt, Cpp!PropertyVarName
  <2> HIDE DEF t
  <2>6. Cpp!Lowerfirst(s \o t) = l \o t
    BY <2>1, <2>3, FirstLetters
  <2>7. Cpp!Lowerfirst(l) = l /\ Cpp!Lowerfirst(l \o t) = Cpp!Lowerfirst(l) \o t
    <3> HIDE DEF l
    <3> QED
      BY <2>1, <2>2, <2>3, Letters
  <2>8. k \in Text /\ k # <<>> /\ FirstWord(k) = FirstWord(l)
    BY <2>1, <2>3, Together
  <2>9. Cpp!Qualified(s, e) = s \o t /\ Cpp!RpcMethodNameQt(e) = k /\ Cpp!PropertyVarName(e) = k
    BY <2>4, <2>5
  <2>10. Cpp!Lowerfirst(s \o t) = k /\ Cpp!Lowerfirst(k) = k
    BY <2>6, <2>7
  <2> HIDE DEF k
  <2> QED
    BY <1>2, <2>2, <2>8, <2>9, <2>10
<1> QED
  BY <1>3, <1>4

-----------------------------------------------------------------------------
(* Plain names.                                                            *)

LEMMA PlainTexts ==
  ASSUME NEW e, Cpp!Plain(e)
  PROVE  /\ ~Divided(e.name) /\ ~Divided(e.service)
         /\ FirstWord(e.name) \notin {"m_", "Return"} /\ FirstWord(e.service) # "m_"
         /\ LastWord(e.name) \notin {"Cb", "RpcIf"}
BY DEF Cpp!Plain, Divided, FirstWord, LastWord

LEMMA PlainOf ==
  ASSUME NEW e, ~Divided(e.name), ~Divided(e.service),
         FirstWord(e.name) \notin {"m_", "Return"}, FirstWord(e.service) # "m_",
         LastWord(e.name) \notin {"Cb", "RpcIf"}
  PROVE  Cpp!Plain(e)
BY DEF Cpp!Plain, Divided, FirstWord, LastWord

\* What a property is lowered to is as plain as the property.
LEMMA LoweredPlain ==
  ASSUME NEW p \in Cpp!Entity, Cpp!Plain(p)
  PROVE  Cpp!Plain(Cpp!ChangedSignal(p)) /\ Cpp!Plain(Cpp!SetRpc(p)) /\ Cpp!Plain(Cpp!ToggleRpc(p))
<1> DEFINE n == p.name
           u == Cpp!Upperfirst(n)
           l == Cpp!Lowerfirst(n)
<1>1. n \in Text /\ n # <<>> /\ FirstWord(n) # "_"
  BY EntityTexts DEF Begins
<1>2. Alters(u, n) /\ Alters(l, n)
  BY <1>1, Letters
<1>3. /\ ~Divided(n) /\ ~Divided(p.service) /\ FirstWord(p.service) # "m_"
      /\ FirstWord(n) \notin {"m_", "Return"} /\ LastWord(n) \notin {"Cb", "RpcIf"}
  BY PlainTexts
<1> HIDE DEF u, l
<1>4. ASSUME NEW w \in {"set", "toggle"}
      PROVE  LET m == Cpp!Low(w) \o u
             IN  ~Divided(m) /\ FirstWord(m) = w /\ LastWord(m) = LastWord(n)
  <2>1. w \in Vocabulary /\ w # "__"
    BY GeneratorAssumption
  <2>2. Cpp!Low(w) \in Text /\ Cpp!Low(w) # <<>> /\ FirstWord(Cpp!Low(w)) = w /\ ~Divided(Cpp!Low(w))
    BY <2>1, WordTexts
  <2>3. u \in Text /\ u # <<>> /\ ~Divided(u) /\ LastWord(u) = LastWord(n)
    BY <1>2, <1>3 DEF Alters
  <2> QED
    BY <2>2, <2>3, Together
<1>5. LET m == l \o Cpp!Cap("changed")
      IN  ~Divided(m) /\ FirstWord(m) = FirstWord(n) /\ LastWord(m) = "changed"
  <2>1. "changed" \in Vocabulary
    BY GeneratorAssumption
  <2> DEFINE c == Cpp!Cap("changed")
  <2>2. c \in Text /\ c # <<>> /\ LastWord(c) = "changed" /\ ~Divided(c)
    BY <2>1, WordTexts
  <2>3. l \in Text /\ l # <<>> /\ ~Divided(l) /\ FirstWord(l) = FirstWord(n)
    BY <1>2, <1>3 DEF Alters
  <2> QED
    BY <2>2, <2>3, Together
<1>6. /\ Cpp!SetRpc(p).service = p.service /\ Cpp!SetRpc(p).name = Cpp!Low("set") \o u
      /\ Cpp!ToggleRpc(p).service = p.service /\ Cpp!ToggleRpc(p).name = Cpp!Low("toggle") \o u
      /\ Cpp!ChangedSignal(p).service = p.service /\ Cpp!ChangedSignal(p).name = l \o Cpp!Cap("changed")
  BY DEF Cpp!SetRpc, Cpp!ToggleRpc, Cpp!ChangedSignal, Cpp!Rpc, Cpp!Signal, u, l
<1>7. Cpp!Plain(Cpp!SetRpc(p))
  BY <1>3, <1>4, <1>6, PlainOf
<1>8. Cpp!Plain(Cpp!ToggleRpc(p))
  BY <1>3, <1>4, <1>6, PlainOf
<1>9. Cpp!Plain(Cpp!ChangedSignal(p))
  BY <1>3, <1>5, <1>6, PlainOf
<1> QED
  BY <1>7, <1>8, <1>9

PlainInterface == language = "cpp" => \A e \in iface : Cpp!Plain(e)

LEMMA PlainStart == Cpp!PlainNames /\ Start => PlainInterface
<1> SUFFICES ASSUME Cpp!PlainNames, Start, language = "cpp", NEW e \in iface PROVE Cpp!Plain(e)
  BY DEF PlainInterface
<1>1. PICK d \in Descriptions : iface = Cpp!Normalized(d)
  BY DEF Start, Cpp!Init
<1>2. d \subseteq Cpp!Entity /\ \A x \in d : Cpp!Plain(x)
  BY GeneratorAssumption DEF Cpp!PlainNames
<1>3. CASE e \in d
  BY <1>2, <1>3
<1>4. CASE e \notin d
  <2>1. e \in Cpp!FromProperties(d)
    BY <1>1, <1>4 DEF Cpp!Normalized
  <2>2. PICK p \in d : e = Cpp!ChangedSignal(p) \/ e = Cpp!SetRpc(p) \/ e = Cpp!ToggleRpc(p)
    BY <2>1 DEF Cpp!FromProperties, Cpp!Properties
  <2> QED
    BY <1>2, <2>2, LoweredPlain
<1> QED
  BY <1>3, <1>4

LEMMA PlainHolds == Cpp!PlainNames /\ Generate => []PlainInterface
<1>1. PlainInterface /\ [Step]_<<language, output, vars, cppVars>> => PlainInterface'
  <2> SUFFICES ASSUME PlainInterface, [Step]_<<language, output, vars, cppVars>> PROVE PlainInterface'
    OBVIOUS
  <2>1. language' = language
    BY DEF Step, RenderPython, RenderCpp, FailCpp, Write
  <2>2. iface' = iface
    BY DEF Step, RenderPython, RenderCpp, FailCpp, Write, cppVars, Cpp!Next, Cpp!Render,
       Cpp!SchemaFile, Cpp!TransportHeader, Cpp!TransportInline, Cpp!ClientHeader, Cpp!ClientInline,
       Cpp!ClientSource, Cpp!RpcInterfaces, Cpp!ServerHeader, Cpp!ServerSource, Cpp!QtHeader, Cpp!QtSource
  <2> QED
    BY <2>1, <2>2 DEF PlainInterface
<1> QED
  BY PlainStart, <1>1, PTL DEF Generate

-----------------------------------------------------------------------------
(* The names that are put together tell what they were put together from.  *)

StructName(w, e) == Cpp!Cap(w) \o Cpp!Prefix(e.service) \o Cpp!Upperfirst(e.name)

LEMMA StructNames ==
  ASSUME NEW w \in Generated, NEW e \in Cpp!Entity
  PROVE  /\ FirstWord(StructName(w, e)) = w /\ LastWord(StructName(w, e)) = LastWord(e.name)
         /\ StructName(w, e) = Cpp!Cap(w) \o (Cpp!Prefix(e.service) \o Cpp!Upperfirst(e.name))
<1> DEFINE c == Cpp!Cap(w)
           f == Cpp!Prefix(e.service)
           u == Cpp!Upperfirst(e.name)
<1>1. c \in Text /\ c # <<>> /\ FirstWord(c) = w
  BY WordTexts
<1>2. f \in Text /\ u \in Text
  <2>1. <<>> \in Text
    BY EmptySeq DEF Text
  <2> QED
    BY <2>1, EntityTexts DEF Begins, Cpp!Prefix
<1>3. f \o u \in Text /\ f \o u # <<>> /\ LastWord(f \o u) = LastWord(e.name)
  BY JoinedText
<1>4. StructName(w, e) = c \o (f \o u)
  <2>1. c \o f \o u = c \o (f \o u)
    BY ONLY <1>1, <1>2, RegroupedText, Zenon
  <2> QED
    BY <2>1 DEF StructName
<1> HIDE DEF c, f, u
<1>5. FirstWord(c \o (f \o u)) = w /\ LastWord(c \o (f \o u)) = LastWord(e.name)
  BY <1>1, <1>3, Together
<1> QED
  BY <1>4, <1>5 DEF c, f, u

LEMMA StructOfOne ==
  ASSUME NEW w \in Generated, NEW d \in Cpp!Entity, NEW e \in Cpp!Entity, StructName(w, d) = StructName(w, e)
  PROVE  Cpp!Joined(d) = Cpp!Joined(e)
<1> DEFINE c == Cpp!Cap(w)
           j(x) == Cpp!Prefix(x.service) \o Cpp!Upperfirst(x.name)
<1>1. c \in Text /\ j(d) \in Text /\ j(e) \in Text
  BY WordTexts, JoinedText
<1>2. c \o j(d) = c \o j(e)
  BY StructNames
<1>3. j(d) = j(e)
  <2> HIDE DEF c, j
  <2> QED
    BY ONLY <1>1, <1>2, Cancelled
<1> QED
  BY <1>3 DEF Cpp!Joined

ReturnName(e) == Cpp!Cap("Return") \o e.service \o Cpp!Upperfirst(e.name)

LEMMA ReturnNames ==
  ASSUME NEW e \in Cpp!Entity
  PROVE  /\ FirstWord(ReturnName(e)) = "Return" /\ ReturnName(e)[1].capital
         /\ LastWord(ReturnName(e)) = LastWord(e.name)
         /\ Divided(ReturnName(e)) => Divided(e.name) \/ Divided(e.service)
         /\ ReturnName(e) = Cpp!Cap("Return") \o (e.service \o Cpp!Upperfirst(e.name))
         /\ Cpp!Upperfirst(e.name) \in Text /\ Cpp!Upperfirst(e.name) # <<>>
         /\ e.service \in Text /\ e.service # <<>> /\ e.service \o Cpp!Upperfirst(e.name) \in Text
<1> DEFINE c == Cpp!Cap("Return")
           s == e.service
           u == Cpp!Upperfirst(e.name)
<1>1. c \in Text /\ c # <<>> /\ FirstWord(c) = "Return" /\ c[1].capital /\ ~Divided(c)
  <2>1. "Return" \in Generated
    BY DEF Generated
  <2> QED
    BY <2>1, WordTexts, SmallCapital
<1>2. s \in Text /\ s # <<>>
  BY EntityTexts, Marks DEF Begins
<1>3. u \in Text /\ u # <<>> /\ LastWord(u) = LastWord(e.name) /\ (Divided(u) <=> Divided(e.name))
  <2>1. e.name \in Text /\ e.name # <<>> /\ FirstWord(e.name) # "_"
    BY EntityTexts DEF Begins
  <2>2. Alters(u, e.name)
    BY <2>1, Letters
  <2> QED
    BY <2>2 DEF Alters
<1> HIDE DEF c, u
<1>4. s \o u \in Text /\ s \o u # <<>> /\ LastWord(s \o u) = LastWord(u) /\ (Divided(s \o u) <=> Divided(s) \/ Divided(u))
  BY <1>2, <1>3, Together
<1>5. c \o s \o u = c \o (s \o u)
  BY ONLY <1>1, <1>2, <1>3, RegroupedText, Zenon
<1>6. /\ (c \o (s \o u))[1] = c[1] /\ FirstWord(c \o (s \o u)) = FirstWord(c)
      /\ LastWord(c \o (s \o u)) = LastWord(s \o u)
      /\ Divided(c \o (s \o u)) <=> Divided(c) \/ Divided(s \o u)
  BY <1>1, <1>4, Together
<1>7. ReturnName(e) = c \o (s \o u)
  BY <1>5 DEF ReturnName, c, u
<1> QED
  BY <1>1, <1>2, <1>3, <1>4, <1>6, <1>7 DEF c, u

LEMMA ReturnOfOne ==
  ASSUME NEW d \in Cpp!Entity, NEW e \in Cpp!Entity, ReturnName(d) = ReturnName(e)
  PROVE  Cpp!Joined(d) = Cpp!Joined(e)
<1> DEFINE c == Cpp!Cap("Return")
           r(x) == x.service \o Cpp!Upperfirst(x.name)
<1>1. c \in Text /\ r(d) \in Text /\ r(e) \in Text
  <2>1. "Return" \in Generated
    BY DEF Generated
  <2> QED
    BY <2>1, WordTexts, ReturnNames
<1>2. c \o r(d) = c \o r(e)
  BY ReturnNames
<1>3. r(d) = r(e)
  <2> HIDE DEF c, r
  <2> QED
    BY ONLY <1>1, <1>2, Cancelled
<1>4. ASSUME NEW x \in Cpp!Entity
      PROVE  FirstWord(r(x)) = FirstWord(x.service) /\ (x.service # Cpp!Main <=> FirstWord(x.service) # "_")
  <2>1. FirstWord(r(x)) = FirstWord(x.service)
    BY ReturnNames, Together
  <2>2. x.service # Cpp!Main => FirstWord(x.service) # "_"
    BY EntityTexts DEF Begins
  <2> QED
    BY <2>1, <2>2, Marks
<1>5. d.service = Cpp!Main <=> e.service = Cpp!Main
  BY <1>3, <1>4
<1>6. CASE d.service = Cpp!Main /\ e.service = Cpp!Main
  <2>1. Cpp!Upperfirst(d.name) = Cpp!Upperfirst(e.name)
    <3>1. Cpp!Main \o Cpp!Upperfirst(d.name) = Cpp!Main \o Cpp!Upperfirst(e.name)
      BY <1>3, <1>6
    <3>2. Cpp!Main \in Text /\ Cpp!Upperfirst(d.name) \in Text /\ Cpp!Upperfirst(e.name) \in Text
      BY Marks, ReturnNames
    <3> QED
      BY ONLY <3>1, <3>2, Cancelled
  <2> QED
    BY <1>6, <2>1, JoinedText
<1>7. CASE d.service # Cpp!Main /\ e.service # Cpp!Main
  BY <1>3, <1>7 DEF Cpp!Joined, Cpp!Prefix
<1> QED
  BY <1>5, <1>6, <1>7

LEMMA CallbackNames ==
  ASSUME NEW e \in Cpp!Entity
  PROVE  /\ Begins(Cpp!CbType(e)) /\ Cpp!CbType(e)[1].capital /\ LastWord(Cpp!CbType(e)) = "Cb"
         /\ FirstWord(Cpp!CbMember(e)) = "m_" /\ LastWord(Cpp!CbMember(e)) = "Cb" /\ ~Cpp!CbMember(e)[1].capital
         /\ FirstWord(Cpp!RegistrationName(e)) = "on" /\ ~Cpp!RegistrationName(e)[1].capital
         /\ Divided(Cpp!RegistrationName(e)) => Divided(e.name) \/ Divided(e.service)
<1> DEFINE j == Cpp!Joined(e)
           b == Cpp!Cap("Cb")
           m == Cpp!Low("m_")
           o == Cpp!Low("on")
           t == j \o b
           l == Cpp!Lowerfirst(t)
<1>1. Begins(j) /\ j[1].capital /\ (Divided(j) => Divided(e.name) \/ Divided(e.service))
  BY JoinedText
<1>2. b \in Text /\ b # <<>> /\ LastWord(b) = "Cb"
  BY WordTexts DEF Generated
<1>3. m \in Text /\ m # <<>> /\ FirstWord(m) = "m_" /\ ~m[1].capital
  BY WordTexts, SmallCapital DEF Generated
<1>4. o \in Text /\ o # <<>> /\ FirstWord(o) = "on" /\ ~o[1].capital /\ ~Divided(o)
  BY WordTexts, SmallCapital DEF Generated
<1>5. Cpp!CbType(e) = t /\ Cpp!CbMember(e) = m \o l /\ Cpp!RegistrationName(e) = o \o j
  BY DEF Cpp!CbType, Cpp!CbMember, Cpp!RegistrationName
<1> HIDE DEF j, b, m, o
<1>6. t \in Text /\ t # <<>> /\ t[1] = j[1] /\ FirstWord(t) = FirstWord(j) /\ LastWord(t) = "Cb"
  BY <1>1, <1>2, Together DEF Begins
<1>7. Begins(t) /\ t[1].capital
  BY <1>1, <1>6 DEF Begins
<1> HIDE DEF t
<1>8. Alters(l, t)
  BY <1>7, Letters DEF Begins
<1>9. l \in Text /\ l # <<>> /\ LastWord(l) = "Cb"
  BY <1>6, <1>8 DEF Alters
<1> HIDE DEF l
<1>10. FirstWord(m \o l) = "m_" /\ (m \o l)[1] = m[1] /\ LastWord(m \o l) = "Cb"
  BY <1>3, <1>9, Together
<1>11. FirstWord(o \o j) = "on" /\ (o \o j)[1] = o[1] /\ (Divided(o \o j) <=> Divided(j))
  BY <1>1, <1>4, Together DEF Begins
<1> QED
  BY <1>1, <1>3, <1>4, <1>5, <1>6, <1>7, <1>10, <1>11

\* Callbacks of one name are of entities that are joined to one.
LEMMA CallbackOfOne ==
  ASSUME NEW d \in Cpp!Entity, NEW e \in Cpp!Entity,
         \/ Cpp!CbType(d) = Cpp!CbType(e) \/ Cpp!CbMember(d) = Cpp!CbMember(e)
         \/ Cpp!RegistrationName(d) = Cpp!RegistrationName(e)
         \/ Cpp!SubscriptionCbType(d) = Cpp!SubscriptionCbType(e)
  PROVE  Cpp!Joined(d) = Cpp!Joined(e)
<1> DEFINE i == Cpp!Joined(d)
           j == Cpp!Joined(e)
           b == Cpp!Cap("Cb")
           c == Cpp!Cap("Subscr")
           m == Cpp!Low("m_")
           o == Cpp!Low("on")
<1>1. i \in Text /\ j \in Text
  BY JoinedText DEF Begins
<1>2. b \in Text /\ c \in Text /\ m \in Text /\ o \in Text
  BY WordTexts DEF Generated
<1>3. /\ Cpp!CbType(d) = i \o b /\ Cpp!CbType(e) = j \o b
      /\ Cpp!CbMember(d) = m \o Cpp!Lowerfirst(Cpp!CbType(d))
      /\ Cpp!CbMember(e) = m \o Cpp!Lowerfirst(Cpp!CbType(e))
      /\ Cpp!RegistrationName(d) = o \o i /\ Cpp!RegistrationName(e) = o \o j
      /\ Cpp!SubscriptionCbType(d) = i \o c \o b /\ Cpp!SubscriptionCbType(e) = j \o c \o b
  BY DEF Cpp!CbType, Cpp!CbMember, Cpp!RegistrationName, Cpp!SubscriptionCbType
<1> HIDE DEF i, j, b, c, m, o
<1>4. CASE Cpp!CbType(d) = Cpp!CbType(e)
  <2>1. i \o b = j \o b
    BY <1>3, <1>4
  <2>2. i = j
    BY ONLY <1>1, <1>2, <2>1, Cancelled
  <2> QED
    BY <2>2 DEF i, j
<1>5. CASE Cpp!RegistrationName(d) = Cpp!RegistrationName(e)
  <2>1. o \o i = o \o j
    BY <1>3, <1>5
  <2>2. i = j
    BY ONLY <1>1, <1>2, <2>1, Cancelled
  <2> QED
    BY <2>2 DEF i, j
<1>6. CASE Cpp!SubscriptionCbType(d) = Cpp!SubscriptionCbType(e)
  <2>1. i \o c \in Text /\ j \o c \in Text
    BY <1>1, <1>2, ConcatProperties DEF Text
  <2>2. (i \o c) \o b = (j \o c) \o b
    BY <1>3, <1>6
  <2>3. i \o c = j \o c
    BY ONLY <1>2, <2>1, <2>2, Cancelled
  <2>4. i = j
    BY ONLY <1>1, <1>2, <2>3, Cancelled
  <2> QED
    BY <2>4 DEF i, j
<1>7. CASE Cpp!CbMember(d) = Cpp!CbMember(e)
  <2>1. ASSUME NEW x \in Cpp!Entity
        PROVE  /\ Cpp!Lowerfirst(Cpp!CbType(x)) \in Text
               /\ Cpp!CbType(x) = Cpp!Upperfirst(Cpp!Lowerfirst(Cpp!CbType(x)))
    <3> DEFINE t == Cpp!CbType(x)
    <3>1. t \in Text /\ t # <<>> /\ FirstWord(t) # "_" /\ t # Cpp!Main /\ t[1].capital
      BY CallbackNames, Letters DEF Begins
    <3> HIDE DEF t
    <3>2. Alters(Cpp!Lowerfirst(t), t)
      BY <3>1, Letters
    <3>3. Cpp!Upperfirst(Cpp!Lowerfirst(t)) = Cpp!Upperfirst(t)
      <4>1. Cpp!Lowerfirst(t) = [t EXCEPT ![1].capital = FALSE]
        BY <3>1 DEF Cpp!Lowerfirst
      <4>2. Cpp!Upperfirst(t) = [t EXCEPT ![1].capital = TRUE]
        BY <3>1 DEF Cpp!Upperfirst
      <4>3. Cpp!Upperfirst(Cpp!Lowerfirst(t)) = [Cpp!Lowerfirst(t) EXCEPT ![1].capital = TRUE]
        BY <3>2 DEF Cpp!Upperfirst, Alters
      <4>4. DOMAIN t = 1..Len(t) /\ t = [k \in DOMAIN t |-> t[k]] /\ t[1] \in TextPart /\ 1 \in DOMAIN t
        <5>1. DOMAIN t = 1..Len(t) /\ t = [k \in DOMAIN t |-> t[k]] /\ Len(t) \in Nat \ {0}
          BY <3>1, EmptySeq, LenProperties DEF Text
        <5>2. 1 \in 1..Len(t)
          BY ONLY <5>1
        <5>3. t[1] \in TextPart
          BY <3>1, <5>2, ElementOfSeq DEF Text
        <5> QED
          BY <5>1, <5>2, <5>3
      <4>5. [[t[1] EXCEPT !.capital = FALSE] EXCEPT !.capital = TRUE] = [t[1] EXCEPT !.capital = TRUE]
        BY <4>4 DEF TextPart
      <4>6. [[t EXCEPT ![1].capital = FALSE] EXCEPT ![1].capital = TRUE] = [t EXCEPT ![1].capital = TRUE]
        BY ONLY <4>4, <4>5
      <4> QED
        BY ONLY <4>1, <4>2, <4>3, <4>6
    <3>4. Cpp!Upperfirst(t) = t
      BY <3>1, Letters
    <3> QED
      BY <3>2, <3>3, <3>4 DEF Alters, t
  <2>2. Cpp!Lowerfirst(Cpp!CbType(d)) = Cpp!Lowerfirst(Cpp!CbType(e))
    <3>1. Cpp!Lowerfirst(Cpp!CbType(d)) \in Text /\ Cpp!Lowerfirst(Cpp!CbType(e)) \in Text
      BY <2>1
    <3> QED
      <4> DEFINE k == Cpp!Lowerfirst(Cpp!CbType(d))
                 l == Cpp!Lowerfirst(Cpp!CbType(e))
      <4>1. m \o k = m \o l
        BY <1>3, <1>7
      <4>2. m \in Text /\ k \in Text /\ l \in Text
        BY <1>2, <3>1
      <4> HIDE DEF k, l
      <4>3. k = l
        BY ONLY <4>1, <4>2, Cancelled
      <4> QED
        BY <4>3 DEF k, l
  <2>3. Cpp!CbType(d) = Cpp!CbType(e)
    BY <2>1, <2>2
  <2> QED
    BY <2>3, <1>4
<1> QED
  BY <1>4, <1>5, <1>6, <1>7

\* What a service is named: an interface's type and the server's member of it.
LEMMA ServiceNames ==
  ASSUME NEW s \in Cpp!Name \cup {Cpp!Main}, NEW t \in Cpp!Name \cup {Cpp!Main},
         Cpp!RpcIfType(s) = Cpp!RpcIfType(t) \/ Cpp!RpcIfMember(s) = Cpp!RpcIfMember(t)
  PROVE  /\ s = Cpp!Main <=> t = Cpp!Main
         /\ Cpp!Upperfirst(s) = Cpp!Upperfirst(t)
<1> DEFINE r == Cpp!Cap("RpcIf")
           m == Cpp!Low("m_p")
           u(x) == Cpp!Upperfirst(x)
<1>1. r \in Text /\ r # <<>> /\ Len(r) = 1 /\ m \in Text /\ m # <<>>
  BY WordTexts DEF Generated
<1>2. ASSUME NEW x \in Cpp!Name \cup {Cpp!Main}
      PROVE  u(x) \in Text /\ u(x) # <<>> /\ (FirstWord(u(x)) = "_" <=> x = Cpp!Main)
  <2>1. CASE x = Cpp!Main
    BY <2>1, Marks DEF Cpp!Upperfirst
  <2>2. CASE x # Cpp!Main
    <3>1. x \in Text /\ x # <<>> /\ FirstWord(x) # "_"
      BY <2>2, NameType, NamesAreTexts DEF Cpp!Name, FirstWord
    <3>2. Alters(u(x), x)
      BY <3>1, Letters
    <3> QED
      BY <2>2, <3>1, <3>2 DEF Alters
  <2> QED
    BY <2>1, <2>2
<1>3. ASSUME NEW x \in Cpp!Name \cup {Cpp!Main}
      PROVE  /\ Cpp!RpcIfType(x) = IF x = Cpp!Main THEN r ELSE u(x) \o r
             /\ Cpp!RpcIfMember(x) = m \o u(x) \o r
  BY DEF Cpp!RpcIfType, Cpp!RpcIfMember
<1> HIDE DEF r, m, u
<1>4. ASSUME NEW x \in Cpp!Name \cup {Cpp!Main} PROVE u(x) \o r # r
  <2>1. Len(u(x) \o r) > 1
    BY <1>1, <1>2, Together
  <2> QED
    BY <1>1, <2>1
<1>5. CASE Cpp!RpcIfType(s) = Cpp!RpcIfType(t)
  <2>1. s = Cpp!Main <=> t = Cpp!Main
    BY <1>3, <1>4, <1>5
  <2>2. CASE s # Cpp!Main /\ t # Cpp!Main
    <3>1. u(s) \o r = u(t) \o r /\ u(s) \in Text /\ u(t) \in Text
      BY <1>2, <1>3, <1>5, <2>2
    <3> QED
      BY <1>1, <2>2, <3>1, Cancelled DEF u
  <2> QED
    BY <2>1, <2>2
<1>6. CASE Cpp!RpcIfMember(s) = Cpp!RpcIfMember(t)
  <2>1. m \o u(s) \o r = m \o u(t) \o r /\ u(s) \in Text /\ u(t) \in Text
    BY <1>2, <1>3, <1>6
  <2>2. m \o u(s) \in Text /\ m \o u(t) \in Text
    BY <1>1, <2>1, ConcatProperties DEF Text
  <2>3. m \o u(s) = m \o u(t)
    BY ONLY <1>1, <2>1, <2>2, Cancelled
  <2>4. u(s) = u(t)
    BY ONLY <1>1, <2>1, <2>3, Cancelled
  <2> QED
    BY <1>2, <2>4 DEF u
<1> QED
  BY <1>5, <1>6

LEMMA InterfaceNamed ==
  ASSUME NEW s \in Cpp!Name \cup {Cpp!Main}
  PROVE  LastWord(Cpp!RpcIfType(s)) = "RpcIf" /\ LastWord(Cpp!RpcIdEnum(s)) = "RpcIds"
<1> DEFINE r == Cpp!Cap("RpcIf")
           i == Cpp!Cap("RpcIds")
<1>1. r \in Text /\ r # <<>> /\ LastWord(r) = "RpcIf" /\ i \in Text /\ i # <<>> /\ LastWord(i) = "RpcIds"
  BY WordTexts DEF Generated
<1>2. CASE s = Cpp!Main
  <2>1. <<>> \o i = i
    BY <1>1, ConcatEmptySeq DEF Text
  <2>2. Cpp!RpcIfType(s) = r /\ Cpp!RpcIdEnum(s) = <<>> \o i
    BY <1>2 DEF Cpp!RpcIfType, Cpp!RpcIdEnum, Cpp!Prefix
  <2> QED
    BY <1>1, <2>1, <2>2
<1>3. CASE s # Cpp!Main
  <2>1. s \in Text /\ s # <<>> /\ FirstWord(s) # "_"
    BY <1>3, NameType, NamesAreTexts DEF Cpp!Name, FirstWord
  <2>2. Alters(Cpp!Upperfirst(s), s)
    BY <2>1, Letters
  <2>3. Cpp!Upperfirst(s) \in Text /\ Cpp!Upperfirst(s) # <<>>
    BY <2>2 DEF Alters
  <2>4. Cpp!RpcIfType(s) = Cpp!Upperfirst(s) \o r /\ Cpp!RpcIdEnum(s) = s \o i
    BY <1>3 DEF Cpp!RpcIfType, Cpp!RpcIdEnum, Cpp!Prefix
  <2> HIDE DEF r, i
  <2> QED
    <3>1. LastWord(Cpp!Upperfirst(s) \o r) = LastWord(r)
      BY <1>1, <2>3, Together
    <3>2. LastWord(s \o i) = LastWord(i)
      BY <1>1, <2>1, Together
    <3> QED
      BY <1>1, <2>4, <3>1, <3>2
<1> QED
  BY <1>2, <1>3

-----------------------------------------------------------------------------
(* What is declared where, scope by scope: its name and what it is of.     *)

InServiceId(r) == r.in = Cpp!ServiceId /\ \E s \in Cpp!Services : r.of = Cpp!Service(s) /\ r.name = Cpp!ServiceIdName(s)

InRpcIds(r) == \E e \in Cpp!Rpcs : r.of = e /\ r.in = Cpp!RpcIdEnum(e.service) /\ r.name = e.name

InNamespace(r) ==
  /\ r.in = Cpp!Namespace
  /\ \/ \E e \in Cpp!Rpcs :
          r.of = e /\ r.name \in {StructName("CAPNPParameter", e), StructName("CAPNPReturn", e), ReturnName(e)}
     \/ \E e \in Cpp!Signals : r.of = e /\ r.name = StructName("CAPNPSignalParameter", e)
     \/ \E s \in Cpp!Services : r.of = Cpp!Service(s) /\ r.name = Cpp!RpcIfType(s)

InTransport(r) ==
  r.in = Cpp!Transport /\ \E e \in Cpp!Rpcs : r.of = e /\ r.name = Cpp!Low("_") \o Cpp!Qualified(e.service, e)

InClient(r) ==
  /\ r.in \in {Cpp!ClientRpc} \cup Cpp!SignalClients
  /\ \/ \E e \in Cpp!Rpcs : r.of = e /\ r.name \in {Cpp!Qualified(e.service, e), ReturnName(e)}
     \/ \E e \in Cpp!Signals : r.of = e /\ r.name \in {Cpp!CbType(e), Cpp!CbMember(e), Cpp!RegistrationName(e)}
     \/ r.of = Cpp!Fixed /\ r.name \in Cpp!FixedOfClient

InInterface(r) ==
  \E e \in Cpp!Rpcs : r.of = e /\ r.in = Cpp!RpcIfType(e.service) /\ r.name \in {e.name, Cpp!ReturnTypeServer(e)}

InServer(r) == r.in = Cpp!Server /\ \E s \in Cpp!Services : r.of = Cpp!Service(s) /\ r.name = Cpp!RpcIfMember(s)

InServerSignals(r) ==
  /\ r.in = Cpp!ServerSignals
  /\ \/ \E e \in Cpp!Signals :
          r.of = e /\ r.name \in {Cpp!Qualified(e.service, e), Cpp!Low("register") \o Cpp!SubscriptionCbType(e)}
     \/ r.of = Cpp!Fixed /\ r.name \in Cpp!FixedOfSignals

OnWire(r) == r.in = Cpp!Wire /\ \E e \in Cpp!Signals : r.of = e /\ r.name = Cpp!Qualified(e.service, e)

InQt(r) ==
  /\ r.in \in {Cpp!QClientRpc, Cpp!QClientSignals, Cpp!QClient}
  /\ \/ \E e \in iface : /\ r.of = e
                         /\ r.name \in {Cpp!RpcMethodNameQt(e), Cpp!PropertyVarName(e),
                                        Cpp!Low("m_") \o Cpp!PropertyVarName(e)}
     \/ r.of = Cpp!Fixed /\ r.name \in Cpp!FixedOfQt \cup {Cpp!Low("m_") \o h : h \in Cpp!Halves}

\* What a reference says of what is declared.
Says(r, in, name, e) == r.in = in /\ r.name = name /\ r.of = e

LEMMA RefSays ==
  /\ \A in, name, takes, e : Says(Cpp!Method(in, name, takes, e), in, name, e)
  /\ \A in, name, e : /\ Says(Cpp!Member(in, name, e), in, name, e)
                      /\ Says(Cpp!Constant(in, name, e), in, name, e)
                      /\ Says(Cpp!Nested(in, name, e), in, name, e)
  /\ \A name, e : Says(Cpp!Type(name, e), Cpp!Namespace, name, e) /\ Says(Cpp!Topic(name, e), Cpp!Wire, name, e)
  /\ \A in, e, takes : Says(Cpp!QtSignal(in, e, takes), in, Cpp!SignalMethodNameQt(e), e)
BY DEF Says, Cpp!Method, Cpp!Member, Cpp!Constant, Cpp!Nested, Cpp!Type, Cpp!Topic, Cpp!QtSignal, Cpp!Ref

LEMMA SchemaScopes ==
  ASSUME CppInv, NEW r \in Cpp!SchemaDeclares
  PROVE  InServiceId(r) \/ InRpcIds(r) \/ InNamespace(r)
<1>1. ASSUME NEW s \in Cpp!Services, r = Cpp!ServiceNumber(s) PROVE InServiceId(r)
  <2>1. Says(r, Cpp!ServiceId, Cpp!ServiceIdName(s), Cpp!Service(s))
    BY <1>1, RefSays DEF Cpp!ServiceNumber
  <2> QED
    BY <2>1 DEF Says, InServiceId
<1>2. ASSUME NEW e \in Cpp!Rpcs, r \in Cpp!Coordinates(e) PROVE InServiceId(r) \/ InRpcIds(r)
  <2>1. CASE r = Cpp!ServiceNumber(e.service)
    <3>1. e.service \in Cpp!Services
      BY DEF Cpp!Rpcs, Cpp!Services
    <3> QED
      BY <1>1, <2>1, <3>1
  <2>2. CASE r = Cpp!Constant(Cpp!RpcIdEnum(e.service), e.name, e)
    <3>1. Says(r, Cpp!RpcIdEnum(e.service), e.name, e)
      BY <2>2, RefSays, Zenon
    <3> QED
      BY <3>1 DEF Says, InRpcIds
  <2> QED
    BY <1>2, <2>1, <2>2 DEF Cpp!Coordinates
<1>3. ASSUME NEW e \in Cpp!Rpcs, r \in Cpp!ParameterType(e) \/ r \in Cpp!ReturnType(e) PROVE InNamespace(r)
  <2>1. r = Cpp!Type(Cpp!ParameterStruct(e), e) \/ r = Cpp!Type(Cpp!ReturnStruct(e), e)
    BY <1>3 DEF Cpp!ParameterType, Cpp!ReturnType
  <2>2. Cpp!ParameterStruct(e) = StructName("CAPNPParameter", e) /\ Cpp!ReturnStruct(e) = StructName("CAPNPReturn", e)
    BY DEF Cpp!ParameterStruct, Cpp!ReturnStruct, StructName
  <2>3. \/ Says(r, Cpp!Namespace, StructName("CAPNPParameter", e), e)
        \/ Says(r, Cpp!Namespace, StructName("CAPNPReturn", e), e)
    BY <2>1, <2>2, RefSays
  <2> QED
    BY <2>3 DEF Says, InNamespace
<1>4. ASSUME NEW e \in Cpp!Signals, r \in Cpp!SignalType(e) PROVE InNamespace(r)
  <2>1. r = Cpp!Type(StructName("CAPNPSignalParameter", e), e)
    BY <1>4 DEF Cpp!SignalType, Cpp!SignalStruct, StructName
  <2>2. Says(r, Cpp!Namespace, StructName("CAPNPSignalParameter", e), e)
    BY <2>1, RefSays
  <2> QED
    BY <2>2 DEF Says, InNamespace
<1> QED
  BY <1>1, <1>2, <1>3, <1>4, SchemaHas

LEMMA ClientScopes ==
  ASSUME CppInv, NEW r \in Cpp!ClientDeclares
  PROVE  InClient(r)
<1>1. ASSUME NEW e \in Cpp!Rpcs, r = Cpp!ClientMethod(e) PROVE InClient(r)
  <2>1. Says(r, Cpp!ClientRpc, Cpp!Qualified(e.service, e), e)
    <3>1. \A in, name, takes : Says(Cpp!Method(in, name, takes, e), in, name, e)
      BY RefSays
    <3> QED
      BY <1>1, <3>1, Zenon DEF Cpp!ClientMethod, Cpp!RpcMethodName
  <2> QED
    BY <2>1 DEF Says, InClient
<1>2. ASSUME NEW e \in Cpp!Rpcs, r \in Cpp!ClientReturn(e) PROVE InClient(r)
  <2>1. r = Cpp!Nested(Cpp!ClientRpc, ReturnName(e), e)
    BY <1>2 DEF Cpp!ClientReturn, Cpp!ReturnTypeClient, ReturnName
  <2>2. Says(r, Cpp!ClientRpc, ReturnName(e), e)
    BY <2>1, RefSays
  <2> QED
    BY <2>2 DEF Says, InClient
<1>3. ASSUME NEW in \in Cpp!SignalClients, NEW e \in Cpp!Signals,
             r = Cpp!CallbackType(in, e) \/ r = Cpp!Registration(in, e) \/ r = Cpp!CallbackMember(in, e)
      PROVE  InClient(r)
  <2>1. \/ Says(r, in, Cpp!CbType(e), e) \/ Says(r, in, Cpp!RegistrationName(e), e)
        \/ Says(r, in, Cpp!CbMember(e), e)
    BY <1>3, RefSays DEF Cpp!CallbackType, Cpp!Registration, Cpp!CallbackMember
  <2> QED
    BY <2>1 DEF Says, InClient
<1>4. r \in Cpp!ClientAlways => InClient(r)
  BY FixedOfClasses DEF IsFixed, InClient
<1> QED
  BY <1>1, <1>2, <1>3, <1>4, ClientHas

LEMMA ServerScopes ==
  ASSUME CppInv, NEW r, r \in Cpp!InterfacesDeclare \cup Cpp!ServerDeclares
  PROVE  InNamespace(r) \/ InInterface(r) \/ InServer(r) \/ InServerSignals(r)
<1>1. \A s \in Cpp!RpcServices : s \in Cpp!Services
  BY DEF Cpp!RpcServices, Cpp!Rpcs, Cpp!Services
<1>2. ASSUME NEW s \in Cpp!RpcServices, r = Cpp!Interface(s) PROVE InNamespace(r)
  <2>1. Says(r, Cpp!Namespace, Cpp!RpcIfType(s), Cpp!Service(s))
    BY <1>2, RefSays DEF Cpp!Interface
  <2> QED
    BY <1>1, <2>1 DEF Says, InNamespace
<1>3. ASSUME NEW e \in Cpp!Rpcs, r = Cpp!Handler(e) PROVE InInterface(r)
  <2>1. Says(r, Cpp!RpcIfType(e.service), e.name, e)
    <3>1. \A in, name, takes : Says(Cpp!Method(in, name, takes, e), in, name, e)
      BY RefSays
    <3> QED
      BY <1>3, <3>1, Zenon DEF Cpp!Handler
  <2> QED
    BY <2>1 DEF Says, InInterface
<1>4. ASSUME NEW e \in Cpp!Rpcs, r \in Cpp!ServerReturn(e) PROVE InInterface(r)
  <2>1. r = Cpp!Nested(Cpp!RpcIfType(e.service), Cpp!ReturnTypeServer(e), e)
    BY <1>4 DEF Cpp!ServerReturn
  <2>2. Says(r, Cpp!RpcIfType(e.service), Cpp!ReturnTypeServer(e), e)
    BY <2>1, RefSays
  <2> QED
    BY <2>2 DEF Says, InInterface
<1>5. ASSUME NEW s \in Cpp!RpcServices, r = Cpp!InterfaceMember(s) PROVE InServer(r)
  <2>1. Says(r, Cpp!Server, Cpp!RpcIfMember(s), Cpp!Service(s))
    BY <1>5, RefSays DEF Cpp!InterfaceMember
  <2> QED
    BY <1>1, <2>1 DEF Says, InServer
<1>6. ASSUME NEW e \in Cpp!Signals, r = Cpp!Emitter(e) \/ r = Cpp!Register(e) PROVE InServerSignals(r)
  <2>1. \/ Says(r, Cpp!ServerSignals, Cpp!Qualified(e.service, e), e)
        \/ Says(r, Cpp!ServerSignals, Cpp!Low("register") \o Cpp!SubscriptionCbType(e), e)
    BY <1>6, RefSays DEF Cpp!Emitter, Cpp!Register, Cpp!SignalMethodName
  <2> QED
    BY <2>1 DEF Says, InServerSignals
<1>7. r \in Cpp!WithSignals(Cpp!ServerSignals, Cpp!FixedOfSignals) => InServerSignals(r)
  BY FixedOfClasses DEF IsFixed, InServerSignals
<1>8. CASE r \in Cpp!InterfacesDeclare
  BY <1>2, <1>3, <1>4, <1>8, InterfacesHave
<1>9. CASE r \in Cpp!ServerDeclares
  BY <1>5, <1>6, <1>7, <1>9, ServerHas
<1> QED
  BY <1>8, <1>9

LEMMA QtScopes ==
  ASSUME CppInv, NEW r \in Cpp!QtDeclares
  PROVE  InNamespace(r) \/ InQt(r)
<1>1. Cpp!Rpcs \subseteq iface /\ Cpp!Signals \subseteq iface /\ Cpp!Props \subseteq iface /\ Cpp!ValidForQt \subseteq iface
  BY DEF Cpp!Rpcs, Cpp!Signals, Cpp!Props, Cpp!ValidForQt
<1>2. iface \subseteq Cpp!Entity
  BY DEF CppInv
<1>3. ASSUME NEW e \in Cpp!Rpcs, r \in Cpp!Gadget(e) PROVE InNamespace(r)
  <2>1. r = Cpp!Type(ReturnName(e), e)
    BY <1>3 DEF Cpp!Gadget, Cpp!GadgetName, ReturnName
  <2>2. Says(r, Cpp!Namespace, ReturnName(e), e)
    BY <2>1, RefSays
  <2> QED
    BY <2>2 DEF Says, InNamespace
<1>4. ASSUME NEW in \in {Cpp!QClientRpc, Cpp!QClient}, NEW e \in Cpp!ValidForQt, r = Cpp!Invokable(in, e)
      PROVE  InQt(r)
  <2>1. Says(r, in, Cpp!RpcMethodNameQt(e), e)
    BY <1>4, RefSays, Zenon DEF Cpp!Invokable
  <2>2. e \in iface
    BY <1>1
  <2> QED
    BY <2>1, <2>2 DEF Says, InQt
<1>5. ASSUME NEW e \in Cpp!Signals,
             r = Cpp!QtSignal(Cpp!QClientSignals, e, Cpp!Parameters(e)) \/ r = Cpp!QClientSignal(e)
      PROVE  InQt(r)
  <2>1. e \in iface /\ Cpp!SignalMethodNameQt(e) = Cpp!PropertyVarName(e)
    BY <1>1, <1>2, Keys
  <2>2. CASE r = Cpp!QtSignal(Cpp!QClientSignals, e, Cpp!Parameters(e))
    <3>1. Says(r, Cpp!QClientSignals, Cpp!SignalMethodNameQt(e), e)
      BY <2>2, RefSays, Zenon
    <3> QED
      BY <2>1, <3>1 DEF Says, InQt
  <2>3. CASE r = Cpp!QClientSignal(e)
    <3>1. Says(r, Cpp!QClient, Cpp!SignalMethodNameQt(e), e)
      <4>1. \A takes : Says(Cpp!QtSignal(Cpp!QClient, e, takes), Cpp!QClient, Cpp!SignalMethodNameQt(e), e)
        BY RefSays, Zenon
      <4> QED
        BY <2>3, <4>1, Zenon DEF Cpp!QClientSignal
    <3> QED
      BY <2>1, <3>1 DEF Says, InQt
  <2> QED
    BY <1>5, <2>2, <2>3
<1>6. ASSUME NEW p \in Cpp!Props, r = Cpp!Getter(p) \/ r = Cpp!Cache(p) PROVE InQt(r)
  <2>1. \/ Says(r, Cpp!QClient, Cpp!PropertyVarName(p), p)
        \/ Says(r, Cpp!QClient, Cpp!Low("m_") \o Cpp!PropertyVarName(p), p)
    BY <1>6, RefSays DEF Cpp!Getter, Cpp!Cache
  <2>2. p \in iface
    BY <1>1
  <2> QED
    BY <2>1, <2>2 DEF Says, InQt
<1>7. r \in Cpp!QtAlways => InQt(r)
  BY FixedOfClasses DEF IsFixed, InQt
<1> QED
  BY <1>3, <1>4, <1>5, <1>6, <1>7, QtHas

LEMMA Scopes ==
  ASSUME CppInv, NEW f, NEW r \in Declares(f)
  PROVE  \/ InServiceId(r) \/ InRpcIds(r) \/ InNamespace(r) \/ InTransport(r) \/ InClient(r)
         \/ InInterface(r) \/ InServer(r) \/ InServerSignals(r) \/ OnWire(r) \/ InQt(r)
<1>1. \/ r \in Cpp!SchemaDeclares \/ r \in Cpp!Senders \/ r \in Cpp!ClientDeclares
      \/ r \in Cpp!InterfacesDeclare \cup Cpp!ServerDeclares \/ r \in Topics \/ r \in Cpp!QtDeclares
  BY DEF Declares
<1>2. ASSUME r \in Cpp!Senders PROVE InTransport(r)
  <2>1. PICK e \in Cpp!Rpcs : r = Cpp!Sender(e)
    BY <1>2 DEF Cpp!Senders
  <2>2. Says(r, Cpp!Transport, Cpp!Low("_") \o Cpp!Qualified(e.service, e), e)
    BY <2>1, RefSays DEF Cpp!Sender, Cpp!RpcMethodName
  <2> QED
    BY <2>2 DEF Says, InTransport
<1>3. ASSUME r \in Topics PROVE OnWire(r)
  <2>1. PICK e \in Cpp!Signals : r = Cpp!Topic(Cpp!SignalKeyName(e), e)
    BY <1>3 DEF Topics
  <2>2. Says(r, Cpp!Wire, Cpp!Qualified(e.service, e), e)
    BY <2>1, RefSays DEF Cpp!SignalKeyName
  <2> QED
    BY <2>2 DEF Says, OnWire
<1> QED
  BY <1>1, <1>2, <1>3, SchemaScopes, ClientScopes, ServerScopes, QtScopes

-----------------------------------------------------------------------------
(* One name in one scope.                                                  *)

Akin(x, y) == Cpp!Alike(x, y) \/ Cpp!Alike(y, x)

\* The interface is one of plain names; a and b are declared, with one name.
PlainEntities == \A e \in iface : e \in Cpp!Entity /\ Cpp!Plain(e)
Clash(a, b) == a.name = b.name /\ a.of # b.of

LEMMA AkinByName ==
  ASSUME NEW d \in Cpp!Entity, NEW e \in Cpp!Entity, Cpp!PropertyVarName(d) = Cpp!PropertyVarName(e)
  PROVE  Akin(d, e)
BY EntityType DEF Akin, Cpp!Alike

LEMMA AkinByQualified ==
  ASSUME NEW d \in Cpp!Entity, NEW e \in Cpp!Entity, Cpp!Qualified(d.service, d) = Cpp!Qualified(e.service, e)
  PROVE  Akin(d, e)
<1>1. Cpp!PropertyVarName(d) = Cpp!PropertyVarName(e)
  BY Keys
<1> QED
  BY <1>1, AkinByName

LEMMA AkinByJoined ==
  ASSUME NEW d, NEW e, Cpp!Joined(d) = Cpp!Joined(e), d.kind = e.kind, d.kind \in {"rpc", "signal"}
  PROVE  Akin(d, e)
BY DEF Akin, Cpp!Alike

LEMMA AkinServices ==
  ASSUME NEW s \in Cpp!Name \cup {Cpp!Main}, NEW t \in Cpp!Name \cup {Cpp!Main},
         Cpp!ServiceIdName(s) = Cpp!ServiceIdName(t)
  PROVE  Akin(Cpp!Service(s), Cpp!Service(t))
BY DEF Akin, Cpp!Alike, Cpp!Service

\* Services that differ in the first letter at most have one constant.
LEMMA SameServiceId ==
  ASSUME NEW s \in Cpp!Name \cup {Cpp!Main}, NEW t \in Cpp!Name \cup {Cpp!Main},
         s = Cpp!Main <=> t = Cpp!Main, Cpp!Upperfirst(s) = Cpp!Upperfirst(t)
  PROVE  Cpp!ServiceIdName(s) = Cpp!ServiceIdName(t)
<1>1. ASSUME NEW x \in Cpp!Name PROVE Cpp!Lowerfirst(x) = Cpp!Lowerfirst(Cpp!Upperfirst(x))
  <2>1. x \in Text /\ x # <<>> /\ x # Cpp!Main /\ FirstWord(x) # "_"
    BY NameType, NamesAreTexts DEF Cpp!Name, FirstWord
  <2>2. Alters(Cpp!Upperfirst(x), x)
    BY <2>1, Letters
  <2>3. DOMAIN x = 1..Len(x) /\ x = [k \in DOMAIN x |-> x[k]] /\ Len(x) \in Nat \ {0}
    BY <2>1, EmptySeq, LenProperties DEF Text
  <2>4. 1 \in DOMAIN x /\ 1 \in 1..Len(x)
    BY ONLY <2>3
  <2>5. x[1] \in TextPart
    BY <2>1, <2>4, ElementOfSeq DEF Text
  <2>6. /\ Cpp!Upperfirst(x) = [x EXCEPT ![1].capital = TRUE] /\ Cpp!Lowerfirst(x) = [x EXCEPT ![1].capital = FALSE]
        /\ Cpp!Lowerfirst(Cpp!Upperfirst(x)) = [Cpp!Upperfirst(x) EXCEPT ![1].capital = FALSE]
    BY <2>1, <2>2 DEF Cpp!Upperfirst, Cpp!Lowerfirst, Alters
  <2>7. [[x[1] EXCEPT !.capital = TRUE] EXCEPT !.capital = FALSE] = [x[1] EXCEPT !.capital = FALSE]
    BY <2>5 DEF TextPart
  <2>8. [[x EXCEPT ![1].capital = TRUE] EXCEPT ![1].capital = FALSE] = [x EXCEPT ![1].capital = FALSE]
    BY ONLY <2>3, <2>4, <2>7
  <2> QED
    BY ONLY <2>6, <2>8
<1>2. CASE s = Cpp!Main /\ t = Cpp!Main
  BY <1>2
<1>3. CASE s # Cpp!Main /\ t # Cpp!Main
  <2>1. Cpp!Lowerfirst(s) = Cpp!Lowerfirst(t)
    BY <1>1, <1>3
  <2> QED
    BY <1>3, <2>1 DEF Cpp!ServiceIdName
<1> QED
  BY <1>2, <1>3

LEMMA OfInterface ==
  ASSUME PlainEntities
  PROVE  /\ \A e \in Cpp!Rpcs : e \in iface /\ e \in Cpp!Entity /\ Cpp!Plain(e) /\ e.kind = "rpc"
         /\ \A e \in Cpp!Signals : e \in iface /\ e \in Cpp!Entity /\ Cpp!Plain(e) /\ e.kind = "signal"
         /\ \A s \in Cpp!Services : s \in Cpp!Name \cup {Cpp!Main}
<1>1. \A e \in Cpp!Rpcs : e \in iface /\ e.kind = "rpc"
  BY DEF Cpp!Rpcs
<1>2. \A e \in Cpp!Signals : e \in iface /\ e.kind = "signal"
  BY DEF Cpp!Signals
<1>3. ASSUME NEW s \in Cpp!Services PROVE s \in Cpp!Name \cup {Cpp!Main}
  <2>1. PICK e \in iface : s = e.service
    BY DEF Cpp!Services
  <2> QED
    BY <2>1, EntityType DEF PlainEntities
<1> QED
  BY <1>1, <1>2, <1>3 DEF PlainEntities

LEMMA ServiceIdClash ==
  ASSUME PlainEntities, NEW a, NEW b, InServiceId(a), InServiceId(b), Clash(a, b)
  PROVE  Akin(a.of, b.of)
<1>1. PICK s \in Cpp!Services : a.of = Cpp!Service(s) /\ a.name = Cpp!ServiceIdName(s)
  BY DEF InServiceId
<1>2. PICK t \in Cpp!Services : b.of = Cpp!Service(t) /\ b.name = Cpp!ServiceIdName(t)
  BY DEF InServiceId
<1>3. Akin(Cpp!Service(s), Cpp!Service(t))
  BY <1>1, <1>2, OfInterface, AkinServices DEF Clash
<1> QED
  BY <1>1, <1>2, <1>3

LEMMA RpcIdsClash ==
  ASSUME PlainEntities, NEW a, NEW b, InRpcIds(a), InRpcIds(b), a.in = b.in, Clash(a, b)
  PROVE  Akin(a.of, b.of)
<1>1. PICK d \in Cpp!Rpcs : a.of = d /\ a.in = Cpp!RpcIdEnum(d.service) /\ a.name = d.name
  BY DEF InRpcIds
<1>2. PICK e \in Cpp!Rpcs : b.of = e /\ b.in = Cpp!RpcIdEnum(e.service) /\ b.name = e.name
  BY DEF InRpcIds
<1>3. d \in Cpp!Entity /\ e \in Cpp!Entity /\ d.name = e.name
  BY <1>1, <1>2, OfInterface DEF Clash
<1> DEFINE i == Cpp!Cap("RpcIds")
           p(x) == Cpp!Prefix(x)
<1>4. p(d.service) \o i = p(e.service) \o i
  BY <1>1, <1>2 DEF Cpp!RpcIdEnum
<1>5. i \in Text
  BY WordTexts DEF Generated
<1>6. ASSUME NEW x \in Cpp!Entity PROVE p(x.service) \in Text /\ (p(x.service) = <<>> <=> x.service = Cpp!Main)
  <2>1. <<>> \in Text
    BY EmptySeq DEF Text
  <2> QED
    BY <2>1, EntityTexts DEF Begins, Cpp!Prefix
<1>7. p(d.service) = p(e.service)
  <2>1. p(d.service) \in Text /\ p(e.service) \in Text
    BY <1>3, <1>6
  <2> HIDE DEF i, p
  <2> QED
    BY ONLY <1>4, <1>5, <2>1, Cancelled
<1>8. d.service = e.service
  <2>1. d.service = Cpp!Main <=> e.service = Cpp!Main
    BY <1>3, <1>6, <1>7
  <2> QED
    BY <1>7, <2>1 DEF Cpp!Prefix
<1>9. Cpp!PropertyVarName(d) = Cpp!PropertyVarName(e)
  BY <1>3, <1>8 DEF Cpp!PropertyVarName, Cpp!Qualified
<1> QED
  BY <1>1, <1>2, <1>3, <1>9, AkinByName

LEMMA TransportClash ==
  ASSUME PlainEntities, NEW a, NEW b, 
         (InTransport(a) /\ InTransport(b)) \/ (OnWire(a) /\ OnWire(b)), Clash(a, b)
  PROVE  Akin(a.of, b.of)
<1> DEFINE q(x) == Cpp!Qualified(x.service, x)
           u == Cpp!Low("_")
<1>1. CASE InTransport(a) /\ InTransport(b)
  <2>1. PICK d \in Cpp!Rpcs : a.of = d /\ a.name = u \o q(d)
    BY <1>1 DEF InTransport
  <2>2. PICK e \in Cpp!Rpcs : b.of = e /\ b.name = u \o q(e)
    BY <1>1 DEF InTransport
  <2>3. d \in Cpp!Entity /\ e \in Cpp!Entity /\ u \o q(d) = u \o q(e)
    BY <2>1, <2>2, OfInterface DEF Clash
  <2>4. u \in Text /\ q(d) \in Text /\ q(e) \in Text
    BY <2>3, Marks, QualifiedText DEF Cpp!Main
  <2>5. q(d) = q(e)
    <3> HIDE DEF u, q
    <3> QED
      BY ONLY <2>3, <2>4, Cancelled
  <2> QED
    BY <2>1, <2>2, <2>3, <2>5, AkinByQualified
<1>2. CASE OnWire(a) /\ OnWire(b)
  <2>1. PICK d \in Cpp!Signals : a.of = d /\ a.name = q(d)
    BY <1>2 DEF OnWire
  <2>2. PICK e \in Cpp!Signals : b.of = e /\ b.name = q(e)
    BY <1>2 DEF OnWire
  <2>3. d \in Cpp!Entity /\ e \in Cpp!Entity /\ q(d) = q(e)
    BY <2>1, <2>2, OfInterface DEF Clash
  <2> QED
    BY <2>1, <2>2, <2>3, AkinByQualified
<1> QED
  BY <1>1, <1>2

LEMMA ServerClash ==
  ASSUME PlainEntities, NEW a, NEW b, InServer(a), InServer(b), Clash(a, b)
  PROVE  Akin(a.of, b.of)
<1>1. PICK s \in Cpp!Services : a.of = Cpp!Service(s) /\ a.name = Cpp!RpcIfMember(s)
  BY DEF InServer
<1>2. PICK t \in Cpp!Services : b.of = Cpp!Service(t) /\ b.name = Cpp!RpcIfMember(t)
  BY DEF InServer
<1>3. /\ s \in Cpp!Name \cup {Cpp!Main} /\ t \in Cpp!Name \cup {Cpp!Main}
      /\ Cpp!RpcIfMember(s) = Cpp!RpcIfMember(t)
  BY <1>1, <1>2, OfInterface DEF Clash
<1>4. Cpp!ServiceIdName(s) = Cpp!ServiceIdName(t)
  BY <1>3, ServiceNames, SameServiceId
<1> QED
  BY <1>1, <1>2, <1>3, <1>4, AkinServices

\* In the namespace: the first word tells the structures apart, the last an interface's type.
LEMMA NamespaceClash ==
  ASSUME PlainEntities, NEW a, NEW b, InNamespace(a), InNamespace(b), Clash(a, b)
  PROVE  Akin(a.of, b.of)
<1> DEFINE Struct(r, w, x) == r.of = x /\ r.name = StructName(w, x)
           Rpc(r) == \E e \in Cpp!Rpcs : \/ Struct(r, "CAPNPParameter", e) \/ Struct(r, "CAPNPReturn", e)
                                         \/ r.of = e /\ r.name = ReturnName(e)
           Sig(r) == \E e \in Cpp!Signals : Struct(r, "CAPNPSignalParameter", e)
           Srv(r) == \E s \in Cpp!Services : r.of = Cpp!Service(s) /\ r.name = Cpp!RpcIfType(s)
<1>1. \A r : InNamespace(r) => Rpc(r) \/ Sig(r) \/ Srv(r)
  BY DEF InNamespace
<1>2. ASSUME NEW e \in Cpp!Entity, NEW w \in {"CAPNPParameter", "CAPNPReturn", "CAPNPSignalParameter"}
      PROVE  FirstWord(StructName(w, e)) = w /\ LastWord(StructName(w, e)) = LastWord(e.name)
  BY StructNames DEF Generated
<1>3. ASSUME NEW e \in Cpp!Entity
      PROVE  FirstWord(ReturnName(e)) = "Return" /\ LastWord(ReturnName(e)) = LastWord(e.name)
  BY ReturnNames
<1>4. ASSUME NEW r, Rpc(r)
      PROVE  LastWord(r.name) # "RpcIf" /\ FirstWord(r.name) \in {"CAPNPParameter", "CAPNPReturn", "Return"}
  <2>1. PICK e \in Cpp!Rpcs : Struct(r, "CAPNPParameter", e) \/ Struct(r, "CAPNPReturn", e)
                              \/ (r.of = e /\ r.name = ReturnName(e))
    BY <1>4
  <2>2. e \in Cpp!Entity /\ LastWord(e.name) # "RpcIf"
    BY OfInterface, PlainTexts
  <2> QED
    BY <2>1, <2>2, <1>2, <1>3
<1>5. ASSUME NEW r, Sig(r)
      PROVE  LastWord(r.name) # "RpcIf" /\ FirstWord(r.name) = "CAPNPSignalParameter"
  <2>1. PICK e \in Cpp!Signals : Struct(r, "CAPNPSignalParameter", e)
    BY <1>5
  <2>2. e \in Cpp!Entity /\ LastWord(e.name) # "RpcIf"
    BY OfInterface, PlainTexts
  <2> QED
    BY <2>1, <2>2, <1>2
<1>6. ASSUME NEW r, Srv(r) PROVE LastWord(r.name) = "RpcIf"
  BY <1>6, OfInterface, InterfaceNamed
<1>7. CASE Rpc(a) /\ Rpc(b)
  <2>1. PICK d \in Cpp!Rpcs : Struct(a, "CAPNPParameter", d) \/ Struct(a, "CAPNPReturn", d)
                              \/ (a.of = d /\ a.name = ReturnName(d))
    BY <1>7
  <2>2. PICK e \in Cpp!Rpcs : Struct(b, "CAPNPParameter", e) \/ Struct(b, "CAPNPReturn", e)
                              \/ (b.of = e /\ b.name = ReturnName(e))
    BY <1>7
  <2>3. d \in Cpp!Entity /\ e \in Cpp!Entity /\ d.kind = "rpc" /\ e.kind = "rpc" /\ a.name = b.name
    BY OfInterface DEF Clash
  <2>4. \/ \E w \in {"CAPNPParameter", "CAPNPReturn"} : StructName(w, d) = StructName(w, e)
        \/ ReturnName(d) = ReturnName(e)
    BY <2>1, <2>2, <2>3, <1>2, <1>3
  <2>5. Cpp!Joined(d) = Cpp!Joined(e)
    BY <2>3, <2>4, StructOfOne, ReturnOfOne DEF Generated
  <2> QED
    BY <2>1, <2>2, <2>3, <2>5, AkinByJoined
<1>8. CASE Sig(a) /\ Sig(b)
  <2>1. PICK d \in Cpp!Signals : Struct(a, "CAPNPSignalParameter", d)
    BY <1>8
  <2>2. PICK e \in Cpp!Signals : Struct(b, "CAPNPSignalParameter", e)
    BY <1>8
  <2>3. d \in Cpp!Entity /\ e \in Cpp!Entity /\ d.kind = "signal" /\ e.kind = "signal" /\ a.name = b.name
    BY OfInterface DEF Clash
  <2>4. StructName("CAPNPSignalParameter", d) = StructName("CAPNPSignalParameter", e)
    BY <2>1, <2>2, <2>3
  <2>5. Cpp!Joined(d) = Cpp!Joined(e)
    BY <2>3, <2>4, StructOfOne DEF Generated
  <2> QED
    BY <2>1, <2>2, <2>3, <2>5, AkinByJoined
<1>9. CASE Srv(a) /\ Srv(b)
  <2>1. PICK s \in Cpp!Services : a.of = Cpp!Service(s) /\ a.name = Cpp!RpcIfType(s)
    BY <1>9
  <2>2. PICK t \in Cpp!Services : b.of = Cpp!Service(t) /\ b.name = Cpp!RpcIfType(t)
    BY <1>9
  <2>3. /\ s \in Cpp!Name \cup {Cpp!Main} /\ t \in Cpp!Name \cup {Cpp!Main}
        /\ Cpp!RpcIfType(s) = Cpp!RpcIfType(t)
    BY <2>1, <2>2, OfInterface DEF Clash
  <2>4. Cpp!ServiceIdName(s) = Cpp!ServiceIdName(t)
    BY <2>3, ServiceNames, SameServiceId
  <2> QED
    BY <2>1, <2>2, <2>3, <2>4, AkinServices
<1> HIDE DEF Struct, Rpc, Sig, Srv
<1>10. a.name = b.name
  BY DEF Clash
<1> QED
  BY <1>1, <1>4, <1>5, <1>6, <1>7, <1>8, <1>9, <1>10

\* What a client's names begin and end with.
LEMMA ClientTexts ==
  ASSUME NEW e \in Cpp!Entity, Cpp!Plain(e)
  PROVE  /\ LastWord(Cpp!Qualified(e.service, e)) # "Cb"
         /\ e.service = Cpp!Main => Cpp!Qualified(e.service, e) = e.name
         /\ e.service # Cpp!Main => Divided(Cpp!Qualified(e.service, e))
         /\ FirstWord(e.name) # "Return"
         /\ FirstWord(ReturnName(e)) = "Return" /\ ReturnName(e)[1].capital
         /\ LastWord(ReturnName(e)) # "Cb" /\ ~Divided(ReturnName(e))
         /\ LastWord(Cpp!CbType(e)) = "Cb" /\ Cpp!CbType(e)[1].capital
         /\ LastWord(Cpp!CbMember(e)) = "Cb" /\ ~Cpp!CbMember(e)[1].capital /\ FirstWord(Cpp!CbMember(e)) = "m_"
         /\ FirstWord(Cpp!RegistrationName(e)) = "on" /\ ~Cpp!RegistrationName(e)[1].capital
         /\ ~Divided(Cpp!RegistrationName(e))
BY PlainTexts, QualifiedText, ReturnNames, CallbackNames

\* What is there for every interface is one word, and none that the generator puts in.
LEMMA FixedNames ==
  ASSUME NEW n \in Cpp!FixedOfClient \cup Cpp!FixedOfSignals \cup Cpp!FixedOfQt \cup Cpp!Halves
  PROVE  /\ n \in Text /\ n # <<>> /\ ~Divided(n)
         /\ FirstWord(n) \notin {"_", "m_", "on", "Return"} /\ LastWord(n) # "Cb"
         /\ n \in Cpp!FixedOfQt \cup Cpp!Halves => Cpp!Lowerfirst(n) = n
<1>1. \E w \in FixedWords : n \in {Cpp!Low(w), Cpp!Cap(w)}
  BY DEF FixedWords, Cpp!FixedOfClient, Cpp!FixedOfSignals, Cpp!FixedOfQt, Cpp!Halves, Cpp!Handling, Cpp!Receiving
<1>2. PICK w \in FixedWords : n \in {Cpp!Low(w), Cpp!Cap(w)}
  BY <1>1
<1>3. w \in Generated /\ w \notin {"_", "__", "m_", "on", "Return", "Cb"}
  BY DEF Generated, FixedWords
<1>4. n \in Text /\ n # <<>> /\ FirstWord(n) = w /\ LastWord(n) = w /\ ~Divided(n)
  BY <1>2, <1>3, WordTexts
<1>5. ASSUME n \in Cpp!FixedOfQt \cup Cpp!Halves PROVE Cpp!Lowerfirst(n) = n
  <2>1. \E x : n = Cpp!Low(x)
    BY <1>5 DEF Cpp!FixedOfQt, Cpp!Halves, Cpp!Handling
  <2>2. ~n[1].capital
    BY <2>1, SmallCapital
  <2> QED
    BY <1>3, <1>4, <2>2, Letters
<1> QED
  BY <1>3, <1>4, <1>5

\* The client's classes: a callback ends with "Cb", a registration begins with "on".
LEMMA ClientClash ==
  ASSUME PlainEntities, NEW a, NEW b, InClient(a), InClient(b), Clash(a, b)
  PROVE  Akin(a.of, b.of)
<1> DEFINE Rpc(r, e) == r.of = e /\ r.name \in {Cpp!Qualified(e.service, e), ReturnName(e)}
           Sig(r, e) == r.of = e /\ r.name \in {Cpp!CbType(e), Cpp!CbMember(e), Cpp!RegistrationName(e)}
           Fix(r) == r.of = Cpp!Fixed /\ r.name \in Cpp!FixedOfClient
<1>1. \A r : InClient(r) => (\E e \in Cpp!Rpcs : Rpc(r, e)) \/ (\E e \in Cpp!Signals : Sig(r, e)) \/ Fix(r)
  BY DEF InClient
<1>2. a.name = b.name
  BY DEF Clash
<1>3. ASSUME NEW d \in Cpp!Rpcs, NEW e \in Cpp!Rpcs, Rpc(a, d), Rpc(b, e)
      PROVE  Akin(a.of, b.of)
  <2>1. d \in Cpp!Entity /\ e \in Cpp!Entity /\ d.kind = "rpc" /\ e.kind = "rpc" /\ Cpp!Plain(d) /\ Cpp!Plain(e)
    BY OfInterface
  <2>2. ASSUME NEW x \in Cpp!Entity, NEW y \in Cpp!Entity, Cpp!Plain(x), Cpp!Plain(y)
        PROVE  Cpp!Qualified(x.service, x) # ReturnName(y)
    <3>1. CASE x.service = Cpp!Main
      BY <2>2, <3>1, ClientTexts
    <3>2. CASE x.service # Cpp!Main
      BY <2>2, <3>2, ClientTexts
    <3> QED
      BY <3>1, <3>2
  <2>3. Cpp!Qualified(d.service, d) = Cpp!Qualified(e.service, e) \/ ReturnName(d) = ReturnName(e)
    <3>1. Cpp!Qualified(d.service, d) # ReturnName(e) /\ Cpp!Qualified(e.service, e) # ReturnName(d)
      BY <2>1, <2>2
    <3> QED
      BY <1>2, <1>3, <3>1
  <2>4. CASE ReturnName(d) = ReturnName(e)
    <3>1. Cpp!Joined(d) = Cpp!Joined(e)
      BY <2>1, <2>4, ReturnOfOne
    <3> QED
      BY <1>3, <2>1, <3>1, AkinByJoined
  <2> QED
    BY <1>3, <2>1, <2>3, <2>4, AkinByQualified
<1>4. ASSUME NEW d \in Cpp!Signals, NEW e \in Cpp!Signals, Sig(a, d), Sig(b, e)
      PROVE  Akin(a.of, b.of)
  <2>1. d \in Cpp!Entity /\ e \in Cpp!Entity /\ d.kind = "signal" /\ e.kind = "signal" /\ Cpp!Plain(d) /\ Cpp!Plain(e)
    BY OfInterface
  <2>2. ASSUME NEW x \in Cpp!Entity, NEW y \in Cpp!Entity, Cpp!Plain(x), Cpp!Plain(y)
        PROVE  /\ Cpp!CbType(x) # Cpp!CbMember(y) /\ Cpp!CbType(x) # Cpp!RegistrationName(y)
               /\ Cpp!CbMember(x) # Cpp!RegistrationName(y)
    <3>1. Cpp!CbType(x)[1].capital /\ ~Cpp!CbMember(y)[1].capital /\ ~Cpp!RegistrationName(y)[1].capital
      BY <2>2, ClientTexts
    <3>2. FirstWord(Cpp!CbMember(x)) = "m_" /\ FirstWord(Cpp!RegistrationName(y)) = "on"
      BY <2>2, ClientTexts
    <3> QED
      BY <3>1, <3>2
  <2>3. \/ Cpp!CbType(d) = Cpp!CbType(e) \/ Cpp!CbMember(d) = Cpp!CbMember(e)
        \/ Cpp!RegistrationName(d) = Cpp!RegistrationName(e)
    <3>1. /\ Cpp!CbType(d) # Cpp!CbMember(e) /\ Cpp!CbType(d) # Cpp!RegistrationName(e)
          /\ Cpp!CbMember(d) # Cpp!RegistrationName(e)
      BY <2>1, <2>2
    <3>2. /\ Cpp!CbType(e) # Cpp!CbMember(d) /\ Cpp!CbType(e) # Cpp!RegistrationName(d)
          /\ Cpp!CbMember(e) # Cpp!RegistrationName(d)
      BY <2>1, <2>2
    <3> QED
      BY <1>2, <1>4, <3>1, <3>2
  <2>4. Cpp!Joined(d) = Cpp!Joined(e)
    BY <2>1, <2>3, CallbackOfOne
  <2> QED
    BY <1>4, <2>1, <2>4, AkinByJoined
<1>5. ASSUME NEW x, NEW y, NEW d \in Cpp!Rpcs, NEW e \in Cpp!Signals, Rpc(x, d), Sig(y, e), x.name = y.name
      PROVE  Cpp!Alike(d, e)
  <2>1. d \in Cpp!Entity /\ e \in Cpp!Entity /\ d.kind = "rpc" /\ e.kind = "signal" /\ Cpp!Plain(d) /\ Cpp!Plain(e)
    BY OfInterface
  <2>2. LastWord(x.name) # "Cb"
    BY <1>5, <2>1, ClientTexts
  <2>3. y.name = Cpp!RegistrationName(e)
    BY <1>5, <2>1, <2>2, ClientTexts
  <2>4. x.name # ReturnName(d)
    BY <1>5, <2>1, <2>3, ClientTexts
  <2>5. d.service = Cpp!Main /\ d.name = Cpp!RegistrationName(e)
    <3>1. x.name = Cpp!Qualified(d.service, d)
      BY <1>5, <2>4
    <3>2. ~Divided(x.name)
      BY <1>5, <2>1, <2>3, ClientTexts
    <3> QED
      BY <1>5, <2>1, <2>3, <3>1, <3>2, ClientTexts
  <2> QED
    BY <2>1, <2>5 DEF Cpp!Alike
<1>6. ASSUME NEW x, NEW y, NEW d \in Cpp!Rpcs, NEW e \in Cpp!Signals, Rpc(x, d), Sig(y, e), x.name = y.name
      PROVE  x.of = d /\ y.of = e /\ Cpp!Alike(d, e)
  BY <1>5, <1>6
<1>7. ASSUME NEW x, NEW y, NEW d \in Cpp!Rpcs, Fix(x), Rpc(y, d), x.name = y.name
      PROVE  Cpp!Alike(x.of, y.of)
  <2>1. d \in Cpp!Entity /\ d.kind = "rpc" /\ Cpp!Plain(d)
    BY OfInterface
  <2>2. ~Divided(y.name) /\ FirstWord(y.name) # "Return"
    BY <1>7, FixedNames
  <2>3. y.name = Cpp!Qualified(d.service, d)
    BY <1>7, <2>1, <2>2, ClientTexts
  <2>4. d.service = Cpp!Main /\ d.name \in Cpp!FixedOfClient
    BY <1>7, <2>1, <2>2, <2>3, ClientTexts
  <2>5. Cpp!Fixed.kind = "fixed"
    BY DEF Cpp!Fixed
  <2> QED
    BY <1>7, <2>1, <2>4, <2>5 DEF Cpp!Alike
<1>8. ASSUME NEW x, NEW y, NEW e \in Cpp!Signals, Fix(x), Sig(y, e)
       PROVE  x.name # y.name
  <2>1. LastWord(x.name) # "Cb" /\ FirstWord(x.name) # "on"
    BY <1>8, FixedNames
  <2> QED
    BY <1>8, <2>1, OfInterface, ClientTexts
<1>9. Fix(a) /\ Fix(b) => a.of = b.of
  OBVIOUS
<1> HIDE DEF Rpc, Sig, Fix
<1>10. CASE \E d \in Cpp!Rpcs : Rpc(a, d)
  <2>1. PICK d \in Cpp!Rpcs : Rpc(a, d)
    BY <1>10
  <2>2. CASE \E e \in Cpp!Rpcs : Rpc(b, e)
    BY <2>1, <2>2, <1>3
  <2>3. CASE \E e \in Cpp!Signals : Sig(b, e)
    BY <2>1, <2>3, <1>2, <1>6 DEF Akin
  <2>4. CASE Fix(b)
    BY <2>1, <2>4, <1>2, <1>7 DEF Akin
  <2> QED
    BY <1>1, <2>2, <2>3, <2>4
<1>11. CASE \E d \in Cpp!Signals : Sig(a, d)
  <2>1. PICK d \in Cpp!Signals : Sig(a, d)
    BY <1>11
  <2>2. CASE \E e \in Cpp!Rpcs : Rpc(b, e)
    BY <2>1, <2>2, <1>2, <1>6 DEF Akin
  <2>3. CASE \E e \in Cpp!Signals : Sig(b, e)
    BY <2>1, <2>3, <1>4
  <2> QED
    BY <1>1, <1>2, <1>8, <2>1, <2>2, <2>3
<1>12. CASE Fix(a)
  <2>1. CASE \E e \in Cpp!Rpcs : Rpc(b, e)
    BY <1>12, <2>1, <1>2, <1>7 DEF Akin
  <2> QED
    BY <1>1, <1>2, <1>8, <1>9, <1>12, <2>1 DEF Clash
<1> QED
  BY <1>1, <1>10, <1>11, <1>12

LEMMA InterfaceClash ==
  ASSUME PlainEntities, NEW a, NEW b, InInterface(a), InInterface(b), a.in = b.in, Clash(a, b)
  PROVE  Akin(a.of, b.of)
<1>1. PICK d \in Cpp!Rpcs :
        a.of = d /\ a.in = Cpp!RpcIfType(d.service) /\ a.name \in {d.name, Cpp!ReturnTypeServer(d)}
  BY DEF InInterface
<1>2. PICK e \in Cpp!Rpcs :
        b.of = e /\ b.in = Cpp!RpcIfType(e.service) /\ b.name \in {e.name, Cpp!ReturnTypeServer(e)}
  BY DEF InInterface
<1>3. d \in Cpp!Entity /\ e \in Cpp!Entity /\ d.kind = "rpc" /\ e.kind = "rpc" /\ Cpp!Plain(d) /\ Cpp!Plain(e)
  BY OfInterface
<1>4. (d.service = Cpp!Main <=> e.service = Cpp!Main) /\ Cpp!Upperfirst(d.service) = Cpp!Upperfirst(e.service)
  <2>1. Cpp!RpcIfType(d.service) = Cpp!RpcIfType(e.service)
    BY <1>1, <1>2
  <2>2. d.service \in Cpp!Name \cup {Cpp!Main} /\ e.service \in Cpp!Name \cup {Cpp!Main}
    BY <1>3, EntityType
  <2> QED
    BY <2>1, <2>2, ServiceNames
<1> DEFINE c == Cpp!Cap("Return")
           u(x) == Cpp!Upperfirst(x.name)
<1>5. c \in Text /\ c # <<>> /\ FirstWord(c) = "Return"
  BY WordTexts DEF Generated
<1>6. ASSUME NEW x \in Cpp!Entity, Cpp!Plain(x)
      PROVE  /\ u(x) \in Text /\ u(x) # <<>> /\ Cpp!ReturnTypeServer(x) = c \o u(x)
             /\ FirstWord(Cpp!ReturnTypeServer(x)) = "Return" /\ FirstWord(x.name) # "Return"
  <2>1. u(x) \in Text /\ u(x) # <<>>
    BY EntityTexts DEF Begins
  <2>2. Cpp!ReturnTypeServer(x) = c \o u(x)
    BY DEF Cpp!ReturnTypeServer
  <2> HIDE DEF c, u
  <2> QED
    BY <1>5, <1>6, <2>1, <2>2, Together, PlainTexts
<1>7. d.name = e.name \/ Cpp!ReturnTypeServer(d) = Cpp!ReturnTypeServer(e)
  BY <1>1, <1>2, <1>3, <1>6 DEF Clash
<1>8. u(d) = u(e)
  <2>1. CASE d.name = e.name
    BY <2>1
  <2>2. CASE Cpp!ReturnTypeServer(d) = Cpp!ReturnTypeServer(e)
    <3>1. c \o u(d) = c \o u(e) /\ u(d) \in Text /\ u(e) \in Text
      BY <1>3, <1>6, <2>2
    <3> HIDE DEF c, u
    <3> QED
      BY ONLY <1>5, <3>1, Cancelled
  <2> QED
    BY <1>7, <2>1, <2>2
<1>9. Cpp!Joined(d) = Cpp!Joined(e)
  BY <1>3, <1>4, <1>8, JoinedText
<1> QED
  BY <1>1, <1>2, <1>3, <1>9, AkinByJoined

\* What registers a subscription's callback ends with "Cb", too.
LEMMA RegisterNames ==
  ASSUME NEW e \in Cpp!Entity
  PROVE  /\ Cpp!SubscriptionCbType(e) \in Text
         /\ FirstWord(Cpp!Low("register") \o Cpp!SubscriptionCbType(e)) = "register"
         /\ LastWord(Cpp!Low("register") \o Cpp!SubscriptionCbType(e)) = "Cb"
<1> DEFINE j == Cpp!Joined(e)
           c == Cpp!Cap("Subscr")
           b == Cpp!Cap("Cb")
           r == Cpp!Low("register")
           t == j \o c \o b
<1>1. j \in Text /\ j # <<>>
  BY JoinedText DEF Begins
<1>2. c \in Text /\ c # <<>> /\ b \in Text /\ b # <<>> /\ LastWord(b) = "Cb"
  BY WordTexts DEF Generated
<1>3. r \in Text /\ r # <<>> /\ FirstWord(r) = "register"
  BY WordTexts DEF Generated
<1>4. Cpp!SubscriptionCbType(e) = t
  BY DEF Cpp!SubscriptionCbType
<1> HIDE DEF j, c, b, r
<1>5. j \o c \in Text /\ j \o c # <<>>
  BY <1>1, <1>2, Together
<1>6. t \in Text /\ t # <<>> /\ LastWord(t) = "Cb"
  BY <1>2, <1>5, Together
<1> HIDE DEF t
<1>7. FirstWord(r \o t) = "register" /\ LastWord(r \o t) = "Cb"
  BY <1>3, <1>6, Together
<1> QED
  BY <1>4, <1>6, <1>7 DEF r

LEMMA ServerSignalsClash ==
  ASSUME PlainEntities, NEW a, NEW b, InServerSignals(a), InServerSignals(b), Clash(a, b)
  PROVE  Akin(a.of, b.of)
<1> DEFINE q(e) == Cpp!Qualified(e.service, e)
           g(e) == Cpp!Low("register") \o Cpp!SubscriptionCbType(e)
           Sig(r, e) == r.of = e /\ r.name \in {q(e), g(e)}
           Fix(r) == r.of = Cpp!Fixed /\ r.name \in Cpp!FixedOfSignals
<1>1. \A r : InServerSignals(r) => (\E e \in Cpp!Signals : Sig(r, e)) \/ Fix(r)
  BY DEF InServerSignals
<1>2. a.name = b.name /\ a.of # b.of
  BY DEF Clash
<1>3. ASSUME NEW e \in Cpp!Signals
      PROVE  /\ e \in Cpp!Entity /\ e.kind = "signal"
             /\ LastWord(q(e)) # "Cb" /\ LastWord(g(e)) = "Cb"
             /\ e.service = Cpp!Main => q(e) = e.name
             /\ e.service # Cpp!Main => Divided(q(e))
  BY OfInterface, ClientTexts, RegisterNames
<1> HIDE DEF q, g
<1>4. ASSUME NEW d \in Cpp!Signals, NEW e \in Cpp!Signals, Sig(a, d), Sig(b, e)
      PROVE  Akin(a.of, b.of)
  <2>1. q(d) = q(e) \/ g(d) = g(e)
    BY <1>2, <1>3, <1>4
  <2>2. CASE q(d) = q(e)
    BY <1>3, <1>4, <2>2, AkinByQualified DEF q
  <2>3. CASE g(d) = g(e)
    <3> DEFINE r == Cpp!Low("register")
    <3>1. r \in Text /\ Cpp!SubscriptionCbType(d) \in Text /\ Cpp!SubscriptionCbType(e) \in Text
      BY <1>3, WordTexts, RegisterNames DEF Generated
    <3>2. r \o Cpp!SubscriptionCbType(d) = r \o Cpp!SubscriptionCbType(e)
      BY <2>3 DEF g
    <3>3. Cpp!SubscriptionCbType(d) = Cpp!SubscriptionCbType(e)
      <4> HIDE DEF r
      <4> QED
        BY ONLY <3>1, <3>2, Cancelled
    <3>4. Cpp!Joined(d) = Cpp!Joined(e)
      BY <1>3, <3>3, CallbackOfOne
    <3> QED
      BY <1>3, <1>4, <3>4, AkinByJoined
  <2> QED
    BY <2>1, <2>2, <2>3
<1>5. ASSUME NEW x, NEW y, NEW e \in Cpp!Signals, Fix(x), Sig(y, e), x.name = y.name
      PROVE  Cpp!Alike(x.of, y.of)
  <2>1. y.name = q(e) /\ ~Divided(y.name)
    BY <1>3, <1>5, FixedNames
  <2>2. e.service = Cpp!Main /\ e.name \in Cpp!FixedOfSignals
    BY <1>3, <1>5, <2>1
  <2>3. Cpp!Fixed.kind = "fixed"
    BY DEF Cpp!Fixed
  <2> QED
    BY <1>3, <1>5, <2>2, <2>3 DEF Cpp!Alike
<1>6. Fix(a) /\ Fix(b) => a.of = b.of
  OBVIOUS
<1> HIDE DEF Sig, Fix
<1>7. CASE \E d \in Cpp!Signals : Sig(a, d)
  <2>1. PICK d \in Cpp!Signals : Sig(a, d)
    BY <1>7
  <2>2. CASE \E e \in Cpp!Signals : Sig(b, e)
    BY <2>1, <2>2, <1>4
  <2>3. CASE Fix(b)
    BY <2>1, <2>3, <1>2, <1>5 DEF Akin
  <2> QED
    BY <1>1, <2>2, <2>3
<1>8. CASE Fix(a)
  <2>1. CASE \E e \in Cpp!Signals : Sig(b, e)
    BY <1>8, <2>1, <1>2, <1>5 DEF Akin
  <2> QED
    BY <1>1, <1>2, <1>6, <1>8, <2>1
<1> QED
  BY <1>1, <1>7, <1>8

\* Qt's classes: a member that caches begins with "m_", as its halves do; nothing else does.
LEMMA QtClash ==
  ASSUME PlainEntities, NEW a, NEW b, InQt(a), InQt(b), Clash(a, b)
  PROVE  Akin(a.of, b.of)
<1> DEFINE m == Cpp!Low("m_")
           v(e) == Cpp!PropertyVarName(e)
           n(e) == Cpp!RpcMethodNameQt(e)
           Ent(r, e) == r.of = e /\ r.name \in {n(e), v(e), m \o v(e)}
           Fix(r) == r.of = Cpp!Fixed /\ r.name \in Cpp!FixedOfQt \cup {m \o h : h \in Cpp!Halves}
<1>1. \A r : InQt(r) => (\E e \in iface : Ent(r, e)) \/ Fix(r)
  BY DEF InQt
<1>2. a.name = b.name /\ a.of # b.of
  BY DEF Clash
<1>3. \A e \in iface : e \in Cpp!Entity /\ Cpp!Plain(e) /\ e.kind \in {"rpc", "signal", "property"}
  BY EntityType DEF PlainEntities
<1>4. m \in Text /\ m # <<>> /\ FirstWord(m) = "m_"
  BY WordTexts DEF Generated
<1>5. ASSUME NEW x \in Cpp!Entity, Cpp!Plain(x)
      PROVE  /\ v(x) \in Text /\ v(x) # <<>> /\ n(x) \in Text
             /\ Cpp!Lowerfirst(n(x)) = v(x) /\ Cpp!Lowerfirst(v(x)) = v(x)
             /\ FirstWord(v(x)) # "m_" /\ FirstWord(n(x)) # "m_" /\ FirstWord(m \o v(x)) = "m_"
  <2>1. /\ v(x) \in Text /\ v(x) # <<>> /\ n(x) \in Text
        /\ FirstWord(v(x)) \in {FirstWord(x.name), FirstWord(x.service)}
        /\ FirstWord(n(x)) \in {FirstWord(x.name), FirstWord(x.service)}
        /\ Cpp!Lowerfirst(n(x)) = v(x) /\ Cpp!Lowerfirst(v(x)) = v(x)
    BY Keys
  <2>2. FirstWord(x.name) # "m_" /\ FirstWord(x.service) # "m_"
    BY <1>5, PlainTexts
  <2> HIDE DEF m, v, n
  <2>3. FirstWord(m \o v(x)) = "m_"
    BY <1>4, <2>1, Together
  <2> QED
    BY <2>1, <2>2, <2>3
<1>6. ASSUME NEW h \in Cpp!Halves
      PROVE  h \in Text /\ FirstWord(m \o h) = "m_"
  <2>1. h \in Text /\ h # <<>>
    BY FixedNames
  <2> HIDE DEF m
  <2> QED
    BY <1>4, <2>1, Together
<1>7. \A h \in Cpp!FixedOfQt : FirstWord(h) # "m_" /\ Cpp!Lowerfirst(h) = h
  BY FixedNames
<1> HIDE DEF m, n, v
<1>8. ASSUME NEW s \in Text, NEW t \in Text, m \o s = m \o t PROVE s = t
  BY ONLY <1>4, <1>8, Cancelled
<1>9. ASSUME NEW d \in iface, NEW e \in iface, Ent(a, d), Ent(b, e)
      PROVE  Akin(a.of, b.of)
  <2>1. v(d) \in Text /\ v(e) \in Text
    BY <1>3, <1>5
  <2>2. (a.name \in {n(d), v(d)} /\ b.name \in {n(e), v(e)}) \/ m \o v(d) = m \o v(e)
    <3>1. FirstWord(v(d)) # "m_" /\ FirstWord(n(d)) # "m_" /\ FirstWord(m \o v(d)) = "m_"
      BY <1>3, <1>5
    <3>2. FirstWord(v(e)) # "m_" /\ FirstWord(n(e)) # "m_" /\ FirstWord(m \o v(e)) = "m_"
      BY <1>3, <1>5
    <3> QED
      BY ONLY <1>2, <1>9, <3>1, <3>2
  <2>3. v(d) = v(e)
    <3>1. CASE a.name \in {n(d), v(d)} /\ b.name \in {n(e), v(e)}
      <4>1. Cpp!Lowerfirst(a.name) = v(d) /\ Cpp!Lowerfirst(b.name) = v(e)
        BY <1>3, <1>5, <3>1
      <4> QED
        BY <1>2, <4>1
    <3>2. CASE m \o v(d) = m \o v(e)
      BY <1>8, <2>1, <3>2
    <3> QED
      BY <2>2, <3>1, <3>2
  <2> QED
    BY <1>3, <1>9, <2>3, AkinByName DEF v
<1>10. ASSUME NEW x, NEW y, NEW e \in iface, Fix(x), Ent(y, e), x.name = y.name
       PROVE  Cpp!Alike(x.of, y.of)
  <2>1. v(e) \in Text
    BY <1>3, <1>5
  <2>2. CASE x.name \in Cpp!FixedOfQt
    <3>1. y.name \in {n(e), v(e)}
      <4>1. FirstWord(m \o v(e)) = "m_"
        BY <1>3, <1>5
      <4> QED
        BY ONLY <1>7, <1>10, <2>2, <4>1
    <3>2. Cpp!Lowerfirst(y.name) = v(e) /\ Cpp!Lowerfirst(x.name) = x.name
      BY <1>3, <1>5, <1>7, <2>2, <3>1
    <3>3. v(e) \in Cpp!FixedOfQt
      BY <1>10, <2>2, <3>2
    <3> QED
      BY <1>3, <1>10, <3>3 DEF Cpp!Alike, Cpp!Fixed, v
  <2>3. CASE \E h \in Cpp!Halves : x.name = m \o h
    <3>1. PICK h \in Cpp!Halves : x.name = m \o h
      BY <2>3
    <3>2. y.name = m \o v(e)
      <4>1. FirstWord(v(e)) # "m_" /\ FirstWord(n(e)) # "m_"
        BY <1>3, <1>5
      <4>2. FirstWord(y.name) = "m_"
        BY ONLY <1>6, <1>10, <3>1
      <4> QED
        BY ONLY <1>10, <4>1, <4>2
    <3>3. v(e) = h
      BY <1>6, <1>8, <1>10, <2>1, <3>1, <3>2
    <3>4. v(e) \in Cpp!Halves
      BY <3>3
    <3> QED
      BY <1>3, <1>10, <3>4 DEF Cpp!Alike, Cpp!Fixed, v
  <2> QED
    BY <1>10, <2>2, <2>3
<1>11. Fix(a) /\ Fix(b) => a.of = b.of
  OBVIOUS
<1> HIDE DEF Ent, Fix
<1>12. CASE \E d \in iface : Ent(a, d)
  <2>1. PICK d \in iface : Ent(a, d)
    BY <1>12
  <2>2. CASE \E e \in iface : Ent(b, e)
    BY <2>1, <2>2, <1>9
  <2>3. CASE Fix(b)
    BY <2>1, <2>3, <1>2, <1>10 DEF Akin
  <2> QED
    BY <1>1, <2>2, <2>3
<1>13. CASE Fix(a)
  <2>1. CASE \E e \in iface : Ent(b, e)
    BY <1>13, <2>1, <1>2, <1>10 DEF Akin
  <2> QED
    BY <1>1, <1>2, <1>11, <1>13, <2>1
<1> QED
  BY <1>1, <1>12, <1>13

-----------------------------------------------------------------------------
(* Two scopes are two classes.                                             *)

LEMMA ScopeWords ==
  ASSUME PlainEntities, NEW r
  PROVE  /\ InServiceId(r) => LastWord(r.in) = "ServiceId"
         /\ InRpcIds(r) => LastWord(r.in) = "RpcIds"
         /\ InNamespace(r) => LastWord(r.in) = "namespace"
         /\ InTransport(r) => LastWord(r.in) = "ClientRpcTransport"
         /\ InClient(r) => LastWord(r.in) \in {"ClientRpc", "ClientSignals", "ClientSignalsThreaded"}
         /\ InInterface(r) => LastWord(r.in) = "RpcIf"
         /\ InServer(r) => LastWord(r.in) = "Server"
         /\ InServerSignals(r) => LastWord(r.in) = "Signals"
         /\ OnWire(r) => LastWord(r.in) = "wire"
         /\ InQt(r) => LastWord(r.in) \in {"QClientRpc", "QClientSignals", "QClient"}
<1>1. ASSUME NEW w PROVE LastWord(Cpp!Low(w)) = w /\ LastWord(Cpp!Cap(w)) = w
  <2>1. \A x : Len(<<x>>) = 1 /\ <<x>>[1] = x
    OBVIOUS
  <2> QED
    BY <2>1 DEF LastWord, Cpp!Low, Cpp!Cap
<1>2. ASSUME InRpcIds(r) \/ InInterface(r)
      PROVE  (InRpcIds(r) => LastWord(r.in) = "RpcIds") /\ (InInterface(r) => LastWord(r.in) = "RpcIf")
  <2>1. ASSUME NEW e \in Cpp!Rpcs PROVE e.service \in Cpp!Name \cup {Cpp!Main}
    BY OfInterface, EntityType
  <2> QED
    BY <2>1, InterfaceNamed DEF InRpcIds, InInterface
<1>3. InServiceId(r) => LastWord(r.in) = "ServiceId"
  BY <1>1 DEF InServiceId, Cpp!ServiceId
<1>4. InNamespace(r) => LastWord(r.in) = "namespace"
  BY <1>1 DEF InNamespace, Cpp!Namespace
<1>5. InTransport(r) => LastWord(r.in) = "ClientRpcTransport"
  BY <1>1 DEF InTransport, Cpp!Transport
<1>6. InClient(r) => LastWord(r.in) \in {"ClientRpc", "ClientSignals", "ClientSignalsThreaded"}
  BY <1>1 DEF InClient, Cpp!ClientRpc, Cpp!SignalClients
<1>7. InServer(r) => LastWord(r.in) = "Server"
  BY <1>1 DEF InServer, Cpp!Server
<1>8. InServerSignals(r) => LastWord(r.in) = "Signals"
  BY <1>1 DEF InServerSignals, Cpp!ServerSignals
<1>9. OnWire(r) => LastWord(r.in) = "wire"
  BY <1>1 DEF OnWire, Cpp!Wire
<1>10. InQt(r) => LastWord(r.in) \in {"QClientRpc", "QClientSignals", "QClient"}
  BY <1>1 DEF InQt, Cpp!QClientRpc, Cpp!QClientSignals, Cpp!QClient
<1> QED
  BY <1>2, <1>3, <1>4, <1>5, <1>6, <1>7, <1>8, <1>9, <1>10

\* What scopes a class has been given is told by the class; the client's are one.
SameKind(a, b) ==
  \/ InServiceId(a) /\ InServiceId(b)
  \/ InRpcIds(a) /\ InRpcIds(b) /\ a.in = b.in
  \/ InNamespace(a) /\ InNamespace(b)
  \/ (InTransport(a) /\ InTransport(b)) \/ (OnWire(a) /\ OnWire(b))
  \/ InClient(a) /\ InClient(b)
  \/ InInterface(a) /\ InInterface(b) /\ a.in = b.in
  \/ InServer(a) /\ InServer(b)
  \/ InServerSignals(a) /\ InServerSignals(b)
  \/ InQt(a) /\ InQt(b)

LEMMA ScopesMeet ==
  ASSUME CppInv, PlainEntities, NEW f, NEW g, NEW a \in Declares(f), NEW b \in Declares(g), Cpp!SameScope(a, b)
  PROVE  SameKind(a, b)
<1> DEFINE In(r) == \/ InServiceId(r) \/ InRpcIds(r) \/ InNamespace(r) \/ InTransport(r) \/ InClient(r)
                    \/ InInterface(r) \/ InServer(r) \/ InServerSignals(r) \/ OnWire(r) \/ InQt(r)
<1>1. In(a) /\ In(b)
  BY Scopes
<1>2. CASE a.in = b.in
  <2>1. LastWord(a.in) = LastWord(b.in)
    BY <1>2
  <2> QED
    BY <1>1, <1>2, <2>1, ScopeWords DEF SameKind
<1>3. CASE a.in # b.in
  <2>1. \A r \in {a, b} : LastWord(r.in) \in {"ClientRpc", "ClientSignalsThreaded"}
    <3>1. a.in \in {Cpp!ClientRpc, Cpp!Cap("ClientSignalsThreaded")} /\ b.in \in {Cpp!ClientRpc, Cpp!Cap("ClientSignalsThreaded")}
      BY <1>3 DEF Cpp!SameScope
    <3>2. \A x : Len(<<x>>) = 1 /\ <<x>>[1] = x
      OBVIOUS
    <3>3. LastWord(Cpp!ClientRpc) = "ClientRpc" /\ LastWord(Cpp!Cap("ClientSignalsThreaded")) = "ClientSignalsThreaded"
      BY <3>2 DEF LastWord, Cpp!ClientRpc, Cpp!Cap
    <3> QED
      BY <3>1, <3>3
  <2>2. InClient(a) /\ InClient(b)
    BY <1>1, <2>1, ScopeWords
  <2> QED
    BY <2>2 DEF SameKind
<1> QED
  BY <1>2, <1>3

LEMMA CppClashesForCause ==
  ASSUME CppInv, \A e \in iface : Cpp!Plain(e)
  PROVE  Cpp!ClashesForCause
<1>1. PlainEntities
  BY DEF PlainEntities, CppInv
<1> SUFFICES ASSUME NEW f \in Cpp!Rendered, NEW g \in Cpp!Rendered,
                    NEW a \in declared[f], NEW b \in declared[g],
                    a.name = b.name, Cpp!SameScope(a, b), a.of # b.of
             PROVE  Akin(a.of, b.of)
  BY DEF Cpp!ClashesForCause, Akin
<1>2. a \in Declares(f) /\ b \in Declares(g)
  <2>1. \A h \in Cpp!Rendered : h \in Cpp!File
    <3>1. DOMAIN files = 1..Len(files) /\ files \in Seq(Cpp!File)
      BY LenProperties DEF CppInv, InOrder
    <3> QED
      BY <3>1, ElementOfSeq DEF Cpp!Rendered
  <2> QED
    BY <2>1 DEF CppInv
<1>3. SameKind(a, b)
  BY <1>1, <1>2, ScopesMeet
<1>4. Clash(a, b)
  BY DEF Clash
<1> QED
  BY <1>1, <1>3, <1>4, ServiceIdClash, RpcIdsClash, NamespaceClash, TransportClash, ClientClash,
     InterfaceClash, ServerClash, ServerSignalsClash, QtClash DEF SameKind

\* In an interface of plain names, two entities get one name in one class only if the
\* interface names them alike, in one of the ways that Alike lists.
THEOREM CppNamesClashForCause == Cpp!PlainNames /\ Generate => []ClashesForCause
<1>1. CompilerInv /\ PlainInterface => ClashesForCause
  BY CppClashesForCause DEF CompilerInv, PlainInterface, ClashesForCause
<1> QED
  BY <1>1, CompilerHolds, PlainHolds, PTL

=============================================================================
