---------------------------- MODULE CodecProofs ----------------------------
(***************************************************************************)
(* What the conversions preserve, for messages of any number of fields and *)
(* every pair of languages.                                                *)
(***************************************************************************)
EXTENDS Codec, TLAPS

\* Who passes the arguments.
PassedBy == IF kind = "signal" THEN "server" ELSE "client"

\* What a field is on the wire, sent by a language: bytes are raw, a text may be cut, and
\* only a Qt client sends Data of another size.
OnWire(language, v, w) ==
  /\ w \in Value /\ w.type = v.type /\ w.form = "raw"
  /\ w.value = v.value \/ (v.value = "nul" /\ w.value = "cut" /\ language # "python")
  /\ w.value = "other size" => language \in Qt

OnTheWay(language, values, message) ==
  /\ DOMAIN message = DOMAIN values
  /\ \A k \in DOMAIN values : OnWire(language, values[k], message[k])

\* The inductive invariant.
Languages ==
  /\ client \in ClientLanguage /\ server \in ServerLanguage
  /\ behind \in {"none", "client", "server"}
  /\ \A k \in DOMAIN passed : passed[k] \in Passable(PassedBy, Sender)

NothingYet ==
  /\ at \in {"call", "sent"} => given = <<>>
  /\ at \in {"call", "sent", "handled"} => taken = <<>>
  /\ at \in {"handled", "answered"} => kind # "signal"

Messages ==
  /\ at = "sent" => OnTheWay(Sender, passed, wire)
  /\ at = "answered" =>
       /\ OnTheWay(server, returned, wire)
       /\ \A k \in DOMAIN returned : returned[k] \in Returnable

CodecInv == Languages /\ NothingYet /\ Messages /\ ValuesArrive /\ EndsForCause

-----------------------------------------------------------------------------
(* One field.                                                              *)

\* What is known of a value.
LEMMA ValueFacts ==
  ASSUME NEW v \in Value
  PROVE  /\ v.value = "nul" => v.type = "text"
         /\ v.value = "new" => v.type = "enum"
         /\ v.value = "other size" => v.type = "fixed"
         /\ v.type \notin Data => v.form = "raw"
         /\ v # Undefined
<1>1. v.type # "none"
  BY DEF Value, Of
<1>2. v # Undefined
  BY <1>1 DEF Undefined
<1> QED
  BY <1>2 DEF Value, Of, Data

\* Cutting and changing the form make values.
LEMMA ChangedValues ==
  ASSUME NEW v \in Value
  PROVE  /\ v.value = "nul" =>
              /\ Cut(v) \in Value /\ Cut(v).type = v.type /\ Cut(v).form = v.form
              /\ Cut(v).value = "cut"
         /\ v.type \in Data =>
              LET w == [v EXCEPT !.form = "base64"]
              IN w \in Value /\ w.type = v.type /\ w.value = v.value /\ w.form = "base64"
         /\ LET w == [v EXCEPT !.form = "raw"]
            IN w \in Value /\ w.type = v.type /\ w.value = v.value /\ w.form = "raw"
  BY DEF Value, Of, Data, Cut

LEMMA CutFacts ==
  ASSUME NEW v \in Value, NEW w \in MayCut(v)
  PROVE  /\ w \in Value /\ w # Undefined /\ w.type = v.type /\ w.form = v.form
         /\ w.value = v.value \/ (v.value = "nul" /\ w.value = "cut")
<1>1. w = v \/ (v.value = "nul" /\ w = Cut(v))
  BY DEF MayCut
<1>2. CASE w = v
  BY <1>2, ValueFacts
<1>3. CASE v.value = "nul" /\ w = Cut(v)
  <2>1. w \in Value /\ w.type = v.type /\ w.form = v.form /\ w.value = "cut"
    BY <1>3, ChangedValues
  <2> QED
    BY <1>3, <2>1, ValueFacts
<1> QED
  BY <1>1, <1>2, <1>3

\* Encoding: what it leaves, and why it may raise.
LEMMA EncodedField ==
  ASSUME NEW peer, NEW language \in ClientLanguage, NEW v \in Passable(peer, language)
  PROVE  /\ Encoded(language, v) \subseteq Value \cup {Undefined}
         /\ \A w \in Encoded(language, v) : OnWire(language, v, w)
         /\ Encoded(language, v) = {} => language = "python" /\ v.value = "other size"
<1>1. /\ v \in Value
      /\ v.value = "other size" => language # "cpp"
      /\ language # "web" => v.form = "raw"
  BY DEF Passable
<1>2. \A u : MustCut(u) \subseteq MayCut(u) /\ MustCut(u) # {} /\ MayCut(u) # {}
  BY DEF MustCut, MayCut
<1>3. ASSUME NEW u \in Value, u.type = v.type, u.value = v.value, u.form = "raw",
             NEW w \in MayCut(u), language # "python"
      PROVE  w \in Value /\ OnWire(language, v, w)
  <2>1. /\ w \in Value /\ w.type = v.type /\ w.form = "raw"
        /\ w.value = v.value \/ (v.value = "nul" /\ w.value = "cut")
    BY <1>3, CutFacts
  <2>2. w.value = "other size" => language \in Qt
    BY <1>1, <1>3, <2>1 DEF ClientLanguage, Qt
  <2> QED
    BY <1>3, <2>1, <2>2 DEF OnWire
<1>4. CASE language = "python"
  <2>1. Encoded(language, v) = PyEncoded(v)
    BY <1>4 DEF Encoded
  <2>2. CASE v.value = "other size"
    BY <1>4, <2>1, <2>2 DEF PyEncoded
  <2>3. CASE v.value # "other size"
    <3>1. Encoded(language, v) = {v}
      BY <2>1, <2>3 DEF PyEncoded
    <3>2. OnWire(language, v, v)
      BY <1>1, <1>4, <2>3 DEF OnWire
    <3> QED
      BY <1>1, <3>1, <3>2
  <2> QED
    BY <2>2, <2>3
<1>5. CASE language = "cpp"
  <2>1. Encoded(language, v) = MayCut(v)
    BY <1>5 DEF Encoded, CppEncoded
  <2> QED
    BY <1>1, <1>2, <1>3, <1>5, <2>1
<1>6. CASE language = "qt"
  <2>1. Encoded(language, v) = MustCut(v)
    BY <1>6 DEF Encoded, QtEncoded
  <2> QED
    BY <1>1, <1>2, <1>3, <1>6, <2>1
<1>7. CASE language = "web"
  <2> DEFINE u == [v EXCEPT !.form = "raw"]
  <2>1. Encoded(language, v) = MustCut(u)
    BY <1>7 DEF Encoded, WebEncoded, QtEncoded
  <2>2. u \in Value /\ u.type = v.type /\ u.value = v.value /\ u.form = "raw"
    BY <1>1, ChangedValues
  <2> HIDE DEF u
  <2> QED
    BY <1>2, <1>3, <1>7, <2>1, <2>2
<1> QED
  BY <1>4, <1>5, <1>6, <1>7 DEF ClientLanguage, Qt

\* Decoding arguments and signals.
LEMMA GivenField ==
  ASSUME Languages, NEW v \in Passable(PassedBy, Sender), NEW w, OnWire(Sender, v, w)
  PROVE  /\ GivenOf(w) \subseteq Value \cup {Undefined}
         /\ \A g \in GivenOf(w) :
              IF g = Undefined THEN w.value = "other size" /\ Receiver = "cpp"
              ELSE SameFor(Receiver, v, g) /\ (Receiver = "python" => g.value # "other size")
         /\ GivenOf(w) = {} =>
              /\ Receiver = "python"
              /\ w.value = "other size" \/ (w.value = "new" /\ behind = (IF kind = "signal" THEN "client" ELSE "server"))
<1>1. /\ w \in Value /\ w # Undefined /\ w.type = v.type /\ w.form = "raw"
      /\ w.value = v.value \/ (v.value = "nul" /\ w.value = "cut" /\ Sender # "python")
      /\ v.value = "nul" => w.type = "text"
      /\ w.value = "nul" => v.value = "nul"
      /\ "text" \notin Data
  BY ValueFacts DEF OnWire, Passable, Data
<1>2. /\ (Receiver = client /\ Sender = server) \/ (Receiver = server /\ Sender = client)
      /\ Receiver \in {"python", "cpp", "qt", "web"}
  BY DEF Languages, Sender, Receiver, ClientLanguage, ServerLanguage, Qt
<1>3. \A g : /\ g.type = v.type
             /\ g.form = IF Receiver = "web" /\ v.type \in Data THEN "base64" ELSE "raw"
             /\ g.value = w.value \/ (w.value = "nul" /\ g.value = "cut" /\ Receiver # "python")
             => SameFor(Receiver, v, g)
  BY <1>1, <1>2 DEF SameFor
<1>4. CASE Receiver = "python"
  <2>1. GivenOf(w) = PyDecoded(w, IF kind = "signal" THEN "client" ELSE "server")
    BY <1>4 DEF GivenOf
  <2> QED
    BY <1>1, <1>3, <1>4, <2>1 DEF PyDecoded
<1>5. CASE Receiver = "cpp"
  <2>1. GivenOf(w) = CppView(w)
    BY <1>5 DEF GivenOf
  <2> QED
    BY <1>1, <1>3, <1>5, <2>1 DEF CppView
<1>6. CASE Receiver = "qt"
  <2>1. GivenOf(w) = MayCut(w)
    BY <1>6 DEF GivenOf, QtSignal
  <2>2. GivenOf(w) # {}
    BY <2>1 DEF MayCut
  <2> QED
    BY <1>1, <1>3, <1>6, <2>1, <2>2, CutFacts
<1>7. CASE Receiver = "web"
  <2> DEFINE u == IF w.type \in Data THEN [w EXCEPT !.form = "base64"] ELSE w
  <2>1. GivenOf(w) = MayCut(u)
    BY <1>7 DEF GivenOf, WebSignal, QtSignal
  <2>2. /\ u \in Value /\ u.type = w.type /\ u.value = w.value
        /\ u.form = IF w.type \in Data THEN "base64" ELSE "raw"
    BY <1>1, ChangedValues
  <2>3. GivenOf(w) # {}
    BY <2>1 DEF MayCut
  <2> HIDE DEF u
  <2> QED
    BY <1>1, <1>3, <1>7, <2>1, <2>2, <2>3, CutFacts
<1> QED
  BY <1>2, <1>4, <1>5, <1>6, <1>7

\* Decoding results.
LEMMA TakenField ==
  ASSUME Languages, NEW v \in Returnable, NEW w, OnWire(server, v, w)
  PROVE  /\ TakenOf(w) \subseteq Value \cup {Undefined}
         /\ \A g \in TakenOf(w) :
              IF g = Undefined THEN v.type = "fixed" /\ client \in Qt
              ELSE SameFor(client, v, g) /\ (client = "python" => g.value # "other size")
         /\ TakenOf(w) = {} => client = "python" /\ w.value = "new" /\ behind = "client"
<1>1. /\ w \in Value /\ w # Undefined /\ w.type = v.type /\ w.form = "raw"
      /\ w.value = v.value \/ (v.value = "nul" /\ w.value = "cut" /\ server # "python")
      /\ w.value = "nul" => v.value = "nul"
      /\ w.value # "other size"
      /\ client # "python" => v.type # "span"
      /\ v \in Value
  BY ValueFacts DEF Languages, OnWire, Returnable, Passable, ServerLanguage, Qt
<1>2. /\ v.type \in {"enum", "text", "fixed", "span"}
  BY <1>1 DEF Value, Of
<1>3. \A g : /\ g.type = v.type /\ g.form = "raw"
             /\ client = "web" => v.type \notin Data
             /\ g.value = w.value \/ (w.value = "nul" /\ g.value = "cut" /\ client # "python")
             => SameFor(client, v, g)
  BY <1>1 DEF SameFor
<1>4. CASE client = "python"
  <2>1. TakenOf(w) = PyDecoded(w, "client")
    BY <1>4 DEF TakenOf, Qt
  <2> QED
    BY <1>1, <1>3, <1>4, <2>1 DEF PyDecoded
<1>5. CASE client = "cpp"
  <2>1. TakenOf(w) = CppResult(w)
    BY <1>5 DEF TakenOf, Qt
  <2>2. TakenOf(w) = MayCut(w)
    BY <1>1, <2>1 DEF CppResult
  <2>3. TakenOf(w) # {}
    BY <2>2 DEF MayCut
  <2> QED
    BY <1>1, <1>3, <1>5, <2>2, <2>3, CutFacts
<1>6. CASE client \in Qt
  <2>1. TakenOf(w) = QtResult(w) /\ client \notin {"python", "cpp"}
    BY <1>6 DEF TakenOf, Qt
  <2>2. CASE v.type = "fixed"
    BY <1>1, <1>6, <2>1, <2>2 DEF QtResult
  <2>3. CASE v.type # "fixed"
    <3>1. TakenOf(w) = MustCut(w) /\ v.type \notin Data
      BY <1>1, <1>2, <2>1, <2>3 DEF QtResult, Data
    <3>2. MustCut(w) \subseteq MayCut(w) /\ MustCut(w) # {}
      BY DEF MustCut, MayCut
    <3>3. ASSUME NEW g \in TakenOf(w)
          PROVE  /\ g \in Value /\ g # Undefined /\ g.type = w.type /\ g.form = w.form
                 /\ g.value = w.value \/ (w.value = "nul" /\ g.value = "cut")
      <4>1. g \in MayCut(w)
        BY <3>1, <3>2
      <4> QED
        BY ONLY <1>1, <4>1, CutFacts
    <3> QED
      BY <1>1, <1>3, <2>1, <3>1, <3>2, <3>3
  <2> QED
    BY <2>2, <2>3
<1> QED
  BY <1>4, <1>5, <1>6 DEF Languages, ClientLanguage


-----------------------------------------------------------------------------
(* A message.                                                              *)

LEMMA ConvertedFields ==
  ASSUME NEW outcomes, NEW m \in Converted(outcomes)
  PROVE  DOMAIN m = DOMAIN outcomes /\ \A k \in DOMAIN outcomes : m[k] \in outcomes[k]
  BY DEF Converted

\* A message is not converted only if one of its fields is not.
LEMMA NotConverted ==
  ASSUME NEW outcomes, Converted(outcomes) = {},
         \A k \in DOMAIN outcomes : outcomes[k] \subseteq Value \cup {Undefined}
  PROVE  \E k \in DOMAIN outcomes : outcomes[k] = {}
<1> SUFFICES ASSUME \A k \in DOMAIN outcomes : outcomes[k] # {}
             PROVE  FALSE
  OBVIOUS
<1> DEFINE m == [k \in DOMAIN outcomes |-> CHOOSE x \in outcomes[k] : TRUE]
<1>1. \A k \in DOMAIN outcomes : m[k] \in outcomes[k]
  OBVIOUS
<1>2. m \in [DOMAIN outcomes -> Value \cup {Undefined}]
  BY <1>1
<1>3. m \in Converted(outcomes)
  BY <1>1, <1>2 DEF Converted
<1> QED
  BY <1>3

LEMMA EncodedMessage ==
  ASSUME NEW peer, NEW language \in ClientLanguage, NEW values,
         \A k \in DOMAIN values : values[k] \in Passable(peer, language)
  PROVE  LET messages == Converted([k \in DOMAIN values |-> Encoded(language, values[k])])
         IN /\ \A m \in messages : OnTheWay(language, values, m)
            /\ messages = {} => language = "python" /\ WrongSize(values)
<1> DEFINE outcomes == [k \in DOMAIN values |-> Encoded(language, values[k])]
<1>1. DOMAIN outcomes = DOMAIN values
  OBVIOUS
<1>2. \A k \in DOMAIN values :
        /\ outcomes[k] \subseteq Value \cup {Undefined}
        /\ \A w \in outcomes[k] : OnWire(language, values[k], w)
        /\ outcomes[k] = {} => language = "python" /\ values[k].value = "other size"
  BY EncodedField
<1> HIDE DEF outcomes
<1>3. \A m \in Converted(outcomes) : OnTheWay(language, values, m)
  BY <1>1, <1>2, ConvertedFields DEF OnTheWay
<1>4. Converted(outcomes) = {} => language = "python" /\ WrongSize(values)
  BY <1>1, <1>2, NotConverted DEF WrongSize
<1> QED
  BY <1>3, <1>4 DEF outcomes

LEMMA GivenMessage ==
  ASSUME Languages, OnTheWay(Sender, passed, wire)
  PROVE  LET messages == Converted([k \in DOMAIN wire |-> GivenOf(wire[k])])
         IN /\ \A m \in messages :
                 IF IsUndefined(m) THEN Receiver = "cpp" /\ Sender \in Qt /\ WrongSize(passed)
                 ELSE Arrived(Receiver, passed, m)
            /\ messages = {} =>
                 /\ Receiver = "python"
                 /\ (Sender \in Qt /\ WrongSize(passed)) \/ Unknown(passed, IF kind = "signal" THEN "client" ELSE "server")
<1> DEFINE outcomes == [k \in DOMAIN wire |-> GivenOf(wire[k])]
<1>1. DOMAIN outcomes = DOMAIN passed
  BY DEF OnTheWay
<1>2. \A k \in DOMAIN passed :
        /\ passed[k] \in Passable(PassedBy, Sender) /\ OnWire(Sender, passed[k], wire[k])
        /\ outcomes[k] = GivenOf(wire[k])
  BY DEF OnTheWay, Languages
<1>3. \A k \in DOMAIN passed :
        /\ wire[k].value = "other size" => passed[k].value = "other size" /\ Sender \in Qt
        /\ wire[k].value = "new" => passed[k].value = "new"
  BY <1>2 DEF OnWire
<1> HIDE DEF outcomes
<1>4. \A k \in DOMAIN passed : outcomes[k] \subseteq Value \cup {Undefined}
  BY <1>2, GivenField
<1>5. \A k \in DOMAIN passed : \A g \in outcomes[k] :
        IF g = Undefined THEN passed[k].value = "other size" /\ Sender \in Qt /\ Receiver = "cpp"
        ELSE SameFor(Receiver, passed[k], g) /\ (Receiver = "python" => g.value # "other size")
  <2> TAKE k \in DOMAIN passed
  <2>1. \A g \in GivenOf(wire[k]) :
          IF g = Undefined THEN wire[k].value = "other size" /\ Receiver = "cpp"
          ELSE SameFor(Receiver, passed[k], g) /\ (Receiver = "python" => g.value # "other size")
    BY <1>2, GivenField
  <2> QED
    BY <1>2, <1>3, <2>1
<1>6. ASSUME NEW k \in DOMAIN passed, outcomes[k] = {}
      PROVE  /\ Receiver = "python"
             /\ \/ passed[k].value = "other size" /\ Sender \in Qt
                \/ passed[k].value = "new" /\ behind = (IF kind = "signal" THEN "client" ELSE "server")
  <2>1. GivenOf(wire[k]) = {}
    BY <1>2, <1>6
  <2>2. /\ Receiver = "python"
        /\ \/ wire[k].value = "other size"
           \/ wire[k].value = "new" /\ behind = (IF kind = "signal" THEN "client" ELSE "server")
    BY <1>2, <2>1, GivenField
  <2> QED
    BY <1>3, <2>2
<1>7. ASSUME NEW m \in Converted(outcomes)
      PROVE  IF IsUndefined(m) THEN Receiver = "cpp" /\ Sender \in Qt /\ WrongSize(passed)
             ELSE Arrived(Receiver, passed, m)
  <2>1. DOMAIN m = DOMAIN passed /\ \A k \in DOMAIN passed : m[k] \in outcomes[k]
    BY <1>1, ConvertedFields
  <2> QED
    BY <1>5, <2>1 DEF IsUndefined, Arrived, WrongSize
<1>8. Converted(outcomes) = {} =>
        /\ Receiver = "python"
        /\ (Sender \in Qt /\ WrongSize(passed)) \/ Unknown(passed, IF kind = "signal" THEN "client" ELSE "server")
  BY <1>1, <1>4, <1>6, NotConverted DEF WrongSize, Unknown
<1> QED
  BY <1>7, <1>8 DEF outcomes

LEMMA TakenMessage ==
  ASSUME Languages, OnTheWay(server, returned, wire), \A k \in DOMAIN returned : returned[k] \in Returnable
  PROVE  LET messages == Converted([k \in DOMAIN wire |-> TakenOf(wire[k])])
         IN /\ \A m \in messages :
                 IF IsUndefined(m)
                 THEN m # <<>> /\ client \in Qt /\ \E k \in DOMAIN returned : returned[k].type = "fixed"
                 ELSE Arrived(client, returned, m)
            /\ messages = {} => client = "python" /\ Unknown(returned, "client")
<1> DEFINE outcomes == [k \in DOMAIN wire |-> TakenOf(wire[k])]
<1>1. DOMAIN outcomes = DOMAIN returned
  BY DEF OnTheWay
<1>2. \A k \in DOMAIN returned :
        /\ returned[k] \in Returnable /\ OnWire(server, returned[k], wire[k])
        /\ outcomes[k] = TakenOf(wire[k])
        /\ wire[k].value = "new" => returned[k].value = "new"
  BY DEF OnTheWay, OnWire
<1> HIDE DEF outcomes
<1>3. \A k \in DOMAIN returned : outcomes[k] \subseteq Value \cup {Undefined}
  BY <1>2, TakenField
<1>4. \A k \in DOMAIN returned : \A g \in outcomes[k] :
        IF g = Undefined THEN returned[k].type = "fixed" /\ client \in Qt
        ELSE SameFor(client, returned[k], g) /\ (client = "python" => g.value # "other size")
  <2> TAKE k \in DOMAIN returned
  <2>1. \A g \in TakenOf(wire[k]) :
          IF g = Undefined THEN returned[k].type = "fixed" /\ client \in Qt
          ELSE SameFor(client, returned[k], g) /\ (client = "python" => g.value # "other size")
    BY <1>2, TakenField
  <2> QED
    BY <1>2, <2>1
<1>5. ASSUME NEW k \in DOMAIN returned, outcomes[k] = {}
      PROVE  client = "python" /\ returned[k].value = "new" /\ behind = "client"
  <2>1. TakenOf(wire[k]) = {}
    BY <1>2, <1>5
  <2>2. client = "python" /\ wire[k].value = "new" /\ behind = "client"
    BY <1>2, <2>1, TakenField
  <2> QED
    BY <1>2, <2>2
<1>6. ASSUME NEW m \in Converted(outcomes)
      PROVE  IF IsUndefined(m)
             THEN m # <<>> /\ client \in Qt /\ \E k \in DOMAIN returned : returned[k].type = "fixed"
             ELSE Arrived(client, returned, m)
  <2>1. DOMAIN m = DOMAIN returned /\ \A k \in DOMAIN returned : m[k] \in outcomes[k]
    BY <1>1, ConvertedFields
  <2>2. IsUndefined(m) => DOMAIN m # {}
    BY DEF IsUndefined
  <2>3. DOMAIN <<>> = {}
    OBVIOUS
  <2> QED
    BY <1>4, <2>1, <2>2, <2>3 DEF IsUndefined, Arrived, WrongSize
<1>7. Converted(outcomes) = {} => client = "python" /\ Unknown(returned, "client")
  BY <1>1, <1>3, <1>5, NotConverted DEF Unknown
<1> QED
  BY <1>6, <1>7 DEF outcomes

-----------------------------------------------------------------------------
(* The exchange.                                                           *)

LEMMA CodecInit == ASSUME Init PROVE CodecInv
<1>1. Languages
  <2>1. \A k \in DOMAIN passed : passed[k] \in Passable(PassedBy, Sender)
    BY DEF Init, Fields, PassedBy
  <2> QED
    BY <2>1 DEF Init, Languages
<1>2. NothingYet /\ Messages /\ EndsForCause
  BY DEF Init, NothingYet, Messages, EndsForCause
<1>3. ValuesArrive
  BY DEF Init, ValuesArrive
<1> QED
  BY <1>1, <1>2, <1>3 DEF CodecInv

\* Nobody changes language.
LEMMA LanguagesStay ==
  ASSUME Languages, UNCHANGED <<client, server, behind, kind, passed>>
  PROVE  Languages'
  BY DEF Languages, Passable, PassedBy, Sender

LEMMA SendStep == ASSUME CodecInv, Send PROVE CodecInv'
<1> DEFINE messages == Converted([k \in DOMAIN passed |-> Encoded(Sender, passed[k])])
<1>1. Sender \in ClientLanguage
  BY DEF CodecInv, Languages, Sender, ClientLanguage, ServerLanguage
<1>2. /\ \A m \in messages : OnTheWay(Sender, passed, m)
      /\ messages = {} => Sender = "python" /\ WrongSize(passed)
  BY <1>1, EncodedMessage DEF CodecInv, Languages
<1> HIDE DEF messages
<1>3. \/ wire' \in messages /\ at' = "sent"
      \/ messages = {} /\ at' = "refused"
  BY DEF Send, messages
<1>4. /\ given = <<>> /\ taken = <<>>
      /\ UNCHANGED <<client, server, behind, kind, passed, given, returned, taken>>
  BY DEF Send, CodecInv, NothingYet
<1>5. Languages' /\ Sender' = Sender /\ WrongSize(passed)' = WrongSize(passed)
  BY <1>4, LanguagesStay DEF CodecInv, Sender, WrongSize
<1>6. NothingYet' /\ ValuesArrive'
  BY <1>3, <1>4 DEF NothingYet, ValuesArrive
<1>7. CASE wire' \in messages /\ at' = "sent"
  <2>1. OnTheWay(Sender, passed, wire')
    BY <1>2, <1>7
  <2>2. Messages'
    BY <1>4, <1>5, <1>7, <2>1 DEF Messages, OnTheWay
  <2> QED
    BY <1>5, <1>6, <1>7, <2>2 DEF CodecInv, EndsForCause
<1>8. CASE messages = {} /\ at' = "refused"
  BY <1>2, <1>4, <1>5, <1>6, <1>8 DEF CodecInv, Messages, EndsForCause
<1> QED
  BY <1>3, <1>7, <1>8

LEMMA ReceiveStep == ASSUME CodecInv, Receive PROVE CodecInv'
<1> DEFINE messages == Converted([k \in DOMAIN wire |-> GivenOf(wire[k])])
<1>1. /\ at = "sent" /\ Languages /\ OnTheWay(Sender, passed, wire)
      /\ given = <<>> /\ taken = <<>>
      /\ UNCHANGED <<client, server, behind, kind, passed, returned, taken>>
  BY DEF Receive, CodecInv, NothingYet, Messages
<1>2. /\ \A m \in messages :
           IF IsUndefined(m) THEN Receiver = "cpp" /\ Sender \in Qt /\ WrongSize(passed)
           ELSE Arrived(Receiver, passed, m)
      /\ messages = {} =>
           /\ Receiver = "python"
           /\ (Sender \in Qt /\ WrongSize(passed)) \/ Unknown(passed, IF kind = "signal" THEN "client" ELSE "server")
  BY <1>1, GivenMessage
<1> HIDE DEF messages
<1>3. \/ /\ given' \in messages
         /\ at' = IF IsUndefined(given') THEN "undefined" ELSE IF kind \in {"signal", "void"} THEN "done" ELSE "handled"
      \/ messages = {} /\ at' = "dropped" /\ given' = given
  BY DEF Receive, messages
<1>4. /\ Languages' /\ Sender' = Sender /\ Receiver' = Receiver
      /\ WrongSize(passed)' = WrongSize(passed) /\ taken' = <<>>
      /\ \A peer : Unknown(passed, peer)' = Unknown(passed, peer)
  BY <1>1, LanguagesStay DEF Sender, Receiver, WrongSize, Unknown
<1>5. Messages' /\ NothingYet'
  BY <1>1, <1>3 DEF Messages, NothingYet
<1>6. CASE messages = {} /\ at' = "dropped" /\ given' = given
  BY <1>1, <1>2, <1>4, <1>5, <1>6 DEF CodecInv, EndsForCause, ValuesArrive, Unknown, WrongSize
<1>7. CASE given' \in messages /\ IsUndefined(given') /\ at' = "undefined"
  <2>1. client \in Qt /\ server = "cpp" /\ WrongSize(passed)
    BY <1>1, <1>2, <1>7 DEF Languages, Sender, Receiver, Qt, ServerLanguage
  <2>2. (client \in Qt /\ server = "cpp" /\ WrongSize(passed))'
    BY <1>1, <2>1 DEF WrongSize, Qt
  <2> QED
    BY <1>4, <1>5, <1>7, <2>2 DEF CodecInv, EndsForCause, ValuesArrive
<1>8. CASE given' \in messages /\ ~IsUndefined(given') /\ at' \in {"done", "handled"}
  <2>1. Arrived(Receiver, passed, given')
    BY <1>2, <1>8
  <2>2. Arrived(Receiver, passed, given)'
    BY <1>1, <1>4, <2>1 DEF Arrived, SameFor, WrongSize
  <2>3. ValuesArrive'
    BY <1>4, <2>2 DEF ValuesArrive
  <2> QED
    BY <1>4, <1>5, <1>8, <2>3 DEF CodecInv, EndsForCause
<1> QED
  BY <1>3, <1>6, <1>7, <1>8

LEMMA AnswerStep == ASSUME CodecInv, Answer PROVE CodecInv'
<1>1. /\ at = "handled" /\ Languages /\ kind # "signal" /\ taken = <<>>
      /\ UNCHANGED <<client, server, behind, kind, passed, given, taken>>
  BY DEF Answer, CodecInv, NothingYet
<1> DEFINE messages == Converted([k \in DOMAIN returned' |-> Encoded(server, returned'[k])])
<1>2. /\ \A k \in DOMAIN returned' : returned'[k] \in Returnable
      /\ \/ wire' \in messages /\ at' = "answered"
         \/ messages = {} /\ at' = "unanswered"
  BY DEF Answer, Fields
<1>3. server \in ClientLanguage /\ \A k \in DOMAIN returned' : returned'[k] \in Passable("server", server)
  BY <1>1, <1>2 DEF Languages, ServerLanguage, ClientLanguage, Returnable
<1>4. /\ \A m \in messages : OnTheWay(server, returned', m)
      /\ messages = {} => server = "python" /\ WrongSize(returned')
  BY <1>3, EncodedMessage
<1> HIDE DEF messages
<1>5. Languages' /\ NothingYet'
  BY <1>1, <1>2, LanguagesStay DEF NothingYet
<1>6. ValuesArrive'
  <2>1. given # <<>> => Arrived(Receiver, passed, given)
    BY <1>1 DEF CodecInv, ValuesArrive
  <2>2. given' # <<>> => Arrived(Receiver, passed, given)'
    BY <1>1, <2>1 DEF Arrived, SameFor, WrongSize, Receiver
  <2> QED
    BY <1>1, <2>2 DEF ValuesArrive
<1>7. CASE wire' \in messages /\ at' = "answered"
  <2>1. OnTheWay(server, returned, wire)'
    BY <1>1, <1>4, <1>7 DEF OnTheWay
  <2>2. (\A k \in DOMAIN returned : returned[k] \in Returnable)'
    BY <1>1, <1>2 DEF Returnable, Passable
  <2> QED
    BY <1>5, <1>6, <1>7, <2>1, <2>2 DEF CodecInv, Messages, EndsForCause
<1>8. CASE messages = {} /\ at' = "unanswered"
  BY <1>1, <1>4, <1>5, <1>6, <1>8 DEF CodecInv, Messages, EndsForCause, WrongSize
<1> QED
  BY <1>2, <1>7, <1>8

LEMMA TakeStep == ASSUME CodecInv, Take PROVE CodecInv'
<1> DEFINE messages == Converted([k \in DOMAIN wire |-> TakenOf(wire[k])])
<1>1. /\ at = "answered" /\ Languages /\ OnTheWay(server, returned, wire)
      /\ \A k \in DOMAIN returned : returned[k] \in Returnable
      /\ UNCHANGED <<client, server, behind, kind, passed, given, returned>>
  BY DEF Take, CodecInv, Messages
<1>2. /\ \A m \in messages :
           IF IsUndefined(m)
           THEN m # <<>> /\ client \in Qt /\ \E k \in DOMAIN returned : returned[k].type = "fixed"
           ELSE Arrived(client, returned, m)
      /\ messages = {} => client = "python" /\ Unknown(returned, "client")
  BY <1>1, TakenMessage
<1> HIDE DEF messages
<1>3. \/ taken' \in messages /\ at' = IF IsUndefined(taken') THEN "undefined" ELSE "done"
      \/ messages = {} /\ at' = "raised" /\ taken' = taken
  BY DEF Take, messages
<1>4. Languages' /\ Messages' /\ NothingYet'
  BY <1>1, <1>3, LanguagesStay DEF Messages, NothingYet
<1>5. /\ given # <<>> => Arrived(Receiver, passed, given)
      /\ taken # <<>> => Arrived(client, returned, taken)
  BY <1>1 DEF CodecInv, ValuesArrive
<1>6. given' # <<>> => Arrived(Receiver, passed, given)'
  BY <1>1, <1>5 DEF Arrived, SameFor, WrongSize, Receiver
<1>7. CASE messages = {} /\ at' = "raised" /\ taken' = taken
  <2>1. taken' # <<>> => Arrived(client, returned, taken)'
    BY <1>1, <1>5, <1>7 DEF Arrived, SameFor, WrongSize
  <2>2. client' = "python" /\ Unknown(returned, "client")'
    BY <1>1, <1>2, <1>7 DEF Unknown
  <2> QED
    BY <1>4, <1>6, <1>7, <2>1, <2>2 DEF CodecInv, EndsForCause, ValuesArrive
<1>8. CASE taken' \in messages /\ IsUndefined(taken') /\ at' = "undefined"
  BY <1>1, <1>2, <1>4, <1>8 DEF CodecInv, EndsForCause, ValuesArrive
<1>9. CASE taken' \in messages /\ ~IsUndefined(taken') /\ at' = "done"
  <2>1. Arrived(client, returned, taken')
    BY <1>2, <1>9
  <2>2. Arrived(client, returned, taken)'
    BY <1>1, <2>1 DEF Arrived, SameFor, WrongSize
  <2> QED
    BY <1>4, <1>6, <1>9, <2>2 DEF CodecInv, EndsForCause, ValuesArrive
<1> QED
  BY <1>3, <1>7, <1>8, <1>9

LEMMA CodecStutter == ASSUME CodecInv, UNCHANGED vars PROVE CodecInv'
<1>1. /\ client' = client /\ server' = server /\ behind' = behind /\ kind' = kind /\ passed' = passed
      /\ given' = given /\ returned' = returned /\ taken' = taken /\ wire' = wire /\ at' = at
  BY DEF vars
<1>2. Languages'
  BY <1>1, LanguagesStay DEF CodecInv
<1>3. NothingYet'
  BY <1>1 DEF CodecInv, NothingYet
<1>4. Messages'
  <2>1. at = "sent" => OnTheWay(Sender, passed, wire)'
    BY <1>1 DEF CodecInv, Messages, OnTheWay, OnWire, Sender
  <2>2. at = "answered" => OnTheWay(server, returned, wire)'
    BY <1>1 DEF CodecInv, Messages, OnTheWay, OnWire
  <2>3. at = "answered" => (\A k \in DOMAIN returned : returned[k] \in Returnable)'
    BY <1>1 DEF CodecInv, Messages, Returnable, Passable
  <2> QED
    BY <1>1, <2>1, <2>2, <2>3 DEF Messages
<1>5. ValuesArrive'
  <2>1. at # "undefined" /\ given # <<>> => Arrived(Receiver, passed, given)'
    BY <1>1 DEF CodecInv, ValuesArrive, Arrived, SameFor, WrongSize, Receiver
  <2>2. at # "undefined" /\ taken # <<>> => Arrived(client, returned, taken)'
    BY <1>1 DEF CodecInv, ValuesArrive, Arrived, SameFor, WrongSize
  <2> QED
    BY <1>1, <2>1, <2>2 DEF ValuesArrive
<1>6. EndsForCause'
  BY <1>1 DEF CodecInv, EndsForCause, WrongSize, Unknown, Sender, Receiver
<1> QED
  BY <1>2, <1>3, <1>4, <1>5, <1>6 DEF CodecInv

\* The invariant holds of every message, whatever the languages.
LEMMA InvariantHolds == Spec => []CodecInv
<1>1. Init => CodecInv
  BY CodecInit
<1>2. CodecInv /\ [Next]_vars => CodecInv'
  BY SendStep, ReceiveStep, AnswerStep, TakeStep, CodecStutter DEF Next
<1> QED
  BY <1>1, <1>2, PTL DEF Spec

\* What a handler, a callback or a caller gets is what the other application passed,
\* field by field, for messages of any number of fields.
THEOREM WhatArrivesWasPassed == Spec => []ValuesArrive
<1>1. CodecInv => ValuesArrive
  BY DEF CodecInv
<1> QED
  BY <1>1, InvariantHolds, PTL

\* An exchange that ends short of its result does so for a value that is not of its
\* declared type, or for one of the conversions that are named.
THEOREM ExchangesEndForCause == Spec => []EndsForCause
<1>1. CodecInv => EndsForCause
  BY DEF CodecInv
<1> QED
  BY <1>1, InvariantHolds, PTL

=============================================================================
