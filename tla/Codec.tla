------------------------------- MODULE Codec -------------------------------
(***************************************************************************)
(* The way of values through one exchange of generated peers: a call, from *)
(* the caller's arguments to the handler and from its result back, or a    *)
(* signal.  Every language has its own conversions, and its own idea of    *)
(* what to do with a value that is not of its declared type.               *)
(***************************************************************************)
EXTENDS Naturals, Sequences

CONSTANT MaxFields   \* bound on the fields of a message

ASSUME CodecAssumption == MaxFields \in Nat \ {0}

Qt == {"qt", "web"}   \* the Qt client, and its variant for a web channel
ClientLanguage == {"python", "cpp"} \cup Qt
ServerLanguage == {"python", "cpp"}

(***************************************************************************)
(* A field's value, by its declared type: an enumerator, which the other   *)
(* peer's version of the interface may not have; a text, with a NUL in it  *)
(* or cut there; Data of the declared size or another one; a Span, which   *)
(* has no size.  In a web page data is base64.                             *)
(***************************************************************************)
Of(type, values, forms) == [type : {type}, value : values, form : forms]
Data == {"fixed", "span"}

Value ==
  Of("enum", {"known", "new"}, {"raw"}) \cup Of("text", {"plain", "nul", "cut"}, {"raw"})
    \cup Of("fixed", {"fits", "other size"}, {"raw", "base64"}) \cup Of("span", {"bytes"}, {"raw", "base64"})

Undefined == [type |-> "none", value |-> "undefined", form |-> "raw"]

VARIABLES
  client, server,   \* the languages
  behind,           \* the peer that lacks new enumerators: "client", "server" or "none"
  kind,             \* "signal", or what a method returns: "void", "direct" or "fields"
  passed,           \* the arguments of the call or the signal
  given,            \* what the handler, or the signal's callback, is given of them
  returned, taken,  \* the handler's result, and what the caller gets of it
  wire,             \* the message under way
  at                \* how far the exchange is, or how it ended

vars == <<client, server, behind, kind, passed, given, returned, taken, wire, at>>

Sender == IF kind = "signal" THEN server ELSE client
Receiver == IF kind = "signal" THEN client ELSE server

\* What the compiler of a language, and what a peer's version of the interface, let an
\* application pass: in C++, Data<n> is an array of n bytes.
Passable(peer, language) ==
  {v \in Value :
     /\ v.value = "new" => behind # peer
     /\ v.value # "cut"
     /\ v.value = "other size" => language # "cpp"
     /\ v.form = IF language = "web" /\ v.type \in Data THEN "base64" ELSE "raw"}

Fields(values, n) == UNION {[1..k -> values] : k \in 1..n}

\* The generated C++ has no return type for a Span.
Returnable ==
  {v \in Passable("server", server) : v.type = "span" => client = "python" /\ server = "python"}

Init ==
  /\ client \in ClientLanguage /\ server \in ServerLanguage
  /\ behind \in {"none", "client", "server"}
  /\ kind \in {"signal", "void", "direct", "fields"}
  /\ passed \in Fields(Passable(IF kind = "signal" THEN "server" ELSE "client", Sender), MaxFields)
  /\ given = <<>> /\ returned = <<>> /\ taken = <<>> /\ wire = <<>>
  /\ at = "call"

-----------------------------------------------------------------------------
(* One field.  A conversion has no outcome when it raises, and more than   *)
(* one when that is up to the libraries.                                   *)

\* Mutant of PyEncoded: sizes are not checked.
PyEncoded_Unchecked(v) == {v}

PyEncoded(v) == IF v.value = "other size" THEN {} ELSE {v}

\* Mutant of PyDecoded: sizes are not checked.
PyDecoded_Unchecked(v, peer) == IF v.value = "new" /\ behind = peer THEN {} ELSE {v}

PyDecoded(v, peer) ==
  IF v.value = "other size" \/ (v.value = "new" /\ behind = peer) THEN {} ELSE {v}

Cut(v) == [v EXCEPT !.value = "cut"]

\* Cap'n Proto turns a std::string into its text and back, and Qt a QByteArray into a
\* QString; some of their versions look for the end of the characters.
MayCut(v) == IF v.value = "nul" THEN {v, Cut(v)} ELSE {v}
MustCut(v) == IF v.value = "nul" THEN {Cut(v)} ELSE {v}

CppEncoded(v) == MayCut(v)

\* toUtf8().constData()
QtEncoded(v) == MustCut(v)

\* fromBase64
WebEncoded(v) == QtEncoded([v EXCEPT !.form = "raw"])

\* A server's or a signal client's view of Data<n> spans the bytes that came.
CppView(v) == IF v.value = "other size" THEN {Undefined} ELSE {v}

\* A result's bytes are copied into an array of n, whose size is only asserted.
CppResult(v) == IF v.value = "other size" THEN {Undefined} ELSE MayCut(v)

\* ... or into a QByteArray, which is empty.  cStr()
QtResult(v) == IF v.type = "fixed" THEN {Undefined} ELSE MustCut(v)

\* QByteArray(begin, size), and from it a QString
QtSignal(v) == MayCut(v)

\* toBase64
WebSignal(v) == QtSignal(IF v.type \in Data THEN [v EXCEPT !.form = "base64"] ELSE v)

Encoded(language, v) ==
  CASE language = "python" -> PyEncoded(v)
    [] language = "cpp" -> CppEncoded(v)
    [] language = "qt" -> QtEncoded(v)
    [] language = "web" -> WebEncoded(v)

GivenOf(v) ==
  CASE Receiver = "python" -> PyDecoded(v, IF kind = "signal" THEN "client" ELSE "server")
    [] Receiver = "cpp" -> CppView(v)
    [] Receiver = "qt" -> QtSignal(v)
    [] Receiver = "web" -> WebSignal(v)

TakenOf(v) ==
  CASE client = "python" -> PyDecoded(v, "client")
    [] client = "cpp" -> CppResult(v)
    [] client \in Qt -> QtResult(v)

-----------------------------------------------------------------------------
(* A message: all its fields, or none if one of them raises.               *)

Converted(outcomes) ==
  {m \in [DOMAIN outcomes -> Value \cup {Undefined}] : \A k \in DOMAIN outcomes : m[k] \in outcomes[k]}

IsUndefined(m) == \E k \in DOMAIN m : m[k] = Undefined

\* The arguments are encoded, or a conversion raises and nothing is sent.
Send ==
  /\ at = "call"
  /\ LET messages == Converted([k \in DOMAIN passed |-> Encoded(Sender, passed[k])])
     IN \/ \E m \in messages : wire' = m /\ at' = "sent"
        \/ messages = {} /\ at' = "refused" /\ UNCHANGED wire
  /\ UNCHANGED <<client, server, behind, kind, passed, given, returned, taken>>

\* The handler or the callback is given all of them or is not called.
Receive ==
  /\ at = "sent"
  /\ wire' = <<>>
  /\ LET messages == Converted([k \in DOMAIN wire |-> GivenOf(wire[k])])
     IN \/ \E m \in messages :
             /\ given' = m
             /\ at' = IF IsUndefined(m) THEN "undefined" ELSE IF kind \in {"signal", "void"} THEN "done" ELSE "handled"
        \/ messages = {} /\ at' = "dropped" /\ UNCHANGED given
  /\ UNCHANGED <<client, server, behind, kind, passed, returned, taken>>

\* The handler returns; its result is encoded and sent, or a conversion raises and the
\* call is never answered.
Answer ==
  /\ at = "handled"
  /\ \E result \in Fields(Returnable, IF kind = "direct" THEN 1 ELSE MaxFields) :
       /\ returned' = result
       /\ LET messages == Converted([k \in DOMAIN result |-> Encoded(server, result[k])])
          IN \/ \E m \in messages : wire' = m /\ at' = "answered"
             \/ messages = {} /\ at' = "unanswered" /\ UNCHANGED wire
  /\ UNCHANGED <<client, server, behind, kind, passed, given, taken>>

\* The caller gets the result, or an exception.
Take ==
  /\ at = "answered"
  /\ wire' = <<>>
  /\ LET messages == Converted([k \in DOMAIN wire |-> TakenOf(wire[k])])
     IN \/ \E m \in messages : taken' = m /\ at' = IF IsUndefined(m) THEN "undefined" ELSE "done"
        \/ messages = {} /\ at' = "raised" /\ UNCHANGED taken
  /\ UNCHANGED <<client, server, behind, kind, passed, given, returned>>

Next == Send \/ Receive \/ Answer \/ Take

Spec == Init /\ [][Next]_vars

-----------------------------------------------------------------------------
WrongSize(values) == \E k \in DOMAIN values : values[k].value = "other size"
Unknown(values, peer) == behind = peer /\ \E k \in DOMAIN values : values[k].value = "new"

\* What arrives of a value: the value, in the receiving language's form; of a text with
\* a NUL, what is before it, if there is C++ on the way.
SameFor(language, v, w) ==
  /\ w.type = v.type
  /\ w.form = IF language = "web" /\ v.type \in Data THEN "base64" ELSE "raw"
  /\ \/ w.value = v.value
     \/ v.value = "nul" /\ w.value = "cut" /\ ~(client = "python" /\ server = "python")

Arrived(language, values, got) ==
  /\ DOMAIN got = DOMAIN values
  /\ \A k \in DOMAIN values : SameFor(language, values[k], got[k])
  /\ language = "python" => ~WrongSize(got)

\* A handler that runs, a callback that is called and a call that returns have got
\* exactly what the other application passed, every field of it, whatever pair of
\* languages, and an application in Python never gets data of another size than the
\* declared one.
ValuesArrive ==
  at # "undefined" =>
    /\ given # <<>> => Arrived(Receiver, passed, given)
    /\ taken # <<>> => Arrived(client, returned, taken)

\* An exchange ends short of its result only for a value that is not of its declared
\* type, and who passed or declared it can tell: nothing is sent of what a Python caller
\* got wrong; a C++ or Qt caller waits for ever only for a value its server does not know
\* or a wrong size of its own or of a Python handler's.  What a Python peer checks leads
\* to nothing undefined; what does is a wrong size from a Qt client to a C++ server, and
\* Data in any result to a Qt client.
EndsForCause ==
  /\ at = "refused" => Sender = "python" /\ WrongSize(passed) /\ given = <<>>
  /\ at = "dropped" =>
       /\ Receiver = "python" /\ given = <<>>
       /\ (Sender \in Qt /\ WrongSize(passed)) \/ Unknown(passed, IF kind = "signal" THEN "client" ELSE "server")
  /\ at = "unanswered" => server = "python" /\ WrongSize(returned)
  /\ at = "raised" => client = "python" /\ Unknown(returned, "client")
  /\ at = "undefined" =>
       IF taken = <<>> THEN client \in Qt /\ server = "cpp" /\ WrongSize(passed)
       ELSE client \in Qt /\ \E k \in DOMAIN returned : returned[k].type = "fixed"

=============================================================================
