--------------------------- MODULE PythonBindings ---------------------------
(***************************************************************************)
(* The Python backend makes a module of classes from the declarations of   *)
(* an interface: a Client with a method per RPC and an on_ method per      *)
(* signal, a Server with a table of handlers and an emit_ method per       *)
(* signal, and a result class per RPC that returns several fields.  Names  *)
(* of an interface that differ may become one Python name; the backend     *)
(* then raises.                                                            *)
(***************************************************************************)
EXTENDS Naturals, Sequences, SequencesExt, FiniteSets

CONSTANTS
  Word,          \* lower-case words
  Keyword,       \* the words that are Python keywords
  MainService,   \* the service "_"
  NamedService,  \* the other services, each of them a word
  Interfaces     \* what may be declared: sequences of declarations, in order

(***************************************************************************)
(* A name of an interface is words written in a style ("getValue",         *)
(* "GetValue", "get_value", "Get_value"); a Python name is words joined by *)
(* underscores.                                                            *)
(***************************************************************************)
Style == {"camel", "capital", "snake", "mixed"}
Name == [words : Seq(Word) \ {<<>>}, style : Style]
PyName == Seq(Word)

\* A class has the name of an enumeration, or that of a method with "Result" appended
\* ("Get_valueResult"), the name of the service in front of it ("DevGet_valueResult").
ClassName == [words : Seq(Word) \ {<<>>}, style : Style \cup {"appended", "enclosed"}]

Declaration ==
  [kind : {"enum", "method", "signal"}, service : NamedService \cup {MainService}, name : Name,
   fields : BOOLEAN,   \* a method that returns a table of fields
   clash : BOOLEAN]    \* two of its fields, parameters or members become one Python name

\* What stands between two underscores, or beside one at either end.
Blank == ""

\* The words of the module's own names, and those that are put in front or behind.
ModuleWords ==
  {Blank, "rpc", "result", "client", "server", "handler", "path", "any", "callable", "protocol",
   "int", "enum", "dataclass", "schema", "float", "bool", "str", "bytes"}

ASSUME BindingsAssumption ==
  /\ ModuleWords \subseteq Word /\ Keyword \subseteq Word
  /\ NamedService \subseteq Word \ {Blank} /\ MainService \notin Word
  /\ Interfaces \subseteq Seq(Declaration)

VARIABLES
  interface,  \* the declarations
  next,       \* the one that is rendered next
  symbols,    \* the module's classes so far
  methods,    \* the methods so far, as entries of the handler table
  signals,    \* the signals so far
  status      \* "rendering", "done" or "failed"

vars == <<interface, next, symbols, methods, signals, status>>

-----------------------------------------------------------------------------
(* Names.                                                                  *)

\* identifier: a name that is a keyword gets an underscore.
Escaped(words) == IF Len(words) = 1 /\ Head(words) \in Keyword THEN Append(words, Blank) ELSE words

\* snake: every style becomes the same words.
Snake(name) == Escaped(name.words)

Qualified(service, words) == IF service = MainService THEN words ELSE Escaped(<<service>>) \o <<Blank>> \o words

\* What the classes of the runtime have already; names with an underscore in front
\* are its own.
ClientRuntime == {<<"close">>, <<"poll", "signal">>}
ServerRuntime == {<<"close">>, <<"process", "request">>, <<"process", "subscription">>, <<"on", "subscribe">>}
Private(words) == Head(words) = Blank

\* Mutant of MethodName: the runtime's names are not set apart.
MethodName_Bare(service, name) == Qualified(service, Snake(name))

MethodName(service, name) ==
  LET value == Qualified(service, Snake(name))
  IN IF value \in ClientRuntime \cup ServerRuntime \/ Private(value) THEN <<"rpc">> \o value ELSE value

\* The class of an enumeration has its name.  (The keywords with a capital letter, None,
\* True and False, are left out.)
EnumClass(name) ==
  IF name.style = "capital" \/ Escaped(name.words) = name.words THEN name
  ELSE [words |-> Escaped(name.words), style |-> "snake"]

\* The first letter of a method's name and of its service's become capital in the name of
\* its result class; an underscore that a name begins with stays, and stands between the
\* two ("_add" of "dev" and "dev_add" both make "Dev_addResult").
ResultClass(service, name) ==
  LET own == service = MainService
      joined == Len(name.words) > 1 /\ name.style \in {"snake", "mixed"}
      rest == IF joined /\ ~own /\ Private(name.words) THEN Tail(name.words) ELSE name.words
  IN [words |-> (IF own THEN <<>> ELSE <<service>>) \o rest \o <<"result">>,
      style |-> IF ~joined THEN "capital" ELSE IF own \/ Private(name.words) THEN "appended" ELSE "enclosed"]

\* The topic of a signal: of another service the names are joined by two
\* underscores, which is how a name of the main service may be written too.
TopicOf(service, name) ==
  IF service = MainService THEN name
  ELSE [words |-> <<service, Blank>> \o name.words,
        style |-> IF Len(name.words) = 1 /\ name.style = "camel" THEN "snake" ELSE name.style]

\* The names the module uses itself.
ModuleSymbols ==
  {[words |-> <<w>>, style |-> "capital"] :
     w \in {"client", "server", "handler", "path", "any", "callable", "protocol"}}
  \cup {[words |-> <<"int", "enum">>, style |-> "capital"]}
  \cup {[words |-> <<w>>, style |-> "camel"] :
     w \in {"dataclass", "schema", "int", "float", "bool", "str", "bytes"}}

-----------------------------------------------------------------------------
(* render.                                                                 *)

Init ==
  /\ interface \in Interfaces
  /\ next = 1
  /\ symbols = ModuleSymbols
  /\ methods = <<>>
  /\ signals = <<>>
  /\ status = "rendering"

Fail == status' = "failed" /\ UNCHANGED <<interface, next, symbols, methods, signals>>

\* Mutant of Number: one too low.
Number_Shifted(k) ==
  Cardinality({j \in 1..(k - 1) : interface[j].kind = "method" /\ interface[j].service = interface[k].service}) - 1

\* The number of a method in its service.
Number(k) ==
  Cardinality({j \in 1..(k - 1) : interface[j].kind = "method" /\ interface[j].service = interface[k].service})

\* reserve: what a class may not be called.
Refused(class) == class \in symbols \/ Private(class.words)

RenderEnum(d) ==
  /\ d.kind = "enum"
  /\ IF Refused(EnumClass(d.name)) \/ d.clash THEN Fail
     ELSE /\ symbols' = symbols \cup {EnumClass(d.name)}
          /\ next' = next + 1
          /\ UNCHANGED <<interface, methods, signals, status>>

PublicMethods == {methods[k].name : k \in DOMAIN methods}
PublicSignals == {signals[k].name : k \in DOMAIN signals}

\* Mutant of RenderMethod: a method whose name is taken is passed over.
RenderMethod_Skips(d) ==
  /\ d.kind = "method"
  /\ LET name == MethodName(d.service, d.name)
     IN /\ methods' = IF name \in PublicMethods THEN methods
                      ELSE Append(methods, [name |-> name, service |-> d.service, number |-> Number(next)])
        /\ next' = next + 1
        /\ UNCHANGED <<interface, symbols, signals, status>>

RenderMethod(d) ==
  /\ d.kind = "method"
  /\ LET name == MethodName(d.service, d.name)
         class == ResultClass(d.service, d.name)
     IN IF name \in PublicMethods \/ (d.fields /\ Refused(class)) \/ d.clash THEN Fail
        ELSE /\ methods' = Append(methods, [name |-> name, service |-> d.service, number |-> Number(next)])
             /\ symbols' = IF d.fields THEN symbols \cup {class} ELSE symbols
             /\ next' = next + 1
             /\ UNCHANGED <<interface, signals, status>>

\* Mutants of RenderSignal: a signal may not have the name of a method either; names
\* are not compared.
RenderSignal_LikeMethods(d) ==
  /\ d.kind = "signal"
  /\ LET name == MethodName(d.service, d.name)
     IN IF name \in PublicSignals \cup PublicMethods \/ d.clash THEN Fail
        ELSE /\ signals' = Append(signals, [name |-> name, topic |-> TopicOf(d.service, d.name)])
             /\ next' = next + 1
             /\ UNCHANGED <<interface, symbols, methods, status>>

RenderSignal_Unchecked(d) ==
  /\ d.kind = "signal"
  /\ signals' = Append(signals, [name |-> MethodName(d.service, d.name), topic |-> TopicOf(d.service, d.name)])
  /\ next' = next + 1
  /\ UNCHANGED <<interface, symbols, methods, status>>

RenderSignal(d) ==
  /\ d.kind = "signal"
  /\ LET name == MethodName(d.service, d.name)
     IN IF name \in PublicSignals \/ d.clash THEN Fail
        ELSE /\ signals' = Append(signals, [name |-> name, topic |-> TopicOf(d.service, d.name)])
             /\ next' = next + 1
             /\ UNCHANGED <<interface, symbols, methods, status>>

OnName(name) == <<"on">> \o name
EmitName(name) == <<"emit">> \o name

\* All is rendered; the classes are written if no method has the name of an on_ method.
Finish ==
  /\ next > Len(interface)
  /\ status' = IF PublicMethods \cap {OnName(n) : n \in PublicSignals} # {} THEN "failed" ELSE "done"
  /\ UNCHANGED <<interface, next, symbols, methods, signals>>

Render ==
  /\ next <= Len(interface)
  /\ LET d == interface[next] IN RenderEnum(d) \/ RenderMethod(d) \/ RenderSignal(d)

Next == status = "rendering" /\ (Render \/ Finish)

Spec == Init /\ [][Next]_vars

-----------------------------------------------------------------------------
TypeOK ==
  /\ interface \in Seq(Declaration) /\ next \in 1..(Len(interface) + 1)
  /\ symbols \subseteq ClassName
  /\ methods \in Seq([name : PyName, service : NamedService \cup {MainService}, number : Nat])
  /\ signals \in Seq([name : PyName, topic : Name])
  /\ status \in {"rendering", "done", "failed"}

\* The names of the Client's and of the Server's methods, the runtime's included.
NamesOf(entries) == [k \in DOMAIN entries |-> entries[k].name]
ClientNames == NamesOf(methods) \o [k \in DOMAIN signals |-> OnName(signals[k].name)] \o SetToSeq(ClientRuntime)
ServerNames == [k \in DOMAIN signals |-> EmitName(signals[k].name)] \o SetToSeq(ServerRuntime)

\* The handler table has every method, at the number every other peer has for it.
HandlersComplete ==
  \A k \in DOMAIN interface : interface[k].kind = "method" =>
    Cardinality({j \in DOMAIN methods :
      /\ methods[j].service = interface[k].service
      /\ methods[j].number = Number(k)
      /\ methods[j].name = MethodName(interface[k].service, interface[k].name)}) = 1

\* No method of a generated class hides another one, generated or inherited, and
\* none has a name the runtime keeps to itself (python.md: "Ambiguous generated
\* names fail clearly"); and every method can be called by its number.
NothingHidden ==
  status = "done" =>
    /\ IsInjective(ClientNames) /\ IsInjective(ServerNames)
    /\ \A k \in DOMAIN ClientNames : ~Private(ClientNames[k])
    /\ HandlersComplete

\* The class that is made of a declaration.
HasClass(d) == d.kind = "enum" \/ (d.kind = "method" /\ d.fields)
ClassOf(d) == IF d.kind = "enum" THEN EnumClass(d.name) ELSE ResultClass(d.service, d.name)

Ambiguous(d, e) ==
  \/ d.kind = e.kind /\ d.kind # "enum" /\ MethodName(d.service, d.name) = MethodName(e.service, e.name)
  \/ d.kind = "method" /\ e.kind = "signal" /\ MethodName(d.service, d.name) = OnName(MethodName(e.service, e.name))
  \/ HasClass(d) /\ HasClass(e) /\ ClassOf(d) = ClassOf(e)

Cause ==
  \/ \E k \in DOMAIN interface : interface[k].clash
  \/ \E k \in DOMAIN interface :
       /\ HasClass(interface[k])
       /\ ClassOf(interface[k]) \in ModuleSymbols \/ Private(ClassOf(interface[k]).words)
  \/ \E k, j \in DOMAIN interface : k # j /\ Ambiguous(interface[k], interface[j])

\* An interface is refused only if two of its declarations get in each other's way
\* or in the way of the module's own names.
RefusedForCause == status = "failed" => Cause

IsKeyword(d) ==
  /\ d.kind = "signal" /\ d.service # MainService
  /\ Escaped(<<d.service>>) # <<d.service>> \/ Escaped(d.name.words) # d.name.words

\* Two signals never share a topic, for a client tells signals apart by their topics.
\* Signals of other services are excepted if they or their service are named like a
\* keyword: "class" of "dev" and "dev__class" have the same topic, but not the same
\* Python name.
TopicsDistinct ==
  status = "done" /\ ~(\E k \in DOMAIN interface : IsKeyword(interface[k])) =>
    IsInjective([k \in DOMAIN signals |-> signals[k].topic])

=============================================================================
