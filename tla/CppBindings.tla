---------------------------- MODULE CppBindings ----------------------------
(***************************************************************************)
(* The C++ backend: one step for each file it renders, with what the file  *)
(* declares, defines and uses.  A compiler and a linker have to find every *)
(* use in the files that are included, and a definition of every member    *)
(* function that is declared.                                              *)
(***************************************************************************)
EXTENDS CppNames

CONSTANTS
  Vocabulary,    \* the words of names
  Descriptions   \* interface descriptions, each a set of entities, no two alike

\* No parameters, a table of them, one that has a parameter "val", or a native message.
Shape == {"void", "dict", "value", "native"}
Returned == {"void", "dict", "native", "direct"}
Access == {"read-only", "read-write", "read-write-toggle"}

\* An entity's name, and its service's, begin with a letter.
Part == [word : Vocabulary, capital : BOOLEAN]
Name == {n \in Seq(Part) : n # <<>> /\ n[1].word \notin {"_", "__"}}

Entity ==
  [kind : {"rpc"}, service : Name \cup {Main}, name : Name, parameter : Shape, returns : Returned]
  \cup [kind : {"signal"}, service : Name \cup {Main}, name : Name, parameter : Shape]
  \cup [kind : {"property"}, service : Name \cup {Main}, name : Name, access : Access]

Service(service) == [kind |-> "service", service |-> service]
Fixed == [kind |-> "fixed"]

\* What a property is lowered to.
ChangedSignal(p) == Signal(p.service, Lowerfirst(p.name) \o Cap("changed"), "value")
SetRpc(p) == Rpc(p.service, Low("set") \o Upperfirst(p.name), "value", "void")
ToggleRpc(p) == Rpc(p.service, Low("toggle") \o Upperfirst(p.name), "void", "void")

Properties(d) == {e \in d : e.kind = "property"}
FromProperties(d) ==
  {ChangedSignal(p) : p \in Properties(d)}
  \cup {SetRpc(p) : p \in {q \in Properties(d) : q.access # "read-only"}}
  \cup {ToggleRpc(p) : p \in {q \in Properties(d) : q.access = "read-write-toggle"}}

SameEntry(a, b) == a.kind = b.kind /\ a.service = b.service /\ a.name = b.name

\* Mutant of Normalized: what is declared stays.
Normalized_KeepsDeclared(d) ==
  d \cup {e \in FromProperties(d) : ~\E f \in d : SameEntry(e, f)}

\* What is lowered replaces what is declared by its name.
Normalized(d) ==
  FromProperties(d) \cup {e \in d : ~\E f \in FromProperties(d) : SameEntry(e, f)}

\* Where things live: in the namespace, in a class or an enum, or on the wire.
Namespace == Low("namespace")
Wire == Low("wire")
ServiceId == Cap("ServiceId")
Transport == Cap("ClientRpcTransport")
ClientRpc == Cap("ClientRpc")
SignalClients == {Cap("ClientSignals"), Cap("ClientSignalsThreaded")}
Server == Cap("Server")
ServerSignals == Cap("Signals")
QClientRpc == Cap("QClientRpc")
QClientSignals == Cap("QClientSignals")
QClient == Cap("QClient")

VARIABLES
  iface,      \* the normalized interface
  files,      \* the files rendered so far, in order
  declared,   \* what each file declares,
  defined,    \* defines,
  used        \* and uses

vars == <<iface, files, declared, defined, used>>

Rpcs == {e \in iface : e.kind = "rpc"}
Signals == {e \in iface : e.kind = "signal"}
Props == {e \in iface : e.kind = "property"}
RpcServices == {e.service : e \in Rpcs}
Services == {e.service : e \in iface}

\* What is made of an entity: what it is, where it lives, its name and its parameters.
Ref(what, in, name, takes, e) ==
  [what |-> what, in |-> in, name |-> name, takes |-> takes, of |-> e]

Method(in, name, takes, e) == Ref("method", in, name, takes, e)
Member(in, name, e) == Ref("member", in, name, <<>>, e)
Constant(in, name, e) == Ref("constant", in, name, <<>>, e)
Nested(in, name, e) == Ref("type", in, name, <<>>, e)
Type(name, e) == Nested(Namespace, name, e)
Topic(name, e) == Ref("topic", Wire, name, <<>>, e)

Order == <<"Schema", "ClientTransport.h", "ClientTransport.inl", "Client.h", "Client.inl",
           "Client.cpp", "RpcIf.h", "Server.h", "Server.cpp", "QObjectClient.h", "QObjectClient.cpp">>
File == {Order[k] : k \in DOMAIN Order}

\* Which file includes which; an .inl is read at the end of its header and sees it.
Includes ==
  {<<"ClientTransport.h", "ClientTransport.inl">>, <<"ClientTransport.inl", "Schema">>,
   <<"ClientTransport.inl", "ClientTransport.h">>, <<"Client.inl", "Client.h">>,
   <<"Client.h", "Schema">>, <<"Client.h", "ClientTransport.h">>, <<"Client.h", "Client.inl">>,
   <<"Client.cpp", "Client.h">>, <<"RpcIf.h", "Schema">>, <<"Server.h", "RpcIf.h">>,
   <<"Server.h", "Schema">>, <<"Server.cpp", "Server.h">>,
   <<"QObjectClient.h", "Schema">>, <<"QObjectClient.h", "ClientTransport.h">>,
   <<"QObjectClient.cpp", "QObjectClient.h">>}

\* build_protocol: the interface to render.
Init ==
  /\ iface \in {Normalized(d) : d \in Descriptions}
  /\ files = <<>>
  /\ declared = [f \in File |-> {}]
  /\ defined = [f \in File |-> {}]
  /\ used = [f \in File |-> {}]

Render(file, declares, defines, uses) ==
  /\ Len(files) < Len(Order) /\ Order[Len(files) + 1] = file
  /\ files' = Append(files, file)
  /\ declared' = [declared EXCEPT ![file] = declares]
  /\ defined' = [defined EXCEPT ![file] = defines]
  /\ used' = [used EXCEPT ![file] = uses]
  /\ UNCHANGED iface

-----------------------------------------------------------------------------
(* The schema.                                                             *)

ServiceNumber(s) == Constant(ServiceId, ServiceIdName(s), Service(s))
Coordinates(e) == {ServiceNumber(e.service), Constant(RpcIdEnum(e.service), e.name, e)}

Table == {"dict", "value"}
ParameterType(e) == IF e.parameter \in Table THEN {Type(ParameterStruct(e), e)} ELSE {}
ReturnType(e) == IF e.returns \in {"dict", "direct"} THEN {Type(ReturnStruct(e), e)} ELSE {}
SignalType(e) == IF e.parameter \in Table THEN {Type(SignalStruct(e), e)} ELSE {}

SchemaDeclares ==
  {ServiceNumber(s) : s \in Services}
  \cup (UNION {Coordinates(e) \cup ParameterType(e) \cup ReturnType(e) : e \in Rpcs})
  \cup (UNION {SignalType(e) : e \in Signals})

SchemaFile == Render("Schema", SchemaDeclares, {}, {})

-----------------------------------------------------------------------------
(* The transport and the clients of the standard library.                  *)

\* What a sender is given, and what a receiver: a native message is built by the one
\* and read by the other.
Parameters(e) ==
  CASE e.parameter = "void" -> <<>>
    [] e.parameter = "dict" -> <<"arguments">>
    [] e.parameter = "value" -> <<"val">>
    [] OTHER -> <<"builder">>

Received(e) == IF e.parameter = "native" THEN <<"reader">> ELSE Parameters(e)

\* A parameter list with one more parameter.
WithMore(list, more) == IF list = <<>> THEN <<more>> ELSE list \o <<",", more>>

Sending(e) == IF e.returns = "void" THEN Parameters(e) ELSE WithMore(Parameters(e), "callback")

Sender(e) == Method(Transport, Low("_") \o RpcMethodName(e), Sending(e), e)
SenderCall(e) == Method(Transport, ProtectedMethodName(e), Sending(e), e)

Senders == {Sender(e) : e \in Rpcs}

TransportHeader == Render("ClientTransport.h", Senders, {}, {})
TransportInline == Render("ClientTransport.inl", {}, Senders, UNION {Coordinates(e) : e \in Rpcs})

\* The declaration puts a comma before the callback of a native return in any case.
ClientMethod(e) ==
  Method(ClientRpc, RpcMethodName(e),
      IF e.returns = "native" THEN Parameters(e) \o <<",", "callback">> ELSE Parameters(e), e)
ClientReturn(e) ==
  IF e.returns = "dict" THEN {Nested(ClientRpc, ReturnTypeClient(e), e)} ELSE {}

CallbackType(in, e) == Nested(in, CbType(e), e)
Registration(in, e) == Method(in, RegistrationName(e), <<"callback">>, e)
CallbackMember(in, e) == Member(in, CbMember(e), e)

\* Members that a class has for every interface with rpcs, or with signals.  (Of those
\* that begin with "m_", only the ones that an entity can be named like.)
Always(in, names) == {Member(in, n, Fixed) : n \in names}
WithRpcs(in, names) == IF Rpcs = {} THEN {} ELSE Always(in, names)
WithSignals(in, names) == IF Signals = {} THEN {} ELSE Always(in, names)

Handling == {Low("handleIncomingSignal"), Low("handleIncomingSignalAllNonBlock"), Low("getFd")}
Receiving == {Cap("StartThread"), Low("signalReceiverThreadFn"),
              Low("handleIncomingSignal"), Low("handleSubscriptionRequest")}
FixedOfClient == {Cap("Super")} \cup Handling \cup Receiving

ClientAlways ==
  WithRpcs(ClientRpc, {Cap("Super")})
  \cup WithSignals(Cap("ClientSignals"), Handling) \cup WithSignals(Cap("ClientSignalsThreaded"), Receiving)

ClientDeclares ==
  {ClientMethod(e) : e \in Rpcs} \cup (UNION {ClientReturn(e) : e \in Rpcs}) \cup ClientAlways
  \cup (UNION {{CallbackType(in, e), Registration(in, e), CallbackMember(in, e)} :
                in \in SignalClients, e \in Signals})

ClientHeader == Render("Client.h", ClientDeclares, {}, {})

Defined(in, e, qt) ==
  Method(in, HeadName(e, qt),
      IF e.returns = "native" THEN WithMore(Parameters(e), "callback") ELSE Parameters(e), e)
DefinitionUses(e) == ParameterType(e) \cup ReturnType(e) \cup {SenderCall(e)}

\* should_be_template: what is defined in the header, so that the caller's type is known.
Templates == {e \in Rpcs : e.returns = "native"}

ClientInline ==
  Render("Client.inl", {}, {Defined(ClientRpc, e, FALSE) : e \in Templates},
         UNION {DefinitionUses(e) : e \in Templates})

\* Mutant of ClientDefines: all methods are defined in the source file.
ClientDefines_Templates ==
  {Defined(ClientRpc, e, FALSE) : e \in Rpcs}
  \cup {Registration(in, e) : in \in SignalClients, e \in Signals}

ClientDefines ==
  {Defined(ClientRpc, e, FALSE) : e \in Rpcs \ Templates}
  \cup {Registration(in, e) : in \in SignalClients, e \in Signals}

ClientUses ==
  (UNION {DefinitionUses(e) \cup ClientReturn(e) : e \in Rpcs \ Templates})
  \cup (UNION {{CallbackType(in, e), CallbackMember(in, e)} : in \in SignalClients, e \in Signals})
  \cup (UNION {SignalType(e) \cup {Topic(SignalMethodName(e), e), Topic(SignalKeyName(e), e)} : e \in Signals})

ClientSource == Render("Client.cpp", {}, ClientDefines, ClientUses)

-----------------------------------------------------------------------------
(* The server.                                                             *)

Interface(s) == Type(RpcIfType(s), Service(s))
InterfaceMember(s) == Member(Server, RpcIfMember(s), Service(s))

\* A handler writes a native return with a writer it is given.
Handler(e) ==
  Method(RpcIfType(e.service), e.name,
      IF e.returns = "native" THEN WithMore(Received(e), "writer") ELSE Received(e), e)
ServerReturn(e) ==
  IF e.returns = "dict" THEN {Nested(RpcIfType(e.service), ReturnTypeServer(e), e)} ELSE {}

InterfacesDeclare ==
  {Interface(s) : s \in RpcServices} \cup {Handler(e) : e \in Rpcs} \cup (UNION {ServerReturn(e) : e \in Rpcs})

RpcInterfaces == Render("RpcIf.h", InterfacesDeclare, {}, {})

Emitter(e) == Method(ServerSignals, SignalMethodName(e), Parameters(e), e)
Register(e) == Method(ServerSignals, Low("register") \o SubscriptionCbType(e), <<"callback">>, e)

FixedOfSignals ==
  {Cap("Signals"), Cap("SubscriptionCb"), Low("unbind"), Low("getFd"), Low("handleAllSubscriptions")}

ServerDeclares ==
  {InterfaceMember(s) : s \in RpcServices} \cup {Emitter(e) : e \in Signals}
  \cup {Register(e) : e \in Signals} \cup WithSignals(ServerSignals, FixedOfSignals)

ServerHeader == Render("Server.h", ServerDeclares, {}, {Interface(s) : s \in RpcServices})

\* The call puts a comma before the writer in any case.
HandlerCall(e) ==
  [Handler(e) EXCEPT !.takes =
     IF e.returns = "native" THEN Received(e) \o <<",", "writer">> ELSE Received(e)]

ServerDefines == {Emitter(e) : e \in Signals} \cup {Register(e) : e \in Signals}

ServerUses ==
  {InterfaceMember(s) : s \in RpcServices}
  \cup (UNION {Coordinates(e) \cup ParameterType(e) \cup ReturnType(e) \cup {HandlerCall(e)} : e \in Rpcs})
  \cup (UNION {SignalType(e) \cup {Topic(SignalKeyName(e), e)} : e \in Signals})

\* The emitters decide what is on the wire.
ServerSource == Render("Server.cpp", {Topic(SignalKeyName(e), e) : e \in Signals}, ServerDefines, ServerUses)

-----------------------------------------------------------------------------
(* The Qt client.                                                          *)

\* is_valid_for_qt_rpc_client: native messages are not for Qt.
ValidForQt == {e \in Rpcs : e.parameter # "native" /\ e.returns # "native"}
Invokable(in, e) == Method(in, RpcMethodNameQt(e), Parameters(e), e)
Gadget(e) == IF e.returns = "dict" THEN {Type(GadgetName(e), e)} ELSE {}
QtSignal(in, e, takes) == Ref("signal", in, SignalMethodNameQt(e), takes, e)

Getter(p) == Method(QClient, PropertyVarName(p), <<>>, p)
Cache(p) == Member(QClient, Low("m_") \o PropertyVarName(p), p)

\* has_property: the property whose name is the signal's without "Changed", or the
\* signal's as it is if it does not end with that.
WithoutChanged(n) == IF SubSeq(n, Len(n), Len(n)) = Cap("changed") THEN SubSeq(n, 1, Len(n) - 1) ELSE n
PropertyOf(e) == {p \in Props : p.service = e.service /\ p.name = WithoutChanged(e.name)}

\* The client's own signal for a property has no arguments.
QClientSignal(e) == QtSignal(QClient, e, IF PropertyOf(e) = {} THEN Parameters(e) ELSE <<>>)

QPropertyUses(p) ==
  {Getter(p), Ref("signal", QClient, NotificationName(p), <<>>, ChangedSignal(p))}
  \cup IF p.access = "read-only" THEN {} ELSE {Method(QClient, SetterName(p), <<"val">>, SetRpc(p))}

\* The names of members, and those in front of which "m_" is put.
FixedOfQt == Handling \cup {Low("registerMetaTypes")}
Halves == {Low("qclientRpc"), Low("qclientSignals")}

QtAlways ==
  Always(QClientSignals, Handling) \cup Always(QClient, {Low("registerMetaTypes")})
  \cup WithRpcs(QClient, {Low("m_") \o Low("qclientRpc")})
  \cup WithSignals(QClient, {Low("m_") \o Low("qclientSignals")})

QtDeclares ==
  (UNION {Gadget(e) : e \in Rpcs})
  \cup {Invokable(in, e) : in \in {QClientRpc, QClient}, e \in ValidForQt}
  \cup {QtSignal(QClientSignals, e, Parameters(e)) : e \in Signals}
  \cup {QClientSignal(e) : e \in Signals}
  \cup {Getter(p) : p \in Props} \cup {Cache(p) : p \in Props} \cup QtAlways

QtHeader == Render("QObjectClient.h", QtDeclares, {}, UNION {QPropertyUses(p) : p \in Props})

\* The handler emits what it has read.
Emission(e) == QtSignal(QClientSignals, e, Received(e))

\* A signal is passed on with its parameters; for a property's, its "val" is compared
\* with what is cached.
Connection(e) ==
  {QClientSignal(e)} \cup
  IF PropertyOf(e) = {} THEN {QtSignal(QClientSignals, e, Parameters(e))}
  ELSE {QtSignal(QClientSignals, e, <<"val">>)} \cup {Cache(p) : p \in PropertyOf(e)}

QtDefines ==
  {Defined(in, e, TRUE) : in \in {QClientRpc, QClient}, e \in ValidForQt} \cup {Getter(p) : p \in Props}

QtUses ==
  (UNION {DefinitionUses(e) : e \in ValidForQt}) \cup (UNION {Gadget(e) : e \in Rpcs})
  \cup {Method(QClientRpc, PublicMethodNameQt(e), Parameters(e), e) : e \in ValidForQt}
  \cup {Topic(SignalMethodName(e), e) : e \in Signals}
  \cup {Topic(SignalKeyName(e), e) : e \in Signals}
  \cup (UNION {SignalType(e) \cup Connection(e) \cup {Emission(e)} : e \in Signals})
  \cup {Cache(p) : p \in Props}

\* For a property's signal the generator looks at the type of its first parameter, and
\* raises if it has none.
Raises == \E e \in Signals : e.parameter = "void" /\ PropertyOf(e) # {}

QtSource == ~Raises /\ Render("QObjectClient.cpp", {}, QtDefines, QtUses)

Next ==
  \/ SchemaFile \/ TransportHeader \/ TransportInline \/ ClientHeader \/ ClientInline \/ ClientSource
  \/ RpcInterfaces \/ ServerHeader \/ ServerSource \/ QtHeader \/ QtSource

Spec == Init /\ [][Next]_vars

-----------------------------------------------------------------------------
Rendered == {files[k] : k \in DOMAIN files}
Done == Rendered = File

TypeOK ==
  /\ files = SubSeq(Order, 1, Len(files))
  /\ \A f \in File :
       /\ f \notin Rendered => declared[f] \cup defined[f] \cup used[f] = {}
       /\ \A r \in declared[f] \cup defined[f] \cup used[f] :
            r.of \in iface \cup {Service(s) : s \in Services} \cup {Fixed}

\* Inclusions go four files deep at most.
Composed(R) == {p \in File \X File : \E g \in File : <<p[1], g>> \in R /\ <<g, p[2]>> \in R}
Sees == Composed(Composed(Includes \cup {<<f, f>> : f \in File}))

\* A native return of an rpc without parameters leaves a comma without a left side.
CommaAlone(r) == r.of.kind = "rpc" /\ r.of.parameter = "void" /\ r.of.returns = "native"

\* A property whose key begins with a capital letter is not found by its signal.
Unbound(r) == \E p \in Props : p.name = Upperfirst(p.name) /\ r \in QPropertyUses(p)

\* An rpc of the main service keeps its capital letter where Qt's classes declare it,
\* and loses it where they define it.
LosesCapital(r) ==
  /\ r.what = "method" /\ r.in \in {QClientRpc, QClient}
  /\ r.of.kind = "rpc" /\ r.of.service = Main /\ r.of.name = Upperfirst(r.of.name)

\* A native signal of Qt's client is declared with a builder and emitted with a reader.
WrongMessage(r) == r.what = "signal" /\ r.takes = <<"reader">> /\ r.of.parameter = "native"

\* A declared signal that is named like a property is taken for the one that the property
\* is lowered to, and need not have its parameter.
NoValue(r) == r.what = "signal" /\ r.takes = <<"val">> /\ r.of.parameter # "value"

\* Every name a file uses or defines is declared in a file it includes: with the same
\* parameters and for the same entity, although other functions make it.  A topic is
\* not declared anywhere; it has to be the one that the server sends.
Resolved(f, r) ==
  IF r.what = "topic" THEN Done => r \in declared["Server.cpp"]
  ELSE \E g \in File : r \in declared[g] /\ <<f, g>> \in Sees

NamesResolve ==
  \A f \in Rendered : \A r \in used[f] \cup defined[f] :
    \/ Resolved(f, r)
    \/ CommaAlone(r) \/ Unbound(r) \/ LosesCapital(r) \/ WrongMessage(r) \/ NoValue(r)

\* Every member function a class declares is defined in exactly one file; handlers are
\* the application's, and signals are written by Qt.
DefinedOnce ==
  Done => \A f \in File : \A r \in declared[f] :
    r.what = "method" /\ r.in \notin {RpcIfType(s) : s \in Services} /\ ~CommaAlone(r) /\ ~LosesCapital(r)
    => \E g \in File : \A h \in File : r \in defined[h] <=> h = g

\* Two entities that are named alike in the interface: they are joined to one name; or
\* Qt, which knows no "on", gives them one; or an rpc is named like the registration
\* of a callback, a service like the main one; or an rpc, a signal or a property is named
\* like what the classes have for every interface.
Alike(a, b) ==
  \/ {a.kind, b.kind} = {"service"} /\ ServiceIdName(a.service) = ServiceIdName(b.service)
  \/ a.kind = b.kind /\ a.kind \in {"rpc", "signal"} /\ Joined(a) = Joined(b)
  \/ {a.kind, b.kind} \subseteq {"rpc", "signal", "property"} /\ PropertyVarName(a) = PropertyVarName(b)
  \/ a.kind = "rpc" /\ b.kind = "signal" /\ a.service = Main /\ a.name = RegistrationName(b)
  \/ a.kind = "fixed" /\ b.kind = "signal" /\ b.service = Main /\ b.name \in FixedOfSignals
  \/ a.kind = "fixed" /\ b.kind = "rpc" /\ b.service = Main /\ b.name \in FixedOfClient
  \/ a.kind = "fixed" /\ b.kind \in {"rpc", "signal", "property"} /\ PropertyVarName(b) \in FixedOfQt \cup Halves

\* The client inherits from both of its halves.
SameScope(a, b) == a.in = b.in \/ {a.in, b.in} = {ClientRpc, Cap("ClientSignalsThreaded")}

\* Two entities get one name in one class only if they are alike.
ClashesForCause ==
  \A f, g \in Rendered : \A a \in declared[f], b \in declared[g] :
    a.name = b.name /\ SameScope(a, b) /\ a.of # b.of => Alike(a.of, b.of) \/ Alike(b.of, a.of)

\* Names that do not spell what the generator puts between, before and behind names: an
\* entity that has two underscores in its name or its service's, or that is named "m_" or
\* "Return" in front or "Cb" or "RpcIf" at the end, may get the name of one that is not
\* like it at all.
Plain(e) ==
  /\ \A n \in {e.service, e.name} : \A k \in DOMAIN n : n[k].word # "__"
  /\ e.service[1].word # "m_"
  /\ e.name[1].word \notin {"m_", "Return"}
  /\ e.name[Len(e.name)].word \notin {"Cb", "RpcIf"}

PlainNames == \A d \in Descriptions : \A e \in d : Plain(e)

=============================================================================
