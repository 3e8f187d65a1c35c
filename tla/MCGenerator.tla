---------------------------- MODULE MCGenerator -----------------------------
(***************************************************************************)
(* For Python, interfaces of up to three declarations out of names that    *)
(* come close to one another, to those of the runtime and to keywords.     *)
(* For C++, up to three entities: of a main service, a service and one     *)
(* that is named like the main one; an rpc that another one is joined to,  *)
(* one like a registration, one like a setter and one like a member that   *)
(* every client has; properties of both services, one with a capital       *)
(* letter and one like a half of Qt's client; signals named like a         *)
(* property, without parameters, with others and with its own.             *)
(***************************************************************************)
EXTENDS Generator, FiniteSetsExt

Words == ModuleWords \cup {"add", "get", "value", "close", "on", "changed", "class", "dev"}
Keywords == {"class"}
Dev == {"dev", "class"}

Named(words, style) == [words |-> words, style |-> style]
Add == Named(<<"add">>, "camel")
Changed == Named(<<"changed">>, "camel")
Class == Named(<<"class">>, "camel")
DevAdd == Named(<<"dev", Blank, "add">>, "snake")
DevClass == Named(<<"dev", Blank, "class">>, "snake")
ClassAdd == Named(<<"class", Blank, "add">>, "snake")
OwnAdd == Named(<<Blank, "add">>, "snake")

MethodNames == {Add, Changed, Class, DevAdd, Named(<<"close">>, "camel"), Named(<<"rpc", "close">>, "camel"),
  Named(<<"get", "value">>, "camel"), Named(<<"get", "value">>, "snake"), Named(<<"on", "changed">>, "camel")}

Of(kind, service, names, fields) ==
  [kind : {kind}, service : {service}, name : names, fields : fields, clash : {FALSE}]

EnumNames == {Named(<<"add", "result">>, "capital"), Named(<<"client">>, "capital"), Class,
  Named(<<"class", Blank>>, "snake"), OwnAdd}

EnumDeclarations == Of("enum", MainService, EnumNames, {FALSE})
MethodDeclarations == Of("method", MainService, MethodNames, {FALSE}) \cup Of("method", MainService, {Add, OwnAdd}, {TRUE})
  \cup Of("method", "dev", {Add, Class}, BOOLEAN)
  \cup Of("method", MainService, {Named(<<"dev", "get", "value">>, "snake")}, {TRUE})
  \cup Of("method", "dev", {Named(<<"get", "value">>, "snake")}, {TRUE})
SignalDeclarations == Of("signal", MainService, {Add, Changed, DevAdd, DevClass, ClassAdd}, {FALSE})
  \cup Of("signal", "dev", {Add, Class}, {FALSE}) \cup Of("signal", "class", {Add}, {FALSE})
Clashing == {[kind |-> "method", service |-> MainService, name |-> Add, fields |-> TRUE, clash |-> TRUE]}

\* Enumerations come first; of a service, methods before signals and no name twice.
Before(d, e) ==
  /\ d # e
  /\ e.kind = "enum" => d.kind = "enum"
  /\ d.service = e.service /\ d.kind = "signal" => e.kind = "signal"
  /\ d.service = e.service /\ d.kind = e.kind => d.name # e.name

\* What stands between two declarations of a service is of that service, too.
Ordered(declarations) ==
  {s \in UNION {[1..n -> declarations] : n \in 1..3} :
     /\ \A j, k \in DOMAIN s : j < k => Before(s[j], s[k])
     /\ \A k \in 2..(Len(s) - 1) :
          s[k - 1].kind # "enum" /\ s[k - 1].service = s[k + 1].service => s[k].service = s[k - 1].service}

ManyInterfaces ==
  Ordered(EnumDeclarations \cup MethodDeclarations \cup SignalDeclarations \cup Clashing)

-----------------------------------------------------------------------------
CppWords == {"_", "__", "set", "toggle", "changed", "dev", "reset", "on", "alarm", "mode", "main", "unbind",
  "StartThread", "qclientRpc"}

\* How many entities a description has at most.
CONSTANT MaxEntities

N == INSTANCE CppNames

CppDev == N!Cap("dev")
Reset == N!Low("reset")
Alarm == N!Low("alarm")
Mode == N!Low("mode")

Pool ==
  {N!Rpc(N!Main, Reset, "void", "dict"),
   N!Rpc(N!Main, N!Low("dev") \o N!Cap("reset"), "dict", "native"),
   N!Rpc(N!Main, N!Low("on") \o N!Cap("alarm"), "void", "void"),
   N!Rpc(N!Main, Alarm, "void", "native"),
   N!Rpc(N!Main, N!Cap("mode"), "dict", "direct"),
   N!Rpc(CppDev, Reset, "native", "direct"),
   N!Rpc(CppDev, N!Low("set") \o N!Cap("mode"), "native", "dict"),
   N!Rpc(N!Cap("main"), Reset, "dict", "direct"),
   N!Rpc(N!Main, N!Cap("StartThread"), "void", "void"),
   N!Signal(N!Main, Alarm, "void"),
   N!Signal(N!Main, Mode, "dict"),
   N!Signal(N!Main, N!Low("dev") \o N!Cap("alarm"), "native"),
   N!Signal(N!Main, N!Low("unbind"), "dict"),
   N!Signal(CppDev, Alarm, "dict"),
   N!Signal(CppDev, Mode, "void"),
   N!Signal(CppDev, N!Cap("mode"), "value"),
   N!Property(N!Main, Mode, "read-write-toggle"),
   N!Property(N!Main, Reset, "read-only"),
   N!Property(N!Main, N!Low("qclientRpc"), "read-only"),
   N!Property(CppDev, Mode, "read-write"),
   N!Property(CppDev, N!Cap("mode"), "read-only")}

SmallDescriptions ==
  UNION {kSubset(n, Pool) : n \in 1..MaxEntities}

\* Every entity of the pool is plain: what is proved of plain names is about this run's, too.
ASSUME PoolIsPlain == Cpp!PlainNames

=============================================================================
