------------------------------ MODULE CppNames ------------------------------
(***************************************************************************)
(* The names of the generated C++ code.  Several functions of the          *)
(* generator make the same name, one in the file that declares it and      *)
(* others in the files that use it; each of them is an operator here.      *)
(***************************************************************************)
EXTENDS Naturals, Sequences

(***************************************************************************)
(* A name is a sequence of words, each with or without a capital letter.   *)
(***************************************************************************)
Low(word) == <<[word |-> word, capital |-> FALSE]>>
Cap(word) == <<[word |-> word, capital |-> TRUE]>>

Main == Low("_")
Sep == Low("__")

Upperfirst(n) == IF n = Main THEN n ELSE [n EXCEPT ![1].capital = TRUE]
Lowerfirst(n) == IF n = Main THEN n ELSE [n EXCEPT ![1].capital = FALSE]

(***************************************************************************)
(* An entity e is what the interface declares: an rpc, a signal or a       *)
(* property, with its service and its name.                                *)
(***************************************************************************)
Rpc(service, name, parameter, returns) ==
  [kind |-> "rpc", service |-> service, name |-> name, parameter |-> parameter, returns |-> returns]
Signal(service, name, parameter) ==
  [kind |-> "signal", service |-> service, name |-> name, parameter |-> parameter]
Property(service, name, access) ==
  [kind |-> "property", service |-> service, name |-> name, access |-> access]

Qualified(service, e) == IF e.service = Main THEN e.name ELSE service \o Sep \o e.name

\* Mutants: of RpcMethodName, without the service; of SignalMethodName, with Qt's
\* small letter.
RpcMethodName_Bare(e) == e.name
SignalMethodName_Small(e) == Qualified(Lowerfirst(e.service), e)

\* common.py: the client's and the transport's methods, the server's emitters.
RpcMethodName(e) == Qualified(e.service, e)
SignalMethodName(e) == Qualified(e.service, e)

\* common_client.py: the same for the calls and for the definitions.
PublicMethodName(e) == Qualified(e.service, e)
ProtectedMethodName(e) == Low("_") \o PublicMethodName(e)
PublicMethodNameQt(e) == Qualified(Lowerfirst(e.service), e)
RpcMethodNameQt(e) == Qualified(Lowerfirst(e.service), e)
SignalMethodNameQt(e) ==
  IF e.service = Main THEN Lowerfirst(e.name) ELSE Qualified(Lowerfirst(e.service), e)

\* Mutant of HeadName: the whole name is left as it is.
HeadName_AsItIs(e, qt) == PublicMethodName(e)

\* The head of a definition; with Qt types the whole name begins with a small letter.
HeadName(e, qt) == IF qt THEN Lowerfirst(PublicMethodName(e)) ELSE PublicMethodName(e)

\* wire.py: topics and the types and constants of the schema.
SignalKeyName(e) == Qualified(e.service, e)
ServiceIdName(service) == IF service = Main THEN Low("main") ELSE Lowerfirst(service)
Prefix(service) == IF service = Main THEN <<>> ELSE service
RpcIdEnum(service) == Prefix(service) \o Cap("RpcIds")
ParameterStruct(e) == Cap("CAPNPParameter") \o Prefix(e.service) \o Upperfirst(e.name)
ReturnStruct(e) == Cap("CAPNPReturn") \o Prefix(e.service) \o Upperfirst(e.name)
SignalStruct(e) == Cap("CAPNPSignalParameter") \o Prefix(e.service) \o Upperfirst(e.name)

\* The server's interface classes and their members.
RpcIfType(service) == IF service = Main THEN Cap("RpcIf") ELSE Upperfirst(service) \o Cap("RpcIf")
RpcIfMember(service) == Low("m_p") \o Upperfirst(service) \o Cap("RpcIf")
ReturnTypeServer(e) == Cap("Return") \o Upperfirst(e.name)

\* What a client returns for a table; a main service's has its underscore.
ReturnTypeClient(e) == Cap("Return") \o e.service \o Upperfirst(e.name)
GadgetName(e) == Cap("Return") \o e.service \o Upperfirst(e.name)

\* Callbacks of signals and of subscriptions.
Joined(e) == Upperfirst(Prefix(e.service) \o Upperfirst(e.name))
CbType(e) == Joined(e) \o Cap("Cb")
CbMember(e) == Low("m_") \o Lowerfirst(CbType(e))
RegistrationName(e) == Low("on") \o Joined(e)
SubscriptionCbType(e) == Joined(e) \o Cap("Subscr") \o Cap("Cb")

\* Qt properties: getter and member, setter, notification.
PropertyVarName(e) ==
  IF e.service = Main THEN Lowerfirst(e.name) ELSE Qualified(Lowerfirst(e.service), e)

SetterName(e) ==
  IF e.service = Main THEN Low("set") \o Upperfirst(e.name)
  ELSE Lowerfirst(e.service) \o Sep \o Low("set") \o Upperfirst(e.name)

NotificationName(e) ==
  IF e.service = Main THEN Lowerfirst(e.name) \o Cap("changed")
  ELSE Lowerfirst(e.service) \o Sep \o e.name \o Cap("changed")

=============================================================================
