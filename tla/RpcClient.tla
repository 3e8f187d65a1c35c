----------------------------- MODULE RpcClient -----------------------------
(***************************************************************************)
(* The two RPC clients: capnzero.runtime.Client and the generated C++     *)
(* ClientRpcTransport.  A call sends its frames and, unless the method is  *)
(* one-way, blocks the client's thread until the first reply frame.        *)
(* The Python client gives up after timeout_ms and closes its socket; the  *)
(* C++ client waits for ever.  Argument errors and a full pipe raise       *)
(* before anything is sent, leave the state alone and are not steps here.  *)
(***************************************************************************)
EXTENDS RpcLinks

CONSTANTS
  CppClient,   \* the clients that are generated C++ code
  Faults       \* what may go wrong in a behaviour

FaultKind == {"stop", "break", "raise", "interrupt", "misread"}

ASSUME ClientAssumption ==
  /\ CppClient \subseteq Client
  /\ Faults \subseteq FaultKind

VARIABLES
  nextId,   \* number of the next call
  wait,     \* the call each client's thread is blocked in, or NoCall
  status,   \* how far each call has come
  via,      \* the link each call was made on
  got       \* the call whose reply each returned call was given

clientVars == <<nextId, wait, status, via, got>>

Status == {"none", "waiting", "sent", "returned", "raised"}

ClientTypeOK ==
  /\ nextId \in 1..(MaxCalls + 1)
  /\ wait \in [Client -> {NoCall} \cup CallId]
  /\ status \in [CallId -> Status]
  /\ via \in [CallId -> {NoLink} \cup Link]
  /\ got \in [CallId -> {NoCall} \cup CallId]

ClientInit ==
  /\ nextId = 1
  /\ wait = [c \in Client |-> NoCall]
  /\ status = [i \in CallId |-> "none"]
  /\ via = [i \in CallId |-> NoLink]
  /\ got = [i \in CallId |-> NoCall]

\* A client object is constructed and connects its DEALER.
PyOpen(c) ==
  /\ c \notin CppClient
  /\ Connect(c)
  /\ UNCHANGED clientVars

CppOpen(c) ==
  /\ c \in CppClient
  /\ Connect(c)
  /\ UNCHANGED clientVars

\* The frames of call nextId are sent; a value call then blocks its thread.
SendCall(c, m) ==
  /\ wait[c] = NoCall
  /\ nextId <= MaxCalls
  /\ Send(c, [id |-> nextId, method |-> m])
  /\ nextId' = nextId + 1
  /\ wait' = [wait EXCEPT ![c] = IF IsOneWay(m) THEN NoCall ELSE nextId]
  /\ status' = [status EXCEPT ![nextId] = IF IsOneWay(m) THEN "sent" ELSE "waiting"]
  /\ via' = [via EXCEPT ![nextId] = link[c]]
  /\ UNCHANGED got

PyCall(c, m) == c \notin CppClient /\ SendCall(c, m)
CppCall(c, m) == c \in CppClient /\ SendCall(c, m)

\* The first reply frame in the DEALER ends the call, whatever it answers.
TakeReply(c) ==
  /\ wait[c] # NoCall
  /\ inbox[c] # <<>>
  /\ got' = [got EXCEPT ![wait[c]] = Head(inbox[c])]
  /\ status' = [status EXCEPT ![wait[c]] = "returned"]
  /\ wait' = [wait EXCEPT ![c] = NoCall]
  /\ inbox' = [inbox EXCEPT ![c] = Tail(@)]
  /\ UNCHANGED <<nextId, via, serverUp, link, lastLink, out, inq>>

PyReturn(c) == c \notin CppClient /\ TakeReply(c)
CppReturn(c) == c \in CppClient /\ TakeReply(c)

\* The blocked call ends with an exception.
RaiseCall(c) ==
  /\ wait[c] # NoCall
  /\ status' = [status EXCEPT ![wait[c]] = "raised"]
  /\ wait' = [wait EXCEPT ![c] = NoCall]
  /\ UNCHANGED <<nextId, via, got>>

\* Mutants of PyTimeout: the socket stays open, the request is sent once more,
\* or the exception is swallowed.
PyTimeout_KeepsSocket(c) ==
  /\ c \notin CppClient
  /\ RaiseCall(c)
  /\ UNCHANGED linkVars

PyTimeout_Retries(c) ==
  /\ c \notin CppClient
  /\ wait[c] # NoCall
  /\ \E m \in {k \in Method : ~IsOneWay(k)} : Send(c, [id |-> wait[c], method |-> m])
  /\ UNCHANGED clientVars

PyTimeout_Swallowed(c) ==
  /\ c \notin CppClient
  /\ wait[c] # NoCall
  /\ Disconnect(c)
  /\ UNCHANGED clientVars

\* poll ran out of timeout_ms, perhaps with the reply on its way: the socket is
\* closed so that the late reply has nowhere to go.
PyTimeout(c) ==
  /\ c \notin CppClient
  /\ RaiseCall(c)
  /\ Disconnect(c)

\* An exception other than the timeout leaves poll or recv (KeyboardInterrupt,
\* a Python signal handler, EINTR in C++): nothing closes the socket.
Interrupt(c) ==
  /\ "interrupt" \in Faults
  /\ RaiseCall(c)
  /\ UNCHANGED linkVars

\* A reply is taken and then found to be more than one frame or no value of the
\* method's type (ValueError in _call and decode_result; in C++ the message reader
\* throws): the call ends with an exception, and its reply is gone.
Misread(c) ==
  /\ "misread" \in Faults
  /\ inbox[c] # <<>>
  /\ RaiseCall(c)
  /\ inbox' = [inbox EXCEPT ![c] = Tail(@)]
  /\ UNCHANGED <<serverUp, link, lastLink, out, inq>>

\* Client.close and "with"; nothing is blocked, one-way requests may be lost.
PyClose(c) ==
  /\ c \notin CppClient
  /\ wait[c] = NoCall
  /\ Disconnect(c)
  /\ UNCHANGED clientVars

\* Mutant of CppClose: the destructor drops what the pipe still holds.
CppClose_ZeroLinger(c) ==
  /\ c \in CppClient
  /\ wait[c] = NoCall
  /\ Disconnect(c)
  /\ UNCHANGED clientVars

\* The C++ destructor keeps ZeroMQ's default linger: the socket is gone when
\* its pipe is flushed.
CppClose(c) ==
  /\ c \in CppClient
  /\ wait[c] = NoCall
  /\ link[c] # NoLink
  /\ out[c] = <<>>
  /\ link' = [link EXCEPT ![c] = NoLink]
  /\ inbox' = [inbox EXCEPT ![c] = <<>>]
  /\ UNCHANGED <<serverUp, lastLink, out, inq, clientVars>>

\* A broken connection, by itself or because the server went away.
LinkBreak(c) ==
  /\ "break" \in Faults \/ ~serverUp
  /\ Break(c)
  /\ UNCHANGED clientVars

DeliverRequest(c) ==
  /\ Deliver(c)
  /\ UNCHANGED clientVars

=============================================================================
