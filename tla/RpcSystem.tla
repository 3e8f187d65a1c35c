----------------------------- MODULE RpcSystem -----------------------------
(***************************************************************************)
(* Clients, connections and server together, and what the RPC layer is    *)
(* meant to guarantee although the wire carries no request ids.            *)
(***************************************************************************)
EXTENDS RpcServer

vars == <<linkVars, clientVars, serverVars>>

Init == LinksInit /\ ClientInit /\ ServerInit

ClientStep(c) ==
  /\ \/ PyOpen(c)
     \/ CppOpen(c)
     \/ \E m \in Method : PyCall(c, m)
     \/ \E m \in Method : CppCall(c, m)
     \/ PyReturn(c)
     \/ CppReturn(c)
     \/ PyTimeout(c)
     \/ Interrupt(c)
     \/ Misread(c)
     \/ PyClose(c)
     \/ CppClose(c)
     \/ LinkBreak(c)
     \/ DeliverRequest(c)
  /\ UNCHANGED serverVars

Next ==
  \/ \E c \in Client : ClientStep(c)
  \/ \E l \in Link : PyServe(l)
  \/ \E l \in Link : CppServe(l)
  \/ StopServer
  \/ StartServer

Spec == Init /\ [][Next]_vars

(***************************************************************************)
(* Fairness.  ZeroMQ's I/O thread moves what is queued; the ROUTER queues  *)
(* fairly over its connections and the serving loop keeps calling          *)
(* process_request / processNextRequest, so each link's oldest request is  *)
(* taken; a blocked client reads a reply that is there, and the Python     *)
(* client's poll ends; a stopped server is started again.  Nobody has to   *)
(* call, connect or close anything.                                        *)
(***************************************************************************)
Fairness ==
  /\ \A c \in Client : WF_vars(DeliverRequest(c) /\ UNCHANGED serverVars)
  /\ \A c \in Client : WF_vars(PyReturn(c) /\ UNCHANGED serverVars)
  /\ \A c \in Client : WF_vars(CppReturn(c) /\ UNCHANGED serverVars)
  /\ \A c \in Client : WF_vars(PyTimeout(c) /\ UNCHANGED serverVars)
  /\ \A l \in Link : WF_vars(PyServe(l)) /\ WF_vars(CppServe(l))
  /\ WF_vars(StartServer)

FairSpec == Spec /\ Fairness

-----------------------------------------------------------------------------
Ran == {executed[k].id : k \in DOMAIN executed}

\* Every variable has its type.
TypeOK == LinksTypeOK /\ ClientTypeOK /\ ServerTypeOK

\* A call that returned was given the answer to itself, never the late answer
\* to an earlier call of the same client (runtime.py, Client._call: "A late
\* reply must never become the next call's result").
ReplyMatchesCall ==
  \A i \in CallId : status[i] = "returned" => got[i] = i

\* No request runs twice: a reconnect, a timeout or a restart may lose a
\* request but neither side ever sends it again.
AtMostOnce ==
  \A j, k \in DOMAIN executed : executed[j].id = executed[k].id => j = k

\* The server runs the requests of one connection in the order of the calls.
LinkOrder ==
  \A j, k \in DOMAIN executed :
    j < k /\ executed[j].link = executed[k].link => executed[j].id < executed[k].id

\* On a connection that never breaks, a call that returned was preceded at the
\* server by every earlier call the client made on the socket, one-way calls
\* included (the interop test counts on it: notify(), then count() == 1).
EarlierCallsRan ==
  \A i, j \in CallId :
    j < i /\ via[j] = via[i] /\ status[i] = "returned" => j \in Ran

\* Every call ends, in either language, when nothing goes wrong.
EveryCallEnds == \A c \in Client : wait[c] # NoCall ~> wait[c] = NoCall

\* Every call of a Python client ends, whatever goes wrong.
PyCallsEnd == \A c \in Client \ CppClient : wait[c] # NoCall ~> wait[c] = NoCall

\* A one-way call of a C++ client whose connection holds is run some day, even
\* if the client is destroyed right after making it.
CppOneWayRuns ==
  \A i \in CallId : \A c \in CppClient :
    (status[i] = "sent" /\ via[i] = link[c]) ~> (i \in Ran)

-----------------------------------------------------------------------------
(***************************************************************************)
(* The refinement: what a caller sees of the system is RpcContract.        *)
(***************************************************************************)
RunOrder == [k \in DOMAIN executed |-> executed[k].id]

Contract == INSTANCE RpcContract
              WITH Call <- CallId, NoAnswer <- NoCall, ran <- RunOrder

\* The sockets, the connections and the server together keep the contract: a
\* call is run at most once and returns only its own answer, after it was run.
ImplementsContract == Contract!Spec

-----------------------------------------------------------------------------
(***************************************************************************)
(* The inductive invariant, in layers; each needs the ones before it.      *)
(***************************************************************************)
Ids(s) == {s[k].id : k \in DOMAIN s}
RanOn(l) == {executed[k].id : k \in {j \in DOMAIN executed : executed[j].link = l}}
Increasing(s) == \A j, k \in DOMAIN s : j < k => s[j].id < s[k].id
Before(S, T) == \A i \in S, j \in T : i < j

\* Connections have owners: no two clients share one, the unborn ones are
\* empty, and a client without one has empty pipes.
LinkInv ==
  /\ \A c \in Client : link[c] <= lastLink
  /\ \A c, d \in Client : c # d /\ link[c] = link[d] => link[c] = NoLink
  /\ \A c \in Client : link[c] = NoLink => out[c] = <<>> /\ inbox[c] = <<>>
  /\ \A l \in Link : l > lastLink => inq[l] = <<>>
  /\ \A k \in DOMAIN executed : executed[k].link <= lastLink

\* Every request is in one place only, ...
OnePlace ==
  /\ \A c, d \in Client : c # d => Ids(out[c]) \cap Ids(out[d]) = {}
  /\ \A l, k \in Link : l # k => Ids(inq[l]) \cap Ids(inq[k]) = {}
  /\ \A c \in Client, l \in Link : Ids(out[c]) \cap Ids(inq[l]) = {}
  /\ \A c \in Client : Ids(out[c]) \cap Ran = {}
  /\ \A l \in Link : Ids(inq[l]) \cap Ran = {}

\* ... and the places along a connection hold the calls in order.
InOrder ==
  /\ \A c \in Client : Increasing(out[c]) /\ Before(Ids(out[c]), {nextId})
  /\ \A l \in Link : Increasing(inq[l]) /\ Before(Ids(inq[l]), {nextId})
  /\ Before(Ran, {nextId})
  /\ \A c \in Client : link[c] # NoLink =>
       Before(Ids(inq[link[c]]) \cup RanOn(link[c]), Ids(out[c]))
  /\ \A l \in Link : Before(RanOn(l), Ids(inq[l]))

OrderInv == OnePlace /\ InOrder /\ AtMostOnce /\ LinkOrder

\* What will be answered, or was and is not read yet, is the call its client
\* is blocked in.
Pending(i, s) == \A k \in DOMAIN s : IsOneWay(s[k].method) \/ s[k].id = i

AnswerInv ==
  /\ \A c \in Client : Pending(wait[c], out[c])
  /\ \A c \in Client : link[c] # NoLink => Pending(wait[c], inq[link[c]])
  /\ \A c \in Client : inbox[c] # <<>> =>
       inbox[c] = <<wait[c]>> /\ wait[c] # NoCall /\ wait[c] \in Ran

\* The blocked calls are the waiting ones, the calls not made yet are "none".
CallInv ==
  /\ \A c \in Client : wait[c] # NoCall => status[wait[c]] = "waiting"
  /\ \A c, d \in Client : wait[c] = wait[d] => c = d \/ wait[c] = NoCall
  /\ \A i \in CallId : status[i] = "none" <=> i >= nextId

\* At every moment each request is in one place, in the order of the calls, and
\* whatever will still be answered is the call its client is blocked in.
RpcInv == LinkInv /\ OrderInv /\ AnswerInv /\ CallInv

=============================================================================
