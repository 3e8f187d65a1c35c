----------------------------- MODULE RpcServer -----------------------------
(***************************************************************************)
(* The two RPC servers: capnzero.runtime.Server.process_request and the    *)
(* generated C++ processNextRequest.  One step takes one request, runs its *)
(* handler and sends what the handler answers; it is one step because the *)
(* server's thread alone touches the ROUTER and nothing the clients do in *)
(* between can be told apart from doing it before or after.                *)
(***************************************************************************)
EXTENDS RpcClient

CONSTANT ServerLang   \* "python" or "cpp"

ASSUME ServerAssumption == ServerLang \in {"python", "cpp"}

VARIABLE executed   \* the handler runs so far: which call, taken from which link

serverVars == <<executed>>

ServerTypeOK == executed \in Seq([id : CallId, link : Link])

ServerInit == executed = <<>>

\* A handler (or the encoding of its result) that raises leaves the request
\* consumed and unanswered; the exception goes to the serving loop, which goes on.
Raises == IF "raise" \in Faults THEN {0} ELSE {}

\* Mutant of RunHandler: worker threads take any request of the connection.
RunHandler_Workers(l, n) ==
  \E k \in DOMAIN inq[l] :
    /\ executed' = Append(executed, [id |-> inq[l][k].id, link |-> l])
    /\ inq' = [inq EXCEPT ![l] = RemoveAt(@, k)]
    /\ inbox' = [c \in Client |->
         IF link[c] = l /\ ~IsOneWay(inq[l][k].method) THEN Append(inbox[c], inq[l][k].id) ELSE inbox[c]]
    /\ UNCHANGED <<serverUp, link, lastLink, out, clientVars>>

\* The handler of the oldest request of a connection runs, and answers n times.
RunHandler(l, n) ==
  /\ executed' = Append(executed, [id |-> Head(inq[l]).id, link |-> l])
  /\ TakeAndReply(l, n)
  /\ UNCHANGED clientVars

PyServe(l) ==
  /\ ServerLang = "python"
  /\ serverUp
  /\ inq[l] # <<>>
  /\ \E n \in PyReplies(Head(inq[l]).method) \cup Raises : RunHandler(l, n)

CppServe(l) ==
  /\ ServerLang = "cpp"
  /\ serverUp
  /\ inq[l] # <<>>
  /\ \E n \in CppReplies(Head(inq[l]).method) \cup Raises : RunHandler(l, n)

\* The server is closed or dies, and is started again on the same address.
StopServer ==
  /\ "stop" \in Faults
  /\ Unbind
  /\ UNCHANGED <<clientVars, serverVars>>

StartServer ==
  /\ Bind
  /\ UNCHANGED <<clientVars, serverVars>>

=============================================================================
