------------------------------ MODULE RpcLinks ------------------------------
(***************************************************************************)
(* The ZeroMQ DEALER/ROUTER transport under the RPCs, as the code uses it  *)
(* (libzmq itself is external).  A client's DEALER owns an outbound pipe;  *)
(* each connection the ROUTER has seen is a link of its own, because the  *)
(* ROUTER gives every new connection a fresh routing id and keeps what it  *)
(* already received from a connection that is gone.  Replies to a routing *)
(* id nobody holds any more are dropped.                                   *)
(***************************************************************************)
EXTENDS Idl, Sequences, SequencesExt

CONSTANTS
  Client,      \* client objects, each used by one thread
  HighWater,   \* ZMQ_SNDHWM of the DEALER pipe
  MaxCalls,    \* bound on the calls of a behaviour
  MaxLinks     \* bound on the connections of a behaviour

ASSUME LinksAssumption ==
  /\ HighWater \in Nat \ {0}
  /\ MaxCalls \in Nat
  /\ MaxLinks \in Nat

CallId == 1..MaxCalls
Link == 1..MaxLinks
NoLink == 0
NoCall == 0

\* The frames of a request: the coordinates name the method, the number of the
\* call stands for the arguments.  (The wire carries no request id.)
Request == [id : CallId, method : Method]

VARIABLES
  serverUp,   \* a ROUTER is bound to the RPC address
  link,       \* the connection of each client's DEALER, or NoLink
  lastLink,   \* connections made so far
  out,        \* outbound pipe of each client's DEALER
  inq,        \* requests on their way to, or queued in, the ROUTER, per link
  inbox       \* replies on their way to, or queued in, each client's DEALER

linkVars == <<serverUp, link, lastLink, out, inq, inbox>>

LinksTypeOK ==
  /\ serverUp \in BOOLEAN
  /\ link \in [Client -> {NoLink} \cup Link]
  /\ lastLink \in {NoLink} \cup Link
  /\ out \in [Client -> Seq(Request)]
  /\ inq \in [Link -> Seq(Request)]
  /\ inbox \in [Client -> Seq(CallId)]

LinksInit ==
  /\ serverUp = TRUE
  /\ link = [c \in Client |-> NoLink]
  /\ lastLink = NoLink
  /\ out = [c \in Client |-> <<>>]
  /\ inq = [l \in Link |-> <<>>]
  /\ inbox = [c \in Client |-> <<>>]

\* connect: a DEALER with empty pipes, on a connection of its own.
Connect(c) ==
  /\ link[c] = NoLink
  /\ lastLink < MaxLinks
  /\ lastLink' = lastLink + 1
  /\ link' = [link EXCEPT ![c] = lastLink + 1]
  /\ UNCHANGED <<serverUp, out, inq, inbox>>

\* Mutant of Disconnect: closing connects again without a new connection.
Disconnect_Reconnects(c) ==
  /\ link[c] # NoLink
  /\ link' = [link EXCEPT ![c] = lastLink + 1]
  /\ out' = [out EXCEPT ![c] = <<>>]
  /\ inbox' = [inbox EXCEPT ![c] = <<>>]
  /\ UNCHANGED <<serverUp, lastLink, inq>>

\* close(linger=0): both pipes are dropped, and what TCP still carries to the
\* server may be cut off at any message.
Disconnect(c) ==
  /\ link[c] # NoLink
  /\ \E arrives \in Prefixes(inq[link[c]]) : inq' = [inq EXCEPT ![link[c]] = arrives]
  /\ link' = [link EXCEPT ![c] = NoLink]
  /\ out' = [out EXCEPT ![c] = <<>>]
  /\ inbox' = [inbox EXCEPT ![c] = <<>>]
  /\ UNCHANGED <<serverUp, lastLink>>

\* send: a full pipe blocks (or raises zmq.Again) before any frame is queued.
Send(c, r) ==
  /\ link[c] # NoLink
  /\ Len(out[c]) < HighWater
  /\ out' = [out EXCEPT ![c] = Append(@, r)]
  /\ UNCHANGED <<serverUp, link, lastLink, inq, inbox>>

\* The I/O thread moves the oldest request of a pipe onto the connection.
Deliver(c) ==
  /\ serverUp
  /\ link[c] # NoLink
  /\ out[c] # <<>>
  /\ out' = [out EXCEPT ![c] = Tail(@)]
  /\ inq' = [inq EXCEPT ![link[c]] = Append(@, Head(out[c]))]
  /\ UNCHANGED <<serverUp, link, lastLink, inbox>>

\* The connection of a client breaks and ZeroMQ reconnects on its own: pipes
\* survive, what was in flight either way is cut off, the routing id is fresh.
Break(c) ==
  /\ link[c] # NoLink
  /\ lastLink < MaxLinks
  /\ lastLink' = lastLink + 1
  /\ link' = [link EXCEPT ![c] = lastLink + 1]
  /\ \E arrives \in Prefixes(inq[link[c]]) : inq' = [inq EXCEPT ![link[c]] = arrives]
  /\ \E arrives \in Prefixes(inbox[c]) : inbox' = [inbox EXCEPT ![c] = arrives]
  /\ UNCHANGED <<serverUp, out>>

\* The ROUTER hands the oldest request of link l to the server, which answers
\* it n times; an answer reaches the client that holds the link, if any.
TakeAndReply(l, n) ==
  /\ inq' = [inq EXCEPT ![l] = Tail(@)]
  /\ inbox' = [c \in Client |->
       IF link[c] = l THEN inbox[c] \o [i \in 1..n |-> Head(inq[l]).id] ELSE inbox[c]]
  /\ UNCHANGED <<serverUp, link, lastLink, out>>

\* The ROUTER is closed with whatever it holds, and another one bound later.
Unbind ==
  /\ serverUp
  /\ serverUp' = FALSE
  /\ inq' = [l \in Link |-> <<>>]
  /\ UNCHANGED <<link, lastLink, out, inbox>>

Bind ==
  /\ ~serverUp
  /\ serverUp' = TRUE
  /\ UNCHANGED <<link, lastLink, out, inq, inbox>>

=============================================================================
