------------------------------ MODULE Framing ------------------------------
(***************************************************************************)
(* How a server gets from frames to handlers.  A request is a multipart    *)
(* message: the route the ROUTER puts first, the coordinates of a method,  *)
(* and a payload if the sender's interface gives the method parameters.    *)
(* The Python server receives whole messages and checks them; the C++      *)
(* server receives frame after frame, as many as its own interface says.   *)
(* Both peers need not be generated from the same version of an interface. *)
(* A route is too short to be a Cap'n Proto message: where one is read as  *)
(* coordinates, or as a payload of a generated struct type, the reader     *)
(* throws.  The serving loop is taken to catch what leaves the server.     *)
(***************************************************************************)
EXTENDS Naturals, Sequences, FiniteSets

CONSTANTS
  Method,      \* the coordinates some version of the interface assigns
  Pairings,    \* the senders and servers in question
  MaxRequests  \* bound on the requests of a behaviour

\* A version of the interface: its methods, each with "payload" or "void" parameters.
Interface == UNION {[methods -> {"payload", "void"}] : methods \in SUBSET Method}

ASSUME FramingAssumption ==
  /\ Pairings \subseteq [lang : {"python", "cpp"}, sends : Interface, serves : Interface]
  /\ MaxRequests \in Nat

RequestId == 1..MaxRequests
Frame == [kind : {"route", "coord", "payload"}, request : RequestId, method : Method]

VARIABLES
  peers,    \* the server's language, the senders' interface and the server's
  asked,    \* the methods of the requests sent so far
  stream,   \* the frames the ROUTER holds, message after message
  ran       \* the handlers that ran, with what they were given

vars == <<peers, asked, stream, ran>>

\* A handler's run: the method, and the requests its payload and route are of.
Nobody == 0
Run == [method : Method, payload : {Nobody} \cup RequestId, route : {Nobody} \cup RequestId]

Sends == peers.sends
Serves == peers.serves
SentMethod == DOMAIN Sends
ServedMethod == DOMAIN Serves

Init ==
  /\ peers \in Pairings
  /\ asked = <<>>
  /\ stream = <<>>
  /\ ran = <<>>

\* The frames of a request, as the sender's interface has them.
Frames(i, m) ==
  LET f(kind) == [kind |-> kind, request |-> i, method |-> m]
  IN IF Sends[m] = "payload" THEN <<f("route"), f("coord"), f("payload")>>
                             ELSE <<f("route"), f("coord")>>

\* A request arrives; a multipart message arrives as a whole.
SendRequest(m) ==
  /\ Len(asked) < MaxRequests
  /\ asked' = Append(asked, m)
  /\ stream' = stream \o Frames(Len(asked) + 1, m)
  /\ UNCHANGED <<peers, ran>>

Drop(n) == stream' = SubSeq(stream, n + 1, Len(stream))

-----------------------------------------------------------------------------
(* The Python server.                                                      *)

\* recv_multipart: the frames up to the next message.
MessageLength == IF Len(stream) >= 3 /\ stream[3].kind = "payload" THEN 3 ELSE 2

\* Mutants of PyProcess: the number of frames is not checked; frames are received
\* one by one, as many as this server's interface says.
PyProcess_NoCount ==
  /\ peers.lang = "python"
  /\ stream # <<>>
  /\ LET m == stream[2].method
     IN ran' = IF m \notin ServedMethod THEN ran
               ELSE Append(ran, [method |-> m, route |-> stream[1].request,
                                 payload |-> IF MessageLength = 3 THEN stream[3].request ELSE Nobody])
  /\ Drop(MessageLength)
  /\ UNCHANGED <<peers, asked>>

PyProcess_FrameByFrame ==
  /\ peers.lang = "python"
  /\ Len(stream) >= 3
  /\ LET m == stream[2].method
     IN IF m \notin ServedMethod THEN Drop(2) ELSE Drop(IF Serves[m] = "void" THEN 2 ELSE 3)
  /\ UNCHANGED <<peers, asked, ran>>

\* process_request: the message is received as a whole; unknown coordinates and
\* a wrong number of frames raise, and the message is gone.
PyProcess ==
  /\ peers.lang = "python"
  /\ stream # <<>>
  /\ LET m == stream[2].method
         expected == IF Serves[m] = "void" THEN 2 ELSE 3
     IN ran' = IF m \notin ServedMethod \/ MessageLength # expected THEN ran
               ELSE Append(ran, [method |-> m, route |-> stream[1].request,
                                 payload |-> IF expected = 3 THEN stream[3].request ELSE Nobody])
  /\ Drop(MessageLength)
  /\ UNCHANGED <<peers, asked>>

-----------------------------------------------------------------------------
(* The C++ server, processNextRequest.  It blocks where a frame is missing. *)

\* What a frame read as coordinates says: a payload can read as anything.
Coordinates(frame) ==
  CASE frame.kind = "coord"   -> {frame.method}
    [] frame.kind = "payload" -> Method
    [] frame.kind = "route"   -> {}

Owner(frame, kind) == IF frame.kind = kind THEN frame.request ELSE Nobody

\* A route that is read as coordinates.
CppThrows ==
  /\ stream[2].kind = "route"
  /\ Drop(2)
  /\ UNCHANGED ran

\* Mutant of CppUnknown: a payload is received.
CppUnknown_ReadsPayload(m) ==
  /\ m \notin ServedMethod
  /\ Drop(3)
  /\ UNCHANGED ran

\* Coordinates that the switch does not know run nothing.
CppUnknown(m) ==
  /\ m \notin ServedMethod
  /\ Drop(2)
  /\ UNCHANGED ran

CppVoid(m) ==
  /\ m \in ServedMethod /\ Serves[m] = "void"
  /\ Drop(2)
  /\ ran' = Append(ran, [method |-> m, payload |-> Nobody, route |-> Owner(stream[1], "route")])

\* The payload frame is received if this server's interface has parameters; the
\* handler is not reached if it is a route.
CppPayload(m) ==
  /\ m \in ServedMethod /\ Serves[m] = "payload"
  /\ Len(stream) >= 3
  /\ Drop(3)
  /\ ran' = IF stream[3].kind = "route" THEN ran
            ELSE Append(ran, [method |-> m, payload |-> Owner(stream[3], "payload"),
                              route |-> Owner(stream[1], "route")])

CppProcess ==
  /\ peers.lang = "cpp"
  /\ Len(stream) >= 2
  /\ \/ CppThrows
     \/ \E m \in Coordinates(stream[2]) : CppUnknown(m) \/ CppVoid(m) \/ CppPayload(m)
  /\ UNCHANGED <<peers, asked>>

Next ==
  \/ \E m \in SentMethod : SendRequest(m)
  \/ PyProcess
  \/ CppProcess

Spec == Init /\ [][Next]_vars

-----------------------------------------------------------------------------
TypeOK ==
  /\ peers \in Pairings
  /\ asked \in Seq(SentMethod) /\ Len(asked) <= MaxRequests
  /\ stream \in Seq(Frame)
  /\ ran \in Seq(Run) /\ \A k \in DOMAIN ran : ran[k].method \in ServedMethod

\* What the properties take for granted.  A Python server gets along with any sender.
\* A C++ server has to know every method with parameters, and to agree with the
\* senders on what has some; otherwise it loses its step.
Compatible ==
  \A m \in SentMethod : IF m \in ServedMethod THEN Serves[m] = Sends[m] ELSE Sends[m] = "void"

GetAlong == peers.lang = "cpp" => Compatible

\* Whoever runs was asked for: the handler of the method that was called, with
\* the payload of that call, and its answer goes to the caller.  A payload or a
\* route of another request, or coordinates made of another frame, never reach
\* a handler.
HandlersMatch ==
  GetAlong => \A k \in DOMAIN ran :
    /\ ran[k].route # Nobody
    /\ ran[k].method = asked[ran[k].route]
    /\ ran[k].payload = IF Serves[ran[k].method] = "payload" THEN ran[k].route ELSE Nobody

\* Requests run in their order and none is skipped: of those that are not queued
\* any more, each whose method has the same parameters for both peers has run.
NextRequest == IF stream = <<>> THEN Len(asked) + 1 ELSE stream[1].request

NothingSkipped ==
  GetAlong =>
  /\ \A j, k \in DOMAIN ran : j < k => ran[j].route < ran[k].route
  /\ \A i \in 1..(NextRequest - 1) :
       asked[i] \in ServedMethod /\ Serves[asked[i]] = Sends[asked[i]] => \E k \in DOMAIN ran : ran[k].route = i

-----------------------------------------------------------------------------
(***************************************************************************)
(* The inductive invariant: the stream is whole messages.                  *)
(***************************************************************************)
LastOfMessage(f) == f.kind = "payload" \/ (f.kind = "coord" /\ Sends[f.method] = "void")

\* What follows frame f of a message.
After(f, g) ==
  IF LastOfMessage(f) THEN g.kind = "route" /\ g.request = f.request + 1
  ELSE /\ g.request = f.request
       /\ g.kind = IF f.kind = "route" THEN "coord" ELSE "payload"

\* The server is at the beginning of a message, and the last message is whole.
Aligned ==
  stream # <<>> =>
    /\ stream[1].kind = "route"
    /\ LastOfMessage(stream[Len(stream)]) /\ stream[Len(stream)].request = Len(asked)

FramesInOrder ==
  \A k \in DOMAIN stream :
    /\ stream[k].request \in DOMAIN asked
    /\ stream[k].method = asked[stream[k].request]
    /\ stream[k].kind = "payload" => Sends[stream[k].method] = "payload"
    /\ k < Len(stream) => After(stream[k], stream[k + 1])

RanBefore == \A k \in DOMAIN ran : ran[k].route \in DOMAIN asked /\ ran[k].route < NextRequest

FramingInv ==
  /\ TypeOK
  /\ GetAlong => Aligned /\ FramesInOrder /\ RanBefore

=============================================================================
