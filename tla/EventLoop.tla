----------------------------- MODULE EventLoop -----------------------------
(***************************************************************************)
(* An application's event loop over the descriptors of ZeroMQ sockets: the *)
(* Qt examples' servers, with an epoll set, a ROUTER, an XPUB and a timer. *)
(* The descriptor of a socket is readable while ZeroMQ has told the socket *)
(* something that it did not take notice of, not while the socket holds    *)
(* messages.  A socket takes notice whenever it is asked for its events or *)
(* used, also when it is used for sending.                                 *)
(***************************************************************************)
EXTENDS Naturals, FiniteSets

CONSTANTS
  Socket,      \* the sockets of the loop
  Router,      \* the one requests arrive at
  Xpub,        \* the one subscriptions arrive at and signals are sent with
  Programs,    \* the programs in question: which handlers send signals in each,
               \* those of the "timer" or of a "request"
  MaxArrivals  \* bound on the messages that arrive at a socket

ASSUME EventLoopAssumption ==
  /\ Router \in Socket /\ Xpub \in Socket /\ Router # Xpub
  /\ Programs \subseteq SUBSET {"timer", "request"}
  /\ MaxArrivals \in Nat
  /\ \A s \in Socket : s \notin {"select", "dispatch", "timer"}

VARIABLES
  emitting,  \* the program: its handlers that send signals
  told,      \* messages of each socket it was told of and took no notice of
  ready,     \* messages each socket holds
  handled,   \* messages of each socket that were handled
  expired,   \* the timer's descriptor is readable
  events,    \* what epoll_wait returned and is still to be dispatched
  overtaken, \* a handler's send took notice of subscriptions the XPUB was told of
             \* and was not drained since (auxiliary)
  at         \* "select", "dispatch" or the socket that is being drained

vars == <<emitting, told, ready, handled, expired, events, overtaken, at>>

Init ==
  /\ emitting \in Programs
  /\ told = [s \in Socket |-> 0]
  /\ ready = [s \in Socket |-> 0]
  /\ handled = [s \in Socket |-> 0]
  /\ expired = FALSE
  /\ events = {}
  /\ overtaken = FALSE
  /\ at = "select"

Arrived(s) == told[s] + ready[s] + handled[s]

-----------------------------------------------------------------------------
(* The surroundings.                                                       *)

\* ZeroMQ's I/O thread brings a message.  A socket that still holds messages need
\* not be told of one more.
Arrive(s) ==
  /\ Arrived(s) < MaxArrivals
  /\ \/ told' = [told EXCEPT ![s] = @ + 1] /\ UNCHANGED ready
     \/ ready[s] > 0 /\ ready' = [ready EXCEPT ![s] = @ + 1] /\ UNCHANGED told
  /\ UNCHANGED <<emitting, handled, expired, events, overtaken, at>>

Expire ==
  /\ ~expired
  /\ expired' = TRUE
  /\ UNCHANGED <<emitting, told, ready, handled, events, overtaken, at>>

-----------------------------------------------------------------------------
(* The loop's thread.                                                      *)

Readable == {s \in Socket : told[s] > 0} \cup (IF expired THEN {"timer"} ELSE {})

\* epoll_wait returns what is readable and sleeps while nothing is.
Select ==
  /\ at = "select"
  /\ Readable # {}
  /\ events' = Readable
  /\ at' = "dispatch"
  /\ UNCHANGED <<emitting, told, ready, handled, expired, overtaken>>

\* What a handler's emission does to the XPUB: to send it may take notice of what it
\* was told, and then its descriptor is not readable any more.
NoEmission == [told |-> told, ready |-> ready, overtaken |-> overtaken]

Notice ==
  [told |-> [told EXCEPT ![Xpub] = 0],
   ready |-> [ready EXCEPT ![Xpub] = @ + told[Xpub]],
   overtaken |-> overtaken \/ told[Xpub] > 0]

Emission == {NoEmission, Notice}

Emissions(handler) == IF handler \in emitting THEN Emission ELSE {NoEmission}

\* The timer's callback reads the timer; it sends a signal if there is a change.
DispatchTimer ==
  /\ at = "dispatch"
  /\ "timer" \in events
  /\ events' = events \ {"timer"}
  /\ expired' = FALSE
  /\ \E after \in Emissions("timer") :
       told' = after.told /\ ready' = after.ready /\ overtaken' = after.overtaken
  /\ UNCHANGED <<emitting, handled, at>>

\* The callback of a socket's descriptor starts to drain the socket.
DispatchSocket(s) ==
  /\ at = "dispatch"
  /\ s \in events
  /\ events' = events \ {s}
  /\ at' = s
  /\ UNCHANGED <<emitting, told, ready, handled, expired, overtaken>>

\* Mutants of Handle: one message per wakeup; the events are not asked for before
\* the first message is received.
Handle_Once(s) ==
  /\ at = s
  /\ told[s] + ready[s] > 0
  /\ handled' = [handled EXCEPT ![s] = @ + 1]
  /\ told' = [told EXCEPT ![s] = 0]
  /\ ready' = [ready EXCEPT ![s] = @ + told[s] - 1]
  /\ at' = "dispatch"
  /\ UNCHANGED <<emitting, expired, events, overtaken>>

Handle_Unasked(s) ==
  /\ at = s
  /\ handled' = [handled EXCEPT ![s] = @ + 1]
  /\ told' = [told EXCEPT ![s] = 0]
  /\ ready' = [ready EXCEPT ![s] = @ + told[s] - 1]
  /\ UNCHANGED <<emitting, expired, events, overtaken, at>>

\* A round of the drain loop: asked for its events the socket takes notice of all
\* it was told; if it has a message one is handled.  A handler of a request may
\* send signals; so may a subscription's, but the loop asks again afterwards.
Handle(s) ==
  /\ at = s
  /\ told[s] + ready[s] > 0
  /\ handled' = [handled EXCEPT ![s] = @ + 1]
  /\ \E after \in IF s = Router THEN Emissions("request") ELSE {NoEmission} :
       /\ told' = [after.told EXCEPT ![s] = 0]
       /\ ready' = [after.ready EXCEPT ![s] = @ + after.told[s] - 1]
       /\ overtaken' = after.overtaken
  /\ UNCHANGED <<emitting, expired, events, at>>

\* The drain loop ends when the socket has no message.
Drained(s) ==
  /\ at = s
  /\ told[s] + ready[s] = 0
  /\ at' = "dispatch"
  /\ overtaken' = (s # Xpub /\ overtaken)
  /\ UNCHANGED <<emitting, told, ready, handled, expired, events>>

\* All events are dispatched, and Select is called again.
Again ==
  /\ at = "dispatch"
  /\ events = {}
  /\ at' = "select"
  /\ UNCHANGED <<emitting, told, ready, handled, expired, events, overtaken>>

Loop ==
  \/ Select
  \/ DispatchTimer
  \/ \E s \in Socket : DispatchSocket(s)
  \/ \E s \in Socket : Handle(s)
  \/ \E s \in Socket : Drained(s)
  \/ Again

Next ==
  \/ \E s \in Socket : Arrive(s)
  \/ Expire
  \/ Loop

Spec == Init /\ [][Next]_vars

\* The loop's thread goes on; nothing need arrive and no timer expire.
FairSpec == Spec /\ WF_vars(Loop)

-----------------------------------------------------------------------------
TypeOK ==
  /\ emitting \subseteq {"timer", "request"}
  /\ told \in [Socket -> Nat]
  /\ ready \in [Socket -> Nat]
  /\ handled \in [Socket -> Nat]
  /\ expired \in BOOLEAN
  /\ events \subseteq Socket \cup {"timer"}
  /\ overtaken \in BOOLEAN
  /\ at \in Socket \cup {"select", "dispatch"}

\* A socket that holds messages is being drained: the loop does not go to sleep,
\* or on to the next descriptor, on messages no descriptor will tell it of.
HeldIsDrained(s) == ready[s] > 0 => at = s

RequestsNotForgotten == HeldIsDrained(Router)

\* That is so of requests whatever the handlers send.  Of subscriptions it is so unless
\* a handler outside of the XPUB's own drain loop sent a signal after one had come,
\* which took the readiness of the descriptor away; a program whose handlers send
\* nothing is safe.
NothingForgotten ==
  /\ \A s \in Socket : HeldIsDrained(s) \/ (s = Xpub /\ overtaken)
  /\ overtaken => emitting # {}

\* Every message that arrives is handled.
AllHandled(s) == \A n \in 1..MaxArrivals : Arrived(s) >= n ~> handled[s] >= n

\* Requests are handled, whatever the handlers of requests and timers send.
RequestsHandled == AllHandled(Router)

\* A subscription is handled, that is, its callback publishes the initial value, unless
\* a handler's send came between its arrival and epoll_wait.  One that was overtaken
\* waits for the next one the descriptor is readable for: what has arrived when
\* epoll_wait reports the XPUB is handled, whatever was sent before.
SubscriptionsHandled ==
  \A n \in 1..MaxArrivals :
    /\ Arrived(Xpub) >= n ~> handled[Xpub] >= n \/ overtaken
    /\ Arrived(Xpub) >= n /\ Xpub \in events ~> handled[Xpub] >= n

=============================================================================
