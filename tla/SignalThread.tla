---------------------------- MODULE SignalThread ----------------------------
(***************************************************************************)
(* The generated C++ ClientSignalsThreaded: an application thread that     *)
(* registers callbacks and destroys the object, and a receiver thread that *)
(* owns the SUB socket, polls it beside a PAIR socket and runs callbacks.  *)
(* The PAIR carries topics to subscribe to, and a farewell message that    *)
(* has to get the receiver out of poll.  The callback members are plain    *)
(* std::functions shared by both threads.  The topic of a signal may be    *)
(* the beginning of another one's: then a subscription to the first lets   *)
(* both through, and the receiver looks for callbacks that nobody set, or  *)
(* that the application is just setting.                                   *)
(***************************************************************************)
EXTENDS Naturals, Sequences

CONSTANTS
  Topic,       \* the signals of the protocol
  Matches,     \* the topics a subscription to each topic lets through
  PairWater,   \* ZMQ_SNDHWM plus ZMQ_RCVHWM of the inproc PAIR
  SubWater     \* signals the network and the SUB pipe hold before they drop

ASSUME ThreadAssumption ==
  /\ Matches \in [Topic -> SUBSET Topic] /\ \A t \in Topic : t \in Matches[t]
  /\ PairWater \in Nat \ {0} /\ SubWater \in Nat
  /\ "Gonna Quit" \notin Topic

Farewell == "Gonna Quit"

VARIABLES
  appPc,      \* where the application thread is
  reg,        \* the topic the application thread is registering
  cb,         \* the topics whose callback member is set
  terminate,  \* m_terminateRequest
  pair,       \* what the helper PAIR holds for the receiver
  peer,       \* the receiver's end of the PAIR: "none", "open", "closed", "gone"
  recvPc,     \* where the receiver thread is
  ready,      \* what poll reported: "signal", "pair"
  current,    \* the topic of the signal being dispatched
  subs,       \* the subscriptions set on the SUB socket
  incoming    \* signals on their way to, or queued in, the SUB socket

appVars == <<appPc, reg, cb, terminate>>
recvVars == <<recvPc, ready, current, subs>>
vars == <<appVars, recvVars, pair, peer, incoming>>

AppPc == {"idle", "assign", "sendTopic", "sendQuit", "join", "destroyed", "crashed"}
RecvPc == {"off", "starting", "loop", "poll", "events", "dispatch", "helper", "exited", "crashed"}

\* The constructor has bound the PAIR.  That of a Client, which is derived, has called
\* StartThread as well; a ClientSignalsThreaded of one's own has no thread yet.
Init ==
  /\ appPc = "idle" /\ reg \in Topic /\ cb = {} /\ terminate = FALSE
  /\ recvPc \in {"off", "starting"} /\ ready = {} /\ current \in Topic /\ subs = {}
  /\ pair = <<>> /\ peer = "none" /\ incoming = <<>>

-----------------------------------------------------------------------------
(* The application thread.                                                 *)

\* StartThread makes the thread if there is none.
StartThread ==
  /\ appPc = "idle"
  /\ recvPc = "off"
  /\ recvPc' = "starting"
  /\ UNCHANGED <<appVars, ready, current, subs, pair, peer, incoming>>

\* Mutant of BeginOn: the topic goes to the receiver before the assignment.
BeginOn_SubscribesFirst(t) ==
  /\ appPc = "idle"
  /\ t \notin cb
  /\ peer = "open" /\ Len(pair) < PairWater
  /\ pair' = Append(pair, t)
  /\ reg' = t
  /\ appPc' = "assign"
  /\ UNCHANGED <<cb, terminate, recvVars, peer, incoming>>

\* onX(cb): a member that is set stays set ("set it only once"); otherwise the
\* std::function is assigned, which takes a while, ...
BeginOn(t) ==
  /\ appPc = "idle"
  /\ t \notin cb
  /\ reg' = t
  /\ appPc' = "assign"
  /\ UNCHANGED <<cb, terminate, recvVars, pair, peer, incoming>>

Assign ==
  /\ appPc = "assign"
  /\ cb' = cb \cup {reg}
  /\ appPc' = "sendTopic"
  /\ UNCHANGED <<reg, terminate, recvVars, pair, peer, incoming>>

\* A PAIR with no peer, or a full one, blocks its sender.
CanSend == peer \in {"open", "closed"} /\ Len(pair) < PairWater

\* ... and the topic is sent to the receiver.
SendTopic ==
  /\ appPc = "sendTopic"
  /\ CanSend
  /\ pair' = Append(pair, reg)
  /\ appPc' = "idle"
  /\ UNCHANGED <<reg, cb, terminate, recvVars, peer, incoming>>

\* The destructor: the flag, the farewell, the join.
StoreTerminate ==
  /\ appPc = "idle"
  /\ terminate' = TRUE
  /\ appPc' = "sendQuit"
  /\ UNCHANGED <<reg, cb, recvVars, pair, peer, incoming>>

\* Mutant of SendQuit: the flag is all the receiver is told.
SendQuit_Skipped ==
  /\ appPc = "sendQuit"
  /\ appPc' = "join"
  /\ UNCHANGED <<reg, cb, terminate, recvVars, pair, peer, incoming>>

SendQuit ==
  /\ appPc = "sendQuit"
  /\ CanSend
  /\ pair' = Append(pair, Farewell)
  /\ appPc' = "join"
  /\ UNCHANGED <<reg, cb, terminate, recvVars, peer, incoming>>

\* Mutant of Join: the thread is detached.
Join_Detaches ==
  /\ appPc = "join"
  /\ appPc' = "destroyed"
  /\ UNCHANGED <<reg, cb, terminate, recvVars, pair, peer, incoming>>

\* if(m_pThread) m_pThread->join()
Join ==
  /\ appPc = "join"
  /\ recvPc \in {"off", "exited"}
  /\ appPc' = "destroyed"
  /\ UNCHANGED <<reg, cb, terminate, recvVars, pair, peer, incoming>>

-----------------------------------------------------------------------------
(* The receiver thread, signalReceiverThreadFn.                            *)

\* Both sockets are made and connected.
ConnectSockets ==
  /\ recvPc = "starting"
  /\ peer' = "open"
  /\ recvPc' = "loop"
  /\ UNCHANGED <<appVars, ready, current, subs, pair, incoming>>

\* while(!m_terminateRequest.load()); on the way out the sockets are closed.
TestTerminate ==
  /\ recvPc = "loop"
  /\ recvPc' = IF terminate THEN "exited" ELSE "poll"
  /\ peer' = IF terminate THEN "closed" ELSE peer
  /\ UNCHANGED <<appVars, ready, current, subs, pair, incoming>>

\* Mutants of Poll: the PAIR is not polled; errors are reported as well.
Poll_SubOnly ==
  /\ recvPc = "poll"
  /\ incoming # <<>>
  /\ ready' = {"signal"}
  /\ recvPc' = "events"
  /\ UNCHANGED <<appVars, current, subs, pair, peer, incoming>>

Poll_WithErrors ==
  /\ recvPc = "poll"
  /\ incoming # <<>> \/ pair # <<>> \/ peer = "open"
  /\ ready' = {e \in {"signal", "pair", "error"} :
                 CASE e = "signal" -> incoming # <<>>
                   [] e = "pair"   -> pair # <<>>
                   [] e = "error"  -> TRUE}
  /\ recvPc' = "events"
  /\ UNCHANGED <<appVars, current, subs, pair, peer, incoming>>

\* poll without a timeout returns what is readable, never nothing.
Poll ==
  /\ recvPc = "poll"
  /\ incoming # <<>> \/ pair # <<>>
  /\ ready' = {e \in {"signal", "pair"} :
                 IF e = "signal" THEN incoming # <<>> ELSE pair # <<>>}
  /\ recvPc' = "events"
  /\ UNCHANGED <<appVars, current, subs, pair, peer, incoming>>

\* handleIncomingSignal: the topic is received and compared, ...
ReceiveSignal ==
  /\ recvPc = "events"
  /\ "signal" \in ready
  /\ current' = Head(incoming)
  /\ incoming' = Tail(incoming)
  /\ recvPc' = "dispatch"
  /\ UNCHANGED <<appVars, ready, subs, pair, peer>>

\* The receiver reads the callback member that the application is assigning.
Racing == appPc = "assign" /\ recvPc = "dispatch" /\ current = reg

\* ... its callback member read and, if set, called.  If it is just being assigned it
\* may look as it was or as it will be.
Dispatch ==
  /\ recvPc = "dispatch"
  /\ ready' = ready \ {"signal"}
  /\ recvPc' = "helper"
  /\ UNCHANGED <<appVars, current, subs, pair, peer, incoming>>

\* It may also look half-assigned, and the process ends.
CallHalfAssigned ==
  /\ Racing
  /\ recvPc' = "crashed" /\ appPc' = "crashed"
  /\ UNCHANGED <<reg, cb, terminate, ready, current, subs, pair, peer, incoming>>

NoSignal ==
  /\ recvPc = "events"
  /\ "signal" \notin ready
  /\ recvPc' = "helper"
  /\ UNCHANGED <<appVars, ready, current, subs, pair, peer, incoming>>

\* handleSubscriptionRequest: whatever the PAIR carries is subscribed to.
Subscribe ==
  /\ recvPc = "helper"
  /\ "pair" \in ready
  /\ subs' = subs \cup {Head(pair)}
  /\ pair' = Tail(pair)
  /\ ready' = {}
  /\ recvPc' = "loop"
  /\ UNCHANGED <<appVars, current, peer, incoming>>

NoRequest ==
  /\ recvPc = "helper"
  /\ "pair" \notin ready
  /\ recvPc' = "loop"
  /\ UNCHANGED <<appVars, ready, current, subs, pair, peer, incoming>>

-----------------------------------------------------------------------------
(* ZeroMQ and the server (external).                                       *)

\* The reaper takes a closed PAIR down: the application's end has no peer.
Reap ==
  /\ peer = "closed"
  /\ peer' = "gone"
  /\ UNCHANGED <<appVars, recvVars, pair, incoming>>

\* The server publishes; a subscription lets through every topic it prefixes.
Publish(t) ==
  /\ recvPc \notin {"exited", "crashed"}
  /\ \E s \in subs \cap Topic : t \in Matches[s]
  /\ Len(incoming) < SubWater
  /\ incoming' = Append(incoming, t)
  /\ UNCHANGED <<appVars, recvVars, pair, peer>>

-----------------------------------------------------------------------------
App == \/ StartThread \/ Assign \/ SendTopic \/ SendQuit \/ Join \/ StoreTerminate
       \/ \E t \in Topic : BeginOn(t)

Receiver == \/ ConnectSockets \/ TestTerminate \/ Poll \/ ReceiveSignal \/ Dispatch
            \/ CallHalfAssigned \/ NoSignal \/ Subscribe \/ NoRequest

Next == App \/ Receiver \/ Reap \/ \E t \in Topic : Publish(t)

Spec == Init /\ [][Next]_vars

(***************************************************************************)
(* Fairness: both threads are scheduled and take their own next step; the  *)
(* application is free not to start the thread, not to register and not    *)
(* to destroy anything.  The reaper runs; nothing has to be published.     *)
(***************************************************************************)
Fairness ==
  /\ WF_vars(Assign \/ SendTopic \/ SendQuit \/ Join)
  /\ WF_vars(Receiver)
  /\ WF_vars(Reap)

FairSpec == Spec /\ Fairness

-----------------------------------------------------------------------------
TypeOK ==
  /\ appPc \in AppPc /\ reg \in Topic /\ cb \in SUBSET Topic /\ terminate \in BOOLEAN
  /\ recvPc \in RecvPc /\ ready \in SUBSET {"signal", "pair"} /\ current \in Topic
  /\ subs \in SUBSET (Topic \cup {Farewell})
  /\ pair \in Seq(Topic \cup {Farewell})
  /\ peer \in {"none", "open", "closed", "gone"}
  /\ incoming \in Seq(Topic)

\* The topic of t begins with a topic that was registered before it.
BehindPrefix(t) == \E s \in cb \ {t} : t \in Matches[s]

\* The receiver reads a callback member while the application assigns it, and may crash
\* on it, only for a topic that begins with another one that was registered before
\* (m_xCb is a std::function with no lock; the order "assign, then have it subscribed"
\* keeps the threads apart for all other topics).
RacesNeedPrefixes == Racing \/ recvPc = "crashed" => BehindPrefix(reg)

\* Only a signal whose topic begins with another one that was registered arrives without
\* its callback and is dropped by the "if(m_xCb)" of the dispatcher.
DispatchFindsCallback == recvPc = "dispatch" => current \in cb \/ BehindPrefix(current)

\* Once the destructor returned, the receiver is out of its loop: no callback
\* runs on members that are gone.
NothingAfterDestructor == appPc = "destroyed" => recvPc \in {"off", "exited"}

\* A registered topic is subscribed to if there is a thread, unless the object is being
\* destroyed or a race ended the process.
RegistrationTakesEffect ==
  \A t \in Topic :
    t \in cb /\ recvPc # "off" ~> t \in subs \/ terminate \/ recvPc = "crashed"

\* A termination request gets the receiver out of poll and out of its loop.
ReceiverStops == terminate /\ recvPc # "off" ~> recvPc = "exited"

\* The destructor returns: its farewell quits the receiver loop and the join
\* ends (the comment on the send: "Abuse this socket to quit signal thread loop").
DestructorReturns == terminate /\ recvPc # "off" ~> appPc = "destroyed"

-----------------------------------------------------------------------------
(***************************************************************************)
(* The invariant behind them: a topic gets to the receiver only after its  *)
(* callback is set, and only what begins with one of these comes back.     *)
(***************************************************************************)
Covered(t) == \E s \in cb : t \in Matches[s]

KnownTopics ==
  /\ \A k \in DOMAIN pair : pair[k] \in cb \cup {Farewell}
  /\ subs \subseteq cb \cup {Farewell}
  /\ \A k \in DOMAIN incoming : Covered(incoming[k])
  /\ recvPc \in {"dispatch", "crashed"} => Covered(current)

Registering ==
  /\ appPc = "assign" => reg \notin cb
  /\ recvPc = "crashed" => appPc = "crashed" /\ reg \notin cb /\ current = reg
  /\ appPc = "sendTopic" => reg \in cb

\* What poll reported is still there when it is received.
ReadyIsReadable ==
  /\ recvPc = "events" /\ "signal" \in ready => incoming # <<>>
  /\ recvPc \in {"events", "dispatch", "helper"} /\ "pair" \in ready => pair # <<>>

CallbackInv == KnownTopics /\ Registering /\ ReadyIsReadable

=============================================================================
