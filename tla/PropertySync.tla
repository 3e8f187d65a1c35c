---------------------------- MODULE PropertySync ----------------------------
(***************************************************************************)
(* Properties: the server owns a value per property and publishes it with *)
(* the property's xChanged signal on every change, and once more when a    *)
(* subscription arrives; clients keep the last value they were sent.  The  *)
(* generated Qt client subscribes to every signal when it is made, the     *)
(* Python and the C++ client to those the application registers for.       *)
(***************************************************************************)
EXTENDS PubSub

CONSTANTS
  QtClient,    \* the subscribers that are generated QClients
  Announced    \* the properties with a subscription callback at the server

\* What a client has of a property it was never sent.
NoValue == 0

ASSUME SyncAssumption ==
  /\ QtClient \subseteq Subscriber
  /\ Announced \subseteq Topic

VARIABLES
  value,   \* the server's properties
  cache    \* what each client was last sent of each property

syncVars == <<value, cache>>
vars == <<pubSubVars, syncVars>>

Init ==
  /\ PubSubInit
  /\ value = [t \in Topic |-> 1]
  /\ cache = [c \in Subscriber |-> [t \in Topic |-> NoValue]]

-----------------------------------------------------------------------------
(* The server's thread.                                                    *)

\* The generated emitter of a property's xChanged signal.
EmitChanged(t, v) == Publish(t, v)

\* A setter (or the server itself) gives a property another value and emits the
\* change; a setter that is called with the present value does nothing.
SetValue(t) ==
  /\ serverUp
  /\ value[t] < MaxChanges
  /\ value' = [value EXCEPT ![t] = @ + 1]
  /\ EmitChanged(t, value[t] + 1)
  /\ UNCHANGED <<serverUp, wanted, asked, filter, pending, breaks, cache>>

\* Mutants of HandleSubscription: the callback publishes what it was made with,
\* before the property had a value; the message is dropped, as if it were an unsubscription.
HandleSubscription_Captured ==
  /\ serverUp
  /\ pending # <<>>
  /\ pending' = Tail(pending)
  /\ IF Head(pending) \in Announced
     THEN EmitChanged(Head(pending), NoValue)
     ELSE UNCHANGED <<pipe, dropped>>
  /\ UNCHANGED <<serverUp, wanted, asked, filter, breaks, syncVars>>

HandleSubscription_Ignored ==
  /\ serverUp
  /\ pending # <<>>
  /\ pending' = Tail(pending)
  /\ UNCHANGED <<serverUp, wanted, asked, filter, pipe, dropped, breaks, syncVars>>

\* process_subscription, or one round of handleAllSubscriptions: the callback of
\* the topic, if there is one, publishes the present value to every subscriber.
HandleSubscription ==
  /\ serverUp
  /\ pending # <<>>
  /\ pending' = Tail(pending)
  /\ IF Head(pending) \in Announced
     THEN EmitChanged(Head(pending), value[Head(pending)])
     ELSE UNCHANGED <<pipe, dropped>>
  /\ UNCHANGED <<serverUp, wanted, asked, filter, breaks, syncVars>>

\* The server stops; its successor starts with values of its own.
StopServer ==
  /\ Unbind
  /\ \A t \in Topic : value[t] < MaxChanges
  /\ value' = [t \in Topic |-> value[t] + 1]
  /\ UNCHANGED cache

StartServer == Bind /\ UNCHANGED syncVars

-----------------------------------------------------------------------------
(* The clients.                                                            *)

\* A QClient is made: its constructor subscribes to every signal.
QtOpen(c) ==
  /\ c \in QtClient
  /\ wanted[c] = {}
  /\ Subscribe(c, Signals)
  /\ UNCHANGED syncVars

\* on_x: a topic that has a callback already is not subscribed to again.
On(c, t) ==
  /\ c \notin QtClient
  /\ t \notin wanted[c]
  /\ Subscribe(c, <<t>>)
  /\ UNCHANGED syncVars

\* Mutant of Stored: topics are matched by prefix, as ZeroMQ does.
Stored_ByPrefix(c, s) ==
  [t \in Topic |-> IF t \in wanted[c] /\ s.topic \in Matches[t] THEN s.val ELSE cache[c][t]]

\* What a client has after a signal: the callback of exactly its topic, if one is
\* set, is called; that of a QClient stores the value.
Stored(c, s) == [t \in Topic |-> IF t \in wanted[c] /\ s.topic = t THEN s.val ELSE cache[c][t]]

\* poll_signal, handleIncomingSignal: the oldest signal is received and handled.
HandleSignal(c) ==
  /\ pipe[c] # <<>>
  /\ pipe' = [pipe EXCEPT ![c] = Tail(@)]
  /\ cache' = [cache EXCEPT ![c] = Stored(c, Head(pipe[c]))]
  /\ UNCHANGED <<serverUp, wanted, asked, filter, pending, dropped, breaks, value>>

-----------------------------------------------------------------------------
(* ZeroMQ (external).                                                      *)
SubscriptionArrives(c) == ArriveSubscription(c) /\ UNCHANGED syncVars
ConnectionBreaks(c) == Reconnect(c) /\ UNCHANGED syncVars

Next ==
  \/ \E t \in Topic : SetValue(t)
  \/ HandleSubscription
  \/ StopServer
  \/ StartServer
  \/ \E c \in Subscriber : QtOpen(c)
  \/ \E c \in Subscriber, t \in Topic : On(c, t)
  \/ \E c \in Subscriber : HandleSignal(c)
  \/ \E c \in Subscriber : SubscriptionArrives(c)
  \/ \E c \in Subscriber : ConnectionBreaks(c)

Spec == Init /\ [][Next]_vars

(***************************************************************************)
(* Fairness: the serving loop goes on receiving subscriptions, clients go  *)
(* on polling, ZeroMQ delivers, a stopped server is started again.  Nobody *)
(* has to change a property or to subscribe.                               *)
(***************************************************************************)
Fairness ==
  /\ WF_vars(HandleSubscription)
  /\ WF_vars(StartServer)
  /\ \A c \in Subscriber : WF_vars(HandleSignal(c)) /\ WF_vars(SubscriptionArrives(c))

FairSpec == Spec /\ Fairness

-----------------------------------------------------------------------------
TypeOK ==
  /\ PubSubTypeOK
  /\ value \in [Topic -> Value]
  /\ cache \in [Subscriber -> [Topic -> Value \cup {NoValue}]]

\* The value of a property a client has when it handled all that is in its pipe.
WillHave(c, t, v) ==
  \/ \E k \in DOMAIN pipe[c] :
       /\ pipe[c][k] = [topic |-> t, val |-> v]
       /\ \A j \in DOMAIN pipe[c] : j > k => pipe[c][j].topic # t
  \/ cache[c][t] = v /\ \A j \in DOMAIN pipe[c] : pipe[c][j].topic # t

\* A client whose subscription to an announced property got through has the
\* server's value or will have, unless the server has its subscription still to
\* answer or the pipe was full when the value was sent (python.md: "Publish
\* initial state once the subscription has actually arrived").
UpToDate ==
  \A c \in Subscriber : \A t \in filter[c] \cap Announced :
    \/ WillHave(c, t, value[t])
    \/ \E k \in DOMAIN pending : pending[k] = t
    \/ t \in dropped[c]

\* What the callers of both sides see is PropertyRegister: a client is never ahead
\* of the server and never sent back to a value older than the one it has, although
\* changes and initial states are published by different code and restarts, broken
\* connections and full pipes lose some of them.
Register == INSTANCE PropertyRegister
              WITH Client <- Subscriber, Property <- Topic, current <- value, known <- cache

ImplementsRegister == Register!Spec

\* Why it does: along a connection the values of a property rise from the one the
\* client has to the one the server has.
Rising(signals, from, to) ==
  /\ \A k \in DOMAIN signals :
       from[signals[k].topic] <= signals[k].val /\ signals[k].val <= to[signals[k].topic]
  /\ \A j, k \in DOMAIN signals :
       j <= k /\ signals[j].topic = signals[k].topic => signals[j].val <= signals[k].val

SentInOrder ==
  \A c \in Subscriber :
    /\ \A t \in Topic : cache[c][t] <= value[t]
    /\ Rising(pipe[c], cache[c], value)

\* When the properties have stopped changing every client comes to have the
\* value of every announced property it wants, unless its pipe was full.
ClientsConverge ==
  <>[](\A c \in Subscriber : \A t \in wanted[c] \cap Announced :
         cache[c][t] = value[t] \/ t \in dropped[c])

=============================================================================
