------------------------------- MODULE PubSub -------------------------------
(***************************************************************************)
(* ZeroMQ's XPUB/SUB under the signals, as the code uses it (libzmq itself *)
(* is external).  A SUB remembers its subscriptions, sends each of them to *)
(* the XPUB and sends them all again whenever it reconnects.  The XPUB     *)
(* filters what it publishes per subscriber, drops what a full subscriber  *)
(* has no room for, and hands the subscriptions that arrive to the server. *)
(* The removals it hands over as well are ignored by both servers, and are *)
(* left out.                                                               *)
(***************************************************************************)
EXTENDS Naturals, Sequences, SequencesExt

CONSTANTS
  Subscriber,   \* client objects with a SUB socket
  Signals,      \* the topics of the protocol, in the order of the interface
  Matches,      \* the topics a subscription to each topic lets through
  SubWater,     \* signals a subscriber's connection holds before it drops
  MaxChanges,   \* bound on the values a property goes through
  MaxBreaks     \* bound on broken connections and restarts

Topic == {Signals[k] : k \in DOMAIN Signals}

\* A property's value stands for the values it went through, counted from 1.
Value == 1..MaxChanges
Signal == [topic : Topic, val : Value]

ASSUME PubSubAssumption ==
  /\ Signals \in Seq(Topic)
  /\ Matches \in [Topic -> SUBSET Topic] /\ \A t \in Topic : t \in Matches[t]
  /\ SubWater \in Nat \ {0} /\ MaxChanges \in Nat \ {0} /\ MaxBreaks \in Nat

VARIABLES
  serverUp,   \* an XPUB is bound to the signal address
  wanted,     \* the subscriptions each SUB remembers
  asked,      \* subscriptions on their way to the XPUB, per subscriber
  filter,     \* the subscriptions the XPUB has of each subscriber
  pending,    \* subscriptions the XPUB holds for the server to receive
  pipe,       \* signals on their way to, or queued in, each SUB
  dropped,    \* topics whose latest signal found the subscriber's pipe full
  breaks      \* broken connections and restarts so far

pubSubVars == <<serverUp, wanted, asked, filter, pending, pipe, dropped, breaks>>

PubSubTypeOK ==
  /\ serverUp \in BOOLEAN
  /\ wanted \in [Subscriber -> SUBSET Topic]
  /\ asked \in [Subscriber -> Seq(Topic)]
  /\ filter \in [Subscriber -> SUBSET Topic]
  /\ pending \in Seq(Topic)
  /\ pipe \in [Subscriber -> Seq(Signal)]
  /\ dropped \in [Subscriber -> SUBSET Topic]
  /\ breaks \in 0..MaxBreaks

PubSubInit ==
  /\ serverUp = TRUE
  /\ wanted = [c \in Subscriber |-> {}]
  /\ asked = [c \in Subscriber |-> <<>>]
  /\ filter = [c \in Subscriber |-> {}]
  /\ pending = <<>>
  /\ pipe = [c \in Subscriber |-> <<>>]
  /\ dropped = [c \in Subscriber |-> {}]
  /\ breaks = 0

\* setsockopt(SUBSCRIBE) for each topic of a sequence.
Subscribe(c, topics) ==
  /\ wanted' = [wanted EXCEPT ![c] = @ \cup {topics[k] : k \in DOMAIN topics}]
  /\ asked' = [asked EXCEPT ![c] = @ \o topics]
  /\ UNCHANGED <<serverUp, filter, pending, pipe, dropped, breaks>>

\* A subscription gets to the XPUB: it filters from then on, and XPUB_VERBOSE
\* makes it tell the server of every one, of topics that are subscribed to too.
ArriveSubscription(c) ==
  /\ serverUp
  /\ asked[c] # <<>>
  /\ asked' = [asked EXCEPT ![c] = Tail(@)]
  /\ filter' = [filter EXCEPT ![c] = @ \cup {Head(asked[c])}]
  /\ pending' = Append(pending, Head(asked[c]))
  /\ UNCHANGED <<serverUp, wanted, pipe, dropped, breaks>>

Reaches(c, t) == \E s \in filter[c] : t \in Matches[s]

\* send on the XPUB: a subscriber without room does not get the signal.
Publish(t, v) ==
  /\ pipe' = [c \in Subscriber |->
       IF Reaches(c, t) /\ Len(pipe[c]) < SubWater
       THEN Append(pipe[c], [topic |-> t, val |-> v]) ELSE pipe[c]]
  /\ dropped' = [c \in Subscriber |->
       IF ~Reaches(c, t) THEN dropped[c]
       ELSE IF Len(pipe[c]) < SubWater THEN dropped[c] \ {t} ELSE dropped[c] \cup {t}]

\* A connection breaks and is made again: the SUB asks for all it remembers, in an
\* order of its own.
Remembered(c) == SetToSeqs(wanted[c])

Reconnect(c) ==
  /\ breaks < MaxBreaks
  /\ breaks' = breaks + 1
  /\ \E again \in Remembered(c) : asked' = [asked EXCEPT ![c] = again]
  /\ filter' = [filter EXCEPT ![c] = {}]
  /\ dropped' = [dropped EXCEPT ![c] = {}]
  /\ \E arrives \in Prefixes(pipe[c]) : pipe' = [pipe EXCEPT ![c] = arrives]
  /\ UNCHANGED <<serverUp, wanted, pending>>

\* The XPUB goes with all its connections, and another one is bound later.
Unbind ==
  /\ serverUp
  /\ breaks < MaxBreaks
  /\ breaks' = breaks + 1
  /\ serverUp' = FALSE
  /\ asked' \in [Subscriber -> UNION {Remembered(c) : c \in Subscriber}]
  /\ \A c \in Subscriber : asked'[c] \in Remembered(c)
  /\ filter' = [c \in Subscriber |-> {}]
  /\ dropped' = [c \in Subscriber |-> {}]
  /\ pending' = <<>>
  /\ pipe' \in [Subscriber -> UNION {Prefixes(pipe[c]) : c \in Subscriber}]
  /\ \A c \in Subscriber : pipe'[c] \in Prefixes(pipe[c])
  /\ UNCHANGED wanted

Bind ==
  /\ ~serverUp
  /\ serverUp' = TRUE
  /\ UNCHANGED <<wanted, asked, filter, pending, pipe, dropped, breaks>>

=============================================================================
