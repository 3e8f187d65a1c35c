--------------------------- MODULE SignalFraming ---------------------------
(***************************************************************************)
(* How a client gets from the frames of signals to callbacks.  A signal is *)
(* a key and, if the sender's interface gives it parameters, a payload.    *)
(* Subscriptions match the beginnings of keys, so a client is sent signals *)
(* it has no callback for, of later versions of the interface, too.  The   *)
(* Python client receives whole messages; the C++ and the Qt client        *)
(* receive a key, and a payload if their own interface says there is one.  *)
(* What they read as a payload may be the key of the next signal: then     *)
(* Cap'n Proto's reader throws.  That goes for payloads of the generated   *)
(* struct types; the reader of a native payload is not asked for its root, *)
(* and would take a key of less than eight bytes for an empty message.     *)
(***************************************************************************)
EXTENDS Naturals, Sequences

CONSTANTS
  Topic,       \* the keys of the signals some version of the interface has
  Matches,     \* the keys a subscription to each key lets through, itself among them
  Pairings,    \* the senders and clients in question
  MaxSignals   \* bound on the signals of a behaviour

\* A version of the interface: its signals, each with "payload" or "void" parameters.
Interface == UNION {[signals -> {"payload", "void"}] : signals \in SUBSET Topic}

SignalId == 1..MaxSignals
Frame == [kind : {"key", "payload"}, signal : SignalId, topic : Topic]

VARIABLES
  peers,      \* the client's language, the sender's interface and the client's
  callbacks,  \* the keys that have a callback
  sent,       \* the keys of the signals sent so far
  arrived,    \* those that got to the client, and whether a callback waited for them
  stream,     \* the frames the SUB holds
  running,    \* no exception has ended the client
  calls       \* the callbacks that were called, and with what

vars == <<peers, callbacks, sent, arrived, stream, running, calls>>

Sends == peers.sends
Knows == peers.knows
SentTopic == DOMAIN Sends
KnownTopic == DOMAIN Knows

\* A call: of the callback of a key, with the key of one signal and the payload of one.
Nobody == 0
Call == [topic : Topic, key : SignalId, payload : {Nobody} \cup SignalId]

\* The Qt client subscribes to all its signals when it is made; somebody may connect
\* to every one of them.
Init ==
  /\ peers \in Pairings
  /\ callbacks = IF peers.lang = "qt" THEN KnownTopic ELSE {}
  /\ sent = <<>>
  /\ arrived = <<>>
  /\ stream = <<>>
  /\ running = TRUE
  /\ calls = <<>>

\* onX, on_x: the callback is set and its key subscribed to.
On(t) ==
  /\ running
  /\ t \in KnownTopic \ callbacks
  /\ callbacks' = callbacks \cup {t}
  /\ UNCHANGED <<peers, sent, arrived, stream, running, calls>>

-----------------------------------------------------------------------------
(* The server's emitter.                                                   *)

Frames(i, t) ==
  LET f(kind) == [kind |-> kind, signal |-> i, topic |-> t]
  IN IF Sends[t] = "payload" THEN <<f("key"), f("payload")>> ELSE <<f("key")>>

\* A signal is sent.  What a subscription lets through gets to the client, unless it
\* is dropped or the subscription has not reached the server yet.
Emit(t) ==
  /\ Len(sent) < MaxSignals
  /\ sent' = Append(sent, t)
  /\ \/ /\ \E s \in callbacks : t \in Matches[s]
        /\ arrived' = Append(arrived, [signal |-> Len(sent) + 1, awaited |-> t \in callbacks])
        /\ stream' = stream \o Frames(Len(sent) + 1, t)
     \/ UNCHANGED <<arrived, stream>>
  /\ UNCHANGED <<peers, callbacks, running, calls>>

-----------------------------------------------------------------------------
(* The clients.                                                            *)

Drop(n) == stream' = SubSeq(stream, n + 1, Len(stream))

Called(t, key, payload) == calls' = Append(calls, [topic |-> t, key |-> key, payload |-> payload])

\* An exception leaves the function that handles a signal.  In the threaded client
\* nobody catches it and the process ends; elsewhere it is up to the caller.
Throws ==
  /\ running' \in IF peers.lang = "threaded" THEN {FALSE} ELSE BOOLEAN
  /\ UNCHANGED calls

\* recv_multipart: the frames up to the next key.
MessageLength == IF Len(stream) >= 2 /\ stream[2].kind = "payload" THEN 2 ELSE 1

\* Mutant of PyHandle: the number of frames is not checked.
PyHandle_NoCount ==
  /\ peers.lang = "python"
  /\ running /\ stream # <<>>
  /\ LET key == stream[1]
     IN IF key.topic \notin callbacks THEN UNCHANGED calls
        ELSE Called(key.topic, key.signal, IF MessageLength = 2 THEN stream[2].signal ELSE Nobody)
  /\ Drop(MessageLength)
  /\ UNCHANGED <<peers, callbacks, sent, arrived, running>>

\* poll_signal: exactly this key, and as many frames as the interface says; else the
\* message is gone, by returning or by raising.
PyHandle ==
  /\ peers.lang = "python"
  /\ running /\ stream # <<>>
  /\ LET key == stream[1]
         expected == IF Knows[key.topic] = "void" THEN 1 ELSE 2
     IN \/ key.topic \notin callbacks /\ UNCHANGED <<running, calls>>
        \/ key.topic \in callbacks /\ MessageLength # expected /\ Throws
        \/ /\ key.topic \in callbacks /\ MessageLength = expected
           /\ Called(key.topic, key.signal, IF expected = 2 THEN stream[2].signal ELSE Nobody)
           /\ UNCHANGED running
  /\ Drop(MessageLength)
  /\ UNCHANGED <<peers, callbacks, sent, arrived>>

\* Whether the comparisons of a generated client know a frame that is read as a key.
\* A payload begins with zeros and equals none.
Recognized(frame) == frame.kind = "key" /\ frame.topic \in KnownTopic

\* A frame that is received as a key and equals none is passed over.
Unrecognized ==
  /\ ~Recognized(stream[1])
  /\ Drop(1)
  /\ UNCHANGED <<running, calls>>

\* The payload that a recognized key brings by the client's interface is received
\* whether there is a callback or not; a frame that is not there is waited for.
Received == IF Knows[stream[1].topic] = "payload" THEN 2 ELSE 1

\* Key and payload are received, and the payload is one or is the next signal's key.
Receive(kind) ==
  /\ Recognized(stream[1]) /\ Len(stream) >= Received
  /\ Received = 2 => stream[2].kind = kind
  /\ Drop(Received)

Payload == IF Received = 2 THEN stream[2].signal ELSE Nobody

\* A key has no root that is a payload's: its first bytes count more segments than
\* it is long, or it is too short to have a root.
Misread == Recognized(stream[1]) /\ Received = 2 /\ Receive("key") /\ Throws

\* Mutant of CppHandle: what follows an unknown key is taken for its payload.
CppHandle_SkipsTwo ==
  /\ peers.lang \in {"cpp", "threaded"}
  /\ running /\ stream # <<>>
  /\ \/ /\ ~Recognized(stream[1]) /\ Len(stream) >= 2
        /\ Drop(2)
        /\ UNCHANGED <<running, calls>>
     \/ Misread
     \/ /\ Receive("payload")
        /\ IF stream[1].topic \in callbacks
           THEN Called(stream[1].topic, stream[1].signal, Payload) ELSE UNCHANGED calls
        /\ UNCHANGED running
  /\ UNCHANGED <<peers, callbacks, sent, arrived>>

\* handleIncomingSignal of the C++ clients.
CppHandle ==
  /\ peers.lang \in {"cpp", "threaded"}
  /\ running /\ stream # <<>>
  /\ \/ Unrecognized
     \/ Misread
     \/ /\ Receive("payload")
        /\ IF stream[1].topic \in callbacks
           THEN Called(stream[1].topic, stream[1].signal, Payload) ELSE UNCHANGED calls
        /\ UNCHANGED running
  /\ UNCHANGED <<peers, callbacks, sent, arrived>>

\* handleIncomingSignal of the Qt client: the Qt signal is emitted in any case.
QtHandle ==
  /\ peers.lang = "qt"
  /\ running /\ stream # <<>>
  /\ \/ Unrecognized
     \/ Misread
     \/ /\ Receive("payload")
        /\ Called(stream[1].topic, stream[1].signal, Payload)
        /\ UNCHANGED running
  /\ UNCHANGED <<peers, callbacks, sent, arrived>>

Next ==
  \/ \E t \in KnownTopic : On(t)
  \/ \E t \in SentTopic : Emit(t)
  \/ PyHandle
  \/ CppHandle
  \/ QtHandle

Spec == Init /\ [][Next]_vars

-----------------------------------------------------------------------------
TypeOK ==
  /\ peers \in Pairings
  /\ callbacks \subseteq KnownTopic
  /\ sent \in Seq(SentTopic) /\ Len(sent) <= MaxSignals
  /\ arrived \in Seq([signal : SignalId, awaited : BOOLEAN])
  /\ stream \in Seq(Frame)
  /\ running \in BOOLEAN
  /\ calls \in Seq(Call)

\* Both peers have the same parameters for a signal.
Agreed(t) == t \in KnownTopic /\ Knows[t] = Sends[t]

\* A signal after which a C++ or Qt client waits for a payload that never comes, and
\* takes the next signal's key for it.
Shifts(t) == peers.lang # "python" /\ t \in KnownTopic /\ Knows[t] = "payload" /\ Sends[t] = "void"

\* A callback is called with the payload of the signal whose key it is called for,
\* whatever other signals its subscription lets through and whatever the peers'
\* versions: what is no payload of this signal never gets to a callback.  No signal is
\* handled twice and none before an older one.
CallbacksMatch ==
  /\ \A k \in DOMAIN calls :
       /\ calls[k].topic = sent[calls[k].key]
       /\ calls[k].payload = IF Knows[calls[k].topic] = "payload" THEN calls[k].key ELSE Nobody
  /\ \A j, k \in DOMAIN calls : j < k => calls[j].key < calls[k].key

\* The arrived signals whose key is received: those before the first key in the stream.
Taken == {k \in DOMAIN arrived :
            \A j \in DOMAIN stream : stream[j].kind = "key" => stream[j].signal # arrived[k].signal}

\* What costs a client more than the signal itself: nothing but a signal it has other
\* parameters for.  One that both peers have the same parameters for and a callback
\* waits for is handled, unless the one before it shifted the client; a client whose
\* caller caught the exception is in step after that.  And an exception ends a client
\* only after a signal that the peers disagree about: signals it does not know, which
\* prefixes let through, never do.
Handled(i) == \E j \in DOMAIN calls : calls[j].key = i

Disagreed(t) == IF peers.lang = "python" THEN t \in KnownTopic /\ ~Agreed(t) ELSE Shifts(t)

LossIsLocal ==
  /\ \A k \in Taken :
       /\ arrived[k].awaited
       /\ Agreed(sent[arrived[k].signal])
       /\ k > 1 => ~Shifts(sent[arrived[k - 1].signal])
       => Handled(arrived[k].signal)
  /\ ~running => \E k \in Taken : Disagreed(sent[arrived[k].signal])

-----------------------------------------------------------------------------
(***************************************************************************)
(* The inductive invariant: the stream is what arrived and is not handled  *)
(* yet, in order and without a gap, at most its first key missing.         *)
(***************************************************************************)
BringsPayload(frame) == frame.kind = "key" /\ Sends[frame.topic] = "payload"

\* A frame is of a signal that was sent; a key that brings a payload is followed by
\* it, every other frame by a key.
FramesMatch ==
  \A k \in DOMAIN stream :
    /\ stream[k].signal \in DOMAIN sent
    /\ stream[k].topic = sent[stream[k].signal]
    /\ IF BringsPayload(stream[k])
       THEN k < Len(stream) /\ stream[k + 1].kind = "payload" /\ stream[k + 1].signal = stream[k].signal
       ELSE k < Len(stream) => stream[k + 1].kind = "key"

\* A frame comes after signal i: a key after the whole of it.
Follows(i, frame) == i <= frame.signal /\ (frame.kind = "key" => i < frame.signal)

SignalsInOrder ==
  /\ \A j, k \in DOMAIN stream : j < k => Follows(stream[j].signal, stream[k])
  /\ \A j, k \in DOMAIN arrived : j < k => arrived[j].signal < arrived[k].signal
  /\ \A j \in DOMAIN calls, k \in DOMAIN stream : Follows(calls[j].key, stream[k])
  /\ \A k \in DOMAIN calls : calls[k].key \in DOMAIN sent

\* Keys are received in the order in which their signals arrived; a callback that
\* waited for a signal still does.
TakenInOrder ==
  /\ \A k \in DOMAIN arrived :
       /\ arrived[k].signal \in DOMAIN sent
       /\ arrived[k].awaited => sent[arrived[k].signal] \in callbacks
  /\ \A j \in DOMAIN stream : \E k \in DOMAIN arrived : arrived[k].signal = stream[j].signal
  /\ \A j, k \in DOMAIN arrived : j < k /\ k \in Taken => j \in Taken

\* A Python client takes messages as a whole.
PyInStep == peers.lang = "python" /\ stream # <<>> => stream[1].kind = "key"

SignalInv == TypeOK /\ FramesMatch /\ SignalsInOrder /\ TakenInOrder /\ PyInStep

=============================================================================
