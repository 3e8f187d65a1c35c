------------------------- MODULE SignalThreadProofs -------------------------
(***************************************************************************)
(* When the two threads of ClientSignalsThreaded need no lock: for every   *)
(* set of signals, whichever topics begin with which, only a topic that    *)
(* begins with another registered one can race.                            *)
(***************************************************************************)
EXTENDS SignalThread, SequenceTheorems, TLAPS

\* Appending keeps what holds of the elements.
LEMMA AppendElements ==
  ASSUME NEW S, NEW s \in Seq(S), NEW e \in S
  PROVE  /\ Append(s, e) \in Seq(S) /\ Append(s, e) # <<>>
         /\ \A k \in DOMAIN Append(s, e) : Append(s, e)[k] = e \/ \E j \in DOMAIN s : Append(s, e)[k] = s[j]
<1>1. Append(s, e) \in Seq(S) /\ Len(Append(s, e)) = Len(s) + 1
      /\ (\A k \in 1..Len(s) : Append(s, e)[k] = s[k])
      /\ Append(s, e)[Len(s) + 1] = e
  BY AppendProperties
<1>2. Len(s) \in Nat /\ DOMAIN s = 1..Len(s) /\ DOMAIN Append(s, e) = 1..(Len(s) + 1)
  BY <1>1, LenProperties
<1>3. Append(s, e) # <<>>
  BY <1>1, <1>2, EmptySeq
<1>4. \A k \in 1..(Len(s) + 1) : k \in 1..Len(s) \/ k = Len(s) + 1
  BY <1>2
<1> QED
  BY <1>1, <1>2, <1>3, <1>4

\* The head and the tail of a sequence hold elements of it.
LEMMA TailElements ==
  ASSUME NEW S, NEW s \in Seq(S), s # <<>>
  PROVE  /\ Tail(s) \in Seq(S) /\ Head(s) \in S
         /\ \E j \in DOMAIN s : Head(s) = s[j]
         /\ \A k \in DOMAIN Tail(s) : \E j \in DOMAIN s : Tail(s)[k] = s[j]
<1>1. Tail(s) \in Seq(S) /\ Len(Tail(s)) = Len(s) - 1 /\ Head(s) \in S
      /\ \A k \in 1..Len(Tail(s)) : Tail(s)[k] = s[k + 1]
  BY HeadTailProperties
<1>2. Len(s) \in Nat \ {0} /\ DOMAIN s = 1..Len(s) /\ DOMAIN Tail(s) = 1..Len(Tail(s))
  BY <1>1, LenProperties, EmptySeq
<1>3. Head(s) = s[1]
  BY <1>1
<1>4. \A k \in 1..Len(Tail(s)) : k + 1 \in 1..Len(s)
  BY <1>1, <1>2
<1> QED
  BY <1>1, <1>2, <1>3, <1>4

\* Every state has its types, and poll's report is not outdated.
TypeInv == TypeOK /\ ReadyIsReadable

LEMMA TypeInvInit == ASSUME Init PROVE TypeInv
<1>1. pair \in Seq(Topic \cup {Farewell}) /\ incoming \in Seq(Topic)
  BY EmptySeq DEF Init
<1>2. appPc \in AppPc /\ recvPc \in RecvPc
  BY DEF Init, AppPc, RecvPc
<1>3. ReadyIsReadable
  BY DEF Init, ReadyIsReadable
<1> QED
  BY <1>1, <1>2, <1>3 DEF Init, TypeInv, TypeOK

LEMMA TypeInvStep ==
  ASSUME TypeInv, [Next]_vars
  PROVE  TypeInv'
<1> USE DEF TypeInv, TypeOK, ReadyIsReadable, AppPc, RecvPc, appVars, recvVars
<1>1. CASE StartThread
  BY <1>1 DEF StartThread
<1>2. ASSUME NEW t \in Topic, BeginOn(t) PROVE TypeInv'
  BY <1>2 DEF BeginOn
<1>3. CASE Assign
  BY <1>3 DEF Assign
<1>4. CASE SendTopic
  <2>1. Append(pair, reg) \in Seq(Topic \cup {Farewell}) /\ Append(pair, reg) # <<>>
    BY AppendElements
  <2> QED
    BY <1>4, <2>1 DEF SendTopic
<1>5. CASE StoreTerminate
  BY <1>5 DEF StoreTerminate
<1>6. CASE SendQuit
  <2>1. Append(pair, Farewell) \in Seq(Topic \cup {Farewell}) /\ Append(pair, Farewell) # <<>>
    BY AppendElements
  <2> QED
    BY <1>6, <2>1 DEF SendQuit
<1>7. CASE Join
  BY <1>7 DEF Join
<1>8. CASE ConnectSockets
  BY <1>8 DEF ConnectSockets
<1>9. CASE TestTerminate
  BY <1>9 DEF TestTerminate
<1>10. CASE Poll
  BY <1>10 DEF Poll
<1>11. CASE ReceiveSignal
  <2>1. Tail(incoming) \in Seq(Topic) /\ Head(incoming) \in Topic
    BY <1>11, TailElements DEF ReceiveSignal
  <2> QED
    BY <1>11, <2>1 DEF ReceiveSignal
<1>12. CASE Dispatch
  BY <1>12 DEF Dispatch
<1>13. CASE NoSignal \/ CallHalfAssigned
  BY <1>13 DEF NoSignal, CallHalfAssigned, Racing
<1>14. CASE Subscribe
  <2>1. Tail(pair) \in Seq(Topic \cup {Farewell}) /\ Head(pair) \in Topic \cup {Farewell}
    BY <1>14, TailElements DEF Subscribe
  <2> QED
    BY <1>14, <2>1 DEF Subscribe
<1>15. CASE NoRequest
  BY <1>15 DEF NoRequest
<1>16. CASE Reap
  BY <1>16 DEF Reap
<1>17. ASSUME NEW t \in Topic, Publish(t) PROVE TypeInv'
  <2>1. Append(incoming, t) \in Seq(Topic) /\ Append(incoming, t) # <<>>
    BY AppendElements
  <2> QED
    BY <1>17, <2>1 DEF Publish
<1>18. CASE UNCHANGED vars
  BY <1>18 DEF vars
<1> QED
  BY <1>1, <1>2, <1>3, <1>4, <1>5, <1>6, <1>7, <1>8, <1>9, <1>10, <1>11, <1>12, <1>13,
     <1>14, <1>15, <1>16, <1>17, <1>18 DEF Next, App, Receiver

\* The states of the application and the receiver have their types.
THEOREM TypeCorrect == Spec => []TypeOK
<1>1. TypeInv => TypeOK
  BY DEF TypeInv
<1> QED
  BY <1>1, TypeInvInit, TypeInvStep, PTL DEF Spec

-----------------------------------------------------------------------------
(* Topics reach the receiver after their callbacks are set.                *)

LEMMA CallbackInvStep ==
  ASSUME TypeInv, KnownTopics, Registering, [Next]_vars
  PROVE  KnownTopics' /\ Registering'
<1> USE DEF KnownTopics, Registering, Covered, appVars, recvVars
<1>1. CASE StartThread
  BY <1>1 DEF StartThread
<1>2. ASSUME NEW t \in Topic, BeginOn(t) PROVE KnownTopics' /\ Registering'
  BY <1>2 DEF BeginOn
<1>3. CASE Assign
  BY <1>3 DEF Assign
<1>4. CASE SendTopic
  <2>1. \A k \in DOMAIN Append(pair, reg) :
          Append(pair, reg)[k] = reg \/ \E j \in DOMAIN pair : Append(pair, reg)[k] = pair[j]
    BY AppendElements DEF TypeInv, TypeOK
  <2> QED
    BY <1>4, <2>1 DEF SendTopic
<1>5. CASE StoreTerminate
  BY <1>5 DEF StoreTerminate
<1>6. CASE SendQuit
  <2>1. \A k \in DOMAIN Append(pair, Farewell) :
          \/ Append(pair, Farewell)[k] = Farewell
          \/ \E j \in DOMAIN pair : Append(pair, Farewell)[k] = pair[j]
    BY AppendElements DEF TypeInv, TypeOK
  <2> QED
    BY <1>6, <2>1 DEF SendQuit
<1>7. CASE Join
  BY <1>7 DEF Join
<1>8. CASE ConnectSockets
  BY <1>8 DEF ConnectSockets
<1>9. CASE TestTerminate
  BY <1>9 DEF TestTerminate
<1>10. CASE Poll
  BY <1>10 DEF Poll
<1>11. CASE ReceiveSignal
  <2>1. /\ \E j \in DOMAIN incoming : Head(incoming) = incoming[j]
        /\ \A k \in DOMAIN Tail(incoming) :
             \E j \in DOMAIN incoming : Tail(incoming)[k] = incoming[j]
    BY <1>11, TailElements DEF ReceiveSignal, TypeInv, TypeOK, ReadyIsReadable
  <2> QED
    BY <1>11, <2>1 DEF ReceiveSignal
<1>12. CASE Dispatch
  BY <1>12 DEF Dispatch
<1>13. CASE NoSignal \/ CallHalfAssigned
  BY <1>13 DEF NoSignal, CallHalfAssigned, Racing
<1>14. CASE Subscribe
  <2>1. /\ \E j \in DOMAIN pair : Head(pair) = pair[j]
        /\ \A k \in DOMAIN Tail(pair) : \E j \in DOMAIN pair : Tail(pair)[k] = pair[j]
    BY <1>14, TailElements DEF Subscribe, TypeInv, TypeOK, ReadyIsReadable
  <2> QED
    BY <1>14, <2>1 DEF Subscribe
<1>15. CASE NoRequest
  BY <1>15 DEF NoRequest
<1>16. CASE Reap
  BY <1>16 DEF Reap
<1>17. ASSUME NEW t \in Topic, Publish(t) PROVE KnownTopics' /\ Registering'
  <2>1. Covered(t)
    <3>1. PICK s \in subs \cap Topic : t \in Matches[s]
      BY <1>17 DEF Publish
    <3>2. s \in cb
      BY <3>1, ThreadAssumption DEF Farewell
    <3> QED
      BY <3>1, <3>2
  <2>2. \A k \in DOMAIN Append(incoming, t) :
          \/ Append(incoming, t)[k] = t
          \/ \E j \in DOMAIN incoming : Append(incoming, t)[k] = incoming[j]
    BY AppendElements DEF TypeInv, TypeOK
  <2> QED
    BY <1>17, <2>1, <2>2 DEF Publish
<1>18. CASE UNCHANGED vars
  BY <1>18 DEF vars
<1> QED
  BY <1>1, <1>2, <1>3, <1>4, <1>5, <1>6, <1>7, <1>8, <1>9, <1>10, <1>11, <1>12, <1>13,
     <1>14, <1>15, <1>16, <1>17, <1>18 DEF Next, App, Receiver

LEMMA CallbackInvHolds == Spec => [](TypeInv /\ KnownTopics /\ Registering)
<1>1. Init => KnownTopics /\ Registering
  BY DEF Init, KnownTopics, Registering
<1>2. TypeInv /\ KnownTopics /\ Registering /\ [Next]_vars => KnownTopics' /\ Registering'
  BY CallbackInvStep
<1> QED
  BY <1>1, <1>2, TypeInvInit, TypeInvStep, PTL DEF Spec

\* Whichever topics begin with which, the receiver reads a callback member that the
\* application is assigning, and crashes on one, only for a topic that begins with
\* another one that is registered.
THEOREM RacesOnPrefixesOnly == Spec => []RacesNeedPrefixes
<1>1. KnownTopics /\ Registering => RacesNeedPrefixes
  BY DEF KnownTopics, Registering, RacesNeedPrefixes, Racing, BehindPrefix, Covered
<1> QED
  BY <1>1, CallbackInvHolds, PTL

\* A signal arrives without its callback only if its topic begins with another one that
\* is registered.
THEOREM SignalsFindCallbacks == Spec => []DispatchFindsCallback
<1>1. KnownTopics => DispatchFindsCallback
  BY DEF KnownTopics, DispatchFindsCallback, BehindPrefix, Covered
<1> QED
  BY <1>1, CallbackInvHolds, PTL

\* When the destructor has returned the receiver has left its loop for good.
THEOREM DestructorIsLast == Spec => []NothingAfterDestructor
<1> USE DEF NothingAfterDestructor, appVars, recvVars
<1>1. Init => NothingAfterDestructor
  BY DEF Init
<1>2. NothingAfterDestructor /\ [Next]_vars => NothingAfterDestructor'
  <2> SUFFICES ASSUME NothingAfterDestructor, [Next]_vars PROVE NothingAfterDestructor'
    OBVIOUS
  <2>1. CASE App
    BY <2>1 DEF App, StartThread, BeginOn, Assign, SendTopic, StoreTerminate, SendQuit, Join
  <2>2. CASE Receiver
    BY <2>2 DEF Receiver, ConnectSockets, TestTerminate, Poll, ReceiveSignal, Dispatch,
      CallHalfAssigned, Racing, NoSignal, Subscribe, NoRequest
  <2>3. CASE Reap \/ \E t \in Topic : Publish(t)
    BY <2>3 DEF Reap, Publish
  <2>4. CASE UNCHANGED vars
    BY <2>4 DEF vars
  <2> QED
    BY <2>1, <2>2, <2>3, <2>4 DEF Next
<1> QED
  BY <1>1, <1>2, PTL DEF Spec

=============================================================================
