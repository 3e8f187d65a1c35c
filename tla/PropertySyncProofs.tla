------------------------- MODULE PropertySyncProofs -------------------------
(***************************************************************************)
(* Clients of properties see the values of PropertyRegister, for any       *)
(* clients, properties, prefixes of topics, sizes of pipes and numbers of  *)
(* changes and failures.                                                   *)
(***************************************************************************)
EXTENDS PropertySync, FiniteSetTheorems, SequenceTheorems, TLAPS

-----------------------------------------------------------------------------
(* Sequences of signals.                                                   *)

\* The values a client can have, and the ones the server can have.
Known == [Topic -> Value \cup {NoValue}]
Present == [Topic -> Value]

LEMMA ValuesAreNumbers == Value \subseteq Nat /\ Value \cup {NoValue} \subseteq Nat
BY PubSubAssumption DEF Value, NoValue

\* What is left when a connection breaks still rises, to a value that may have risen.
LEMMA RisingPrefix ==
  ASSUME NEW p \in Seq(Signal), NEW q \in Prefixes(p), NEW from \in Known,
         NEW to \in Present, NEW later \in Present,
         \A t \in Topic : to[t] <= later[t], Rising(p, from, to)
  PROVE  q \in Seq(Signal) /\ Rising(q, from, later)
<1>1. PICK n \in 0..Len(p) : q = SubSeq(p, 1, n)
  BY DEF Prefixes
<1>2. q \in Seq(Signal) /\ DOMAIN q = 1..n /\ \A k \in 1..n : q[k] = p[k]
  <2>1. Len(p) \in Nat /\ DOMAIN p = 1..Len(p) /\ \A k \in DOMAIN p : p[k] \in Signal
    BY ElementOfSeq, LenProperties
  <2>2. q = [k \in 1..n |-> p[k]]
    BY <1>1, <2>1, SubSeqRestrict
  <2> QED BY <2>1, <2>2
<1>3. \A k \in DOMAIN q : k \in DOMAIN p /\ q[k] = p[k] /\ p[k] \in Signal
  BY <1>2, <1>1, LenProperties, ElementOfSeq
<1>4. \A k \in DOMAIN q : from[q[k].topic] <= q[k].val /\ q[k].val <= later[q[k].topic]
  <2> SUFFICES ASSUME NEW k \in DOMAIN q
               PROVE  from[p[k].topic] <= p[k].val /\ p[k].val <= later[p[k].topic]
    BY <1>3
  <2>1. p[k].topic \in Topic /\ p[k].val \in Value
    BY <1>3 DEF Signal
  <2>2. p[k].val <= to[p[k].topic] /\ from[p[k].topic] <= p[k].val
    BY <1>3 DEF Rising
  <2>3. to[p[k].topic] \in Nat /\ later[p[k].topic] \in Nat /\ p[k].val \in Nat
    BY <2>1, ValuesAreNumbers DEF Present
  <2>4. to[p[k].topic] <= later[p[k].topic]
    BY <2>1
  <2> QED BY <2>2, <2>3, <2>4
<1>5. \A j, k \in DOMAIN q : j <= k /\ q[j].topic = q[k].topic => q[j].val <= q[k].val
  BY <1>3 DEF Rising
<1> QED BY <1>2, <1>4, <1>5 DEF Rising

\* Neither does it matter that the server's values rise.
LEMMA RisingLater ==
  ASSUME NEW p \in Seq(Signal), NEW from \in Known,
         NEW to \in Present, NEW later \in Present,
         \A t \in Topic : to[t] <= later[t], Rising(p, from, to)
  PROVE  Rising(p, from, later)
<1>1. p \in Prefixes(p)
  BY LenProperties, SubSeqFull DEF Prefixes
<1> QED BY <1>1, RisingPrefix

\* A signal with the present value keeps the values rising.
LEMMA RisingAppend ==
  ASSUME NEW p \in Seq(Signal), NEW from \in Known, NEW to \in Present,
         Rising(p, from, to), NEW t \in Topic, from[t] <= to[t],
         NEW s, s = [topic |-> t, val |-> to[t]]
  PROVE  Append(p, s) \in Seq(Signal) /\ Rising(Append(p, s), from, to)
<1> DEFINE q == Append(p, s)
           n == Len(p) + 1
<1>1. s \in Signal /\ s.topic = t /\ s.val = to[t] /\ s.val \in Nat
  BY ValuesAreNumbers DEF Signal, Present
<1>2. /\ q \in Seq(Signal) /\ Len(p) \in Nat /\ DOMAIN q = 1..n /\ q[n] = s
      /\ \A k \in 1..Len(p) : q[k] = p[k]
  BY <1>1, AppendProperties, LenProperties
<1>3. \A k \in 1..Len(p) : k \in DOMAIN p /\ p[k] \in Signal
  BY LenProperties, ElementOfSeq
<1> HIDE DEF q
<1>4. ASSUME NEW k \in DOMAIN q
      PROVE  (k \in DOMAIN p /\ q[k] = p[k] /\ p[k] \in Signal) \/ (k = n /\ q[k] = s)
  <2>1. k \in 1..Len(p) \/ k = n
    BY <1>2
  <2> QED BY <1>2, <1>3, <2>1
<1> HIDE DEF n
<1>5. \A k \in DOMAIN q : from[q[k].topic] <= q[k].val /\ q[k].val <= to[q[k].topic]
  BY <1>1, <1>4 DEF Rising
<1>6. ASSUME NEW j \in DOMAIN q, NEW k \in DOMAIN q, j <= k, q[j].topic = q[k].topic
      PROVE  q[j].val <= q[k].val
  <2>1. CASE k = n /\ q[k] = s
    BY <1>1, <1>5, <1>6, <2>1
  <2>2. CASE k \in DOMAIN p /\ q[k] = p[k] /\ p[k] \in Signal
    <3>1. j \in DOMAIN p /\ q[j] = p[j]
      BY <1>2, <1>6, <2>2, LenProperties
    <3> QED BY <1>6, <2>2, <3>1 DEF Rising
  <2> QED BY <1>4, <2>1, <2>2
<1> QED BY <1>2, <1>5, <1>6 DEF Rising, q

\* Nor does it end when the client takes the first signal, whether it stores it or not.
LEMMA RisingTail ==
  ASSUME NEW p \in Seq(Signal), p # <<>>, NEW from \in Known, NEW to \in Present,
         NEW next \in Known, Rising(p, from, to),
         \A u \in Topic : next[u] = from[u] \/ (u = Head(p).topic /\ next[u] = Head(p).val)
  PROVE  Tail(p) \in Seq(Signal) /\ Rising(Tail(p), next, to)
<1> DEFINE q == Tail(p)
<1>1. /\ q \in Seq(Signal) /\ Len(p) \in Nat /\ Len(p) # 0 /\ Head(p) = p[1]
      /\ DOMAIN p = 1..Len(p) /\ DOMAIN q = 1..Len(p) - 1
      /\ \A k \in 1..Len(p) - 1 : q[k] = p[k + 1]
  BY HeadTailProperties, LenProperties, EmptySeq
<1>2. \A k \in DOMAIN q : k + 1 \in DOMAIN p /\ q[k] = p[k + 1] /\ p[k + 1] \in Signal
  BY <1>1, ElementOfSeq
<1> HIDE DEF q
<1>3. ASSUME NEW k \in DOMAIN q
      PROVE  next[q[k].topic] <= q[k].val /\ q[k].val <= to[q[k].topic]
  <2>1. from[p[k + 1].topic] <= p[k + 1].val /\ p[k + 1].val <= to[p[k + 1].topic]
    BY <1>2, <1>3 DEF Rising
  <2>2. p[k + 1].topic \in Topic
    BY <1>2, <1>3 DEF Signal
  <2>3. p[1].topic = p[k + 1].topic => p[1].val <= p[k + 1].val
    <3>1. 1 \in DOMAIN p /\ k + 1 \in DOMAIN p /\ 1 <= k + 1
      BY <1>1, <1>3
    <3> QED BY <3>1 DEF Rising
  <2> QED BY <1>1, <1>2, <1>3, <2>1, <2>2, <2>3
<1>4. ASSUME NEW j \in DOMAIN q, NEW k \in DOMAIN q, j <= k, q[j].topic = q[k].topic
      PROVE  q[j].val <= q[k].val
  <2>1. j + 1 <= k + 1
    BY <1>1, <1>4
  <2> QED BY <1>2, <1>4, <2>1 DEF Rising
<1> QED BY <1>1, <1>3, <1>4 DEF Rising, q

-----------------------------------------------------------------------------
(* Types.                                                                  *)

LEMMA TopicsAreFinite == IsFiniteSet(Topic)
<1>1. Len(Signals) \in Nat /\ DOMAIN Signals = 1..Len(Signals)
  BY PubSubAssumption, LenProperties
<1>2. Signals \in Surjection(DOMAIN Signals, Topic)
  <2>1. Signals \in [DOMAIN Signals -> Topic]
    BY <1>1, PubSubAssumption, ElementOfSeq
  <2>2. \A t \in Topic : \E k \in DOMAIN Signals : Signals[k] = t
    BY DEF Topic
  <2> QED BY <2>1, <2>2 DEF Surjection
<1> QED BY <1>1, <1>2, FS_Interval, FS_Surjection

\* A subscriber that connects again asks for topics.
LEMMA RememberedAreTopics ==
  ASSUME PubSubTypeOK, NEW c \in Subscriber, NEW again \in Remembered(c)
  PROVE  again \in Seq(Topic)
<1>1. wanted[c] \in SUBSET Topic
  BY DEF PubSubTypeOK
<1>2. Cardinality(wanted[c]) \in Nat
  BY <1>1, TopicsAreFinite, FS_Subset, FS_CardinalityType
<1>3. again \in [1..Cardinality(wanted[c]) -> wanted[c]]
  BY DEF Remembered, SetToSeqs
<1>4. again \in Seq(wanted[c])
  BY <1>2, <1>3
<1> QED BY <1>1, <1>4, SeqMonotonic

\* Whatever arrives of a pipe when its connection breaks are signals.
LEMMA ArrivedAreSignals ==
  ASSUME NEW p \in Seq(Signal), NEW q \in Prefixes(p)
  PROVE  q \in Seq(Signal)
<1>1. PICK n \in 0..Len(p) : q = SubSeq(p, 1, n)
  BY DEF Prefixes
<1> QED BY <1>1, SubSeqProperties, LenProperties

LEMMA PublishType ==
  ASSUME PubSubTypeOK, NEW t \in Topic, NEW v \in Value, Publish(t, v)
  PROVE  pipe' \in [Subscriber -> Seq(Signal)] /\ dropped' \in [Subscriber -> SUBSET Topic]
<1>1. [topic |-> t, val |-> v] \in Signal
  BY DEF Signal
<1>2. \A c \in Subscriber : Append(pipe[c], [topic |-> t, val |-> v]) \in Seq(Signal)
  BY <1>1, AppendProperties DEF PubSubTypeOK
<1>3. pipe' \in [Subscriber -> Seq(Signal)]
  BY <1>2 DEF Publish, PubSubTypeOK
<1>4. dropped' \in [Subscriber -> SUBSET Topic]
  BY DEF Publish, PubSubTypeOK
<1> QED BY <1>3, <1>4

LEMMA StoredType ==
  ASSUME TypeOK, NEW c \in Subscriber, NEW s \in Signal
  PROVE  Stored(c, s) \in Known
BY DEF TypeOK, Known, Stored, Signal

LEMMA TypeStep == ASSUME TypeOK, [Next]_vars PROVE TypeOK'
<1> USE DEF TypeOK, PubSubTypeOK, syncVars
<1>1. ASSUME NEW t \in Topic, SetValue(t) PROVE TypeOK'
  <2>1. value[t] + 1 \in Value
    BY <1>1, PubSubAssumption DEF SetValue, Value
  <2>2. pipe' \in [Subscriber -> Seq(Signal)] /\ dropped' \in [Subscriber -> SUBSET Topic]
    BY <1>1, <2>1, PublishType DEF SetValue, EmitChanged
  <2> QED BY <1>1, <2>1, <2>2 DEF SetValue
<1>2. CASE HandleSubscription
  <2>1. Head(pending) \in Topic /\ pending' \in Seq(Topic)
    BY <1>2, HeadTailProperties DEF HandleSubscription
  <2>2. pipe' \in [Subscriber -> Seq(Signal)] /\ dropped' \in [Subscriber -> SUBSET Topic]
    <3>1. CASE Head(pending) \in Announced
      BY <1>2, <2>1, <3>1, PublishType DEF HandleSubscription, EmitChanged
    <3>2. CASE Head(pending) \notin Announced
      BY <1>2, <3>2 DEF HandleSubscription
    <3> QED BY <3>1, <3>2
  <2> QED BY <1>2, <2>1, <2>2 DEF HandleSubscription
<1>3. CASE StopServer
  <2>1. asked' \in [Subscriber -> Seq(Topic)]
    BY <1>3, RememberedAreTopics DEF StopServer, Unbind
  <2>2. pipe' \in [Subscriber -> Seq(Signal)]
    BY <1>3, ArrivedAreSignals DEF StopServer, Unbind
  <2>3. value' \in [Topic -> Value]
    BY <1>3, PubSubAssumption DEF StopServer, Value
  <2>4. /\ filter' \in [Subscriber -> SUBSET Topic] /\ dropped' \in [Subscriber -> SUBSET Topic]
        /\ pending' \in Seq(Topic) /\ serverUp' \in BOOLEAN
    BY <1>3, EmptySeq DEF StopServer, Unbind
  <2>5. breaks' \in 0..MaxBreaks
    BY <1>3, PubSubAssumption DEF StopServer, Unbind
  <2>6. UNCHANGED <<wanted, cache>>
    BY <1>3 DEF StopServer, Unbind
  <2> QED BY <2>1, <2>2, <2>3, <2>4, <2>5, <2>6
<1>4. CASE StartServer
  BY <1>4 DEF StartServer, Bind
<1>5. ASSUME NEW c \in Subscriber, NEW topics \in Seq(Topic), Subscribe(c, topics), UNCHANGED syncVars
      PROVE  TypeOK'
  <2>1. asked' \in [Subscriber -> Seq(Topic)]
    BY <1>5, ConcatProperties DEF Subscribe
  <2>2. wanted' \in [Subscriber -> SUBSET Topic]
    BY <1>5, ElementOfSeq, LenProperties DEF Subscribe
  <2> QED BY <1>5, <2>1, <2>2 DEF Subscribe
<1>6. ASSUME NEW c \in Subscriber, QtOpen(c) PROVE TypeOK'
  BY <1>5, <1>6, PubSubAssumption DEF QtOpen
<1>7. ASSUME NEW c \in Subscriber, NEW t \in Topic, On(c, t) PROVE TypeOK'
  <2>1. <<t>> \in Seq(Topic)
    OBVIOUS
  <2> QED BY <1>5, <1>7, <2>1 DEF On
<1>8. ASSUME NEW c \in Subscriber, HandleSignal(c) PROVE TypeOK'
  <2>1. Head(pipe[c]) \in Signal /\ Tail(pipe[c]) \in Seq(Signal)
    BY <1>8, HeadTailProperties DEF HandleSignal
  <2>2. cache' \in [Subscriber -> Known]
    BY <1>8, <2>1, StoredType DEF HandleSignal, Known
  <2> QED BY <1>8, <2>1, <2>2 DEF HandleSignal, Known
<1>9. ASSUME NEW c \in Subscriber, SubscriptionArrives(c) PROVE TypeOK'
  <2>1. Head(asked[c]) \in Topic /\ Tail(asked[c]) \in Seq(Topic)
    BY <1>9, HeadTailProperties DEF SubscriptionArrives, ArriveSubscription
  <2>2. Append(pending, Head(asked[c])) \in Seq(Topic)
    BY <2>1, AppendProperties
  <2> QED BY <1>9, <2>1, <2>2 DEF SubscriptionArrives, ArriveSubscription
<1>10. ASSUME NEW c \in Subscriber, ConnectionBreaks(c) PROVE TypeOK'
  <2>1. asked' \in [Subscriber -> Seq(Topic)]
    BY <1>10, RememberedAreTopics DEF ConnectionBreaks, Reconnect
  <2>2. pipe' \in [Subscriber -> Seq(Signal)]
    BY <1>10, ArrivedAreSignals DEF ConnectionBreaks, Reconnect
  <2> QED BY <1>10, <2>1, <2>2, PubSubAssumption DEF ConnectionBreaks, Reconnect
<1>11. CASE UNCHANGED vars
  BY <1>11 DEF vars, pubSubVars
<1> QED
  BY <1>1, <1>2, <1>3, <1>4, <1>6, <1>7, <1>8, <1>9, <1>10, <1>11 DEF Next

LEMMA TypeInit == ASSUME Init PROVE TypeOK
BY PubSubAssumption, EmptySeq DEF Init, PubSubInit, TypeOK, PubSubTypeOK, Value

\* Every variable keeps its type: nothing but signals of the protocol's topics with
\* values of theirs are on their way.
THEOREM TypeCorrect == Spec => []TypeOK
BY TypeInit, TypeStep, PTL DEF Spec

-----------------------------------------------------------------------------
(* SentInOrder: values rise along a connection.                            *)

LEMMA OrderInit == ASSUME Init PROVE SentInOrder
BY DEF Init, PubSubInit, SentInOrder, Rising, NoValue

LEMMA CachesAreKnown ==
  ASSUME TypeOK
  PROVE  cache \in [Subscriber -> Known] /\ value \in Present /\ pipe \in [Subscriber -> Seq(Signal)]
BY DEF TypeOK, PubSubTypeOK, Known, Present

\* The server's values rise: no cache is ahead.
LEMMA CachesBehind ==
  ASSUME TypeOK, TypeOK', SentInOrder, UNCHANGED cache, \A t \in Topic : value[t] <= value'[t]
  PROVE  \A c \in Subscriber, t \in Topic : cache'[c][t] <= value'[t]
<1> SUFFICES ASSUME NEW c \in Subscriber, NEW t \in Topic PROVE cache[c][t] <= value'[t]
  OBVIOUS
<1>1. cache[c][t] \in Nat /\ value[t] \in Nat /\ value'[t] \in Nat
  BY ValuesAreNumbers DEF TypeOK
<1>2. cache[c][t] <= value[t] /\ value[t] <= value'[t]
  BY DEF SentInOrder
<1> QED BY <1>1, <1>2

\* Publishing the present value, after it has risen or not, is in order.
LEMMA PublishKeepsOrder ==
  ASSUME TypeOK, TypeOK', SentInOrder, UNCHANGED cache, \A u \in Topic : value[u] <= value'[u],
         NEW t \in Topic, Publish(t, value'[t])
  PROVE  SentInOrder'
<1>1. \A c \in Subscriber, u \in Topic : cache'[c][u] <= value'[u]
  BY CachesBehind
<1>2. value' \in Present
  BY DEF TypeOK, Present
<1>3. ASSUME NEW c \in Subscriber PROVE Rising(pipe'[c], cache[c], value')
  <2>1. Rising(pipe[c], cache[c], value')
    BY <1>2, CachesAreKnown, RisingLater DEF SentInOrder
  <2>2. CASE pipe'[c] = pipe[c]
    BY <2>1, <2>2
  <2>3. CASE pipe'[c] = Append(pipe[c], [topic |-> t, val |-> value'[t]])
    <3>1. cache[c][t] <= value'[t]
      BY <1>1
    <3> QED BY <1>2, <2>1, <2>3, <3>1, CachesAreKnown, RisingAppend
  <2> QED BY <2>2, <2>3 DEF Publish
<1> QED BY <1>1, <1>3 DEF SentInOrder

\* Breaking connections, with values that have risen or not, is in order.
LEMMA BreakKeepsOrder ==
  ASSUME TypeOK, TypeOK', SentInOrder, UNCHANGED cache, \A u \in Topic : value[u] <= value'[u],
         \A c \in Subscriber : pipe'[c] = pipe[c] \/ pipe'[c] \in Prefixes(pipe[c])
  PROVE  SentInOrder'
<1>1. \A c \in Subscriber, u \in Topic : cache'[c][u] <= value'[u]
  BY CachesBehind
<1>2. value' \in Present
  BY DEF TypeOK, Present
<1>3. ASSUME NEW c \in Subscriber PROVE Rising(pipe'[c], cache[c], value')
  <2>1. CASE pipe'[c] = pipe[c]
    BY <1>2, <2>1, CachesAreKnown, RisingLater DEF SentInOrder
  <2>2. CASE pipe'[c] \in Prefixes(pipe[c])
    BY <1>2, <2>2, CachesAreKnown, RisingPrefix DEF SentInOrder
  <2> QED BY <2>1, <2>2
<1> QED BY <1>1, <1>3 DEF SentInOrder

\* A value or two values that do not change do not fall.
LEMMA ValuesStay == ASSUME TypeOK, UNCHANGED value PROVE \A t \in Topic : value[t] <= value'[t]
BY ValuesAreNumbers DEF TypeOK

\* What a client's cache becomes when it handles a signal.
LEMMA HandledSignal ==
  ASSUME TypeOK, SentInOrder, NEW c \in Subscriber, HandleSignal(c)
  PROVE  /\ Head(pipe[c]) \in Signal
         /\ cache'[c] \in Known
         /\ \A t \in Topic :
              cache'[c][t] = cache[c][t] \/ (t = Head(pipe[c]).topic /\ cache'[c][t] = Head(pipe[c]).val)
         /\ cache[c][Head(pipe[c]).topic] <= Head(pipe[c]).val
         /\ Head(pipe[c]).val <= value[Head(pipe[c]).topic]
<1>1. pipe[c] \in Seq(Signal) /\ pipe[c] # <<>>
  BY CachesAreKnown DEF HandleSignal
<1>2. Head(pipe[c]) \in Signal /\ Head(pipe[c]) = pipe[c][1] /\ 1 \in DOMAIN pipe[c]
  BY <1>1, HeadTailProperties, LenProperties, EmptySeq
<1>3. cache'[c] = Stored(c, Head(pipe[c]))
  BY DEF HandleSignal, TypeOK
<1>4. cache'[c] \in Known
  BY <1>2, <1>3, StoredType
<1>5. \A t \in Topic :
        cache'[c][t] = cache[c][t] \/ (t = Head(pipe[c]).topic /\ cache'[c][t] = Head(pipe[c]).val)
  BY <1>3 DEF Stored
<1>6. cache[c][pipe[c][1].topic] <= pipe[c][1].val /\ pipe[c][1].val <= value[pipe[c][1].topic]
  BY <1>2 DEF SentInOrder, Rising
<1> QED BY <1>2, <1>4, <1>5, <1>6

LEMMA OrderStep == ASSUME TypeOK, TypeOK', SentInOrder, [Next]_vars PROVE SentInOrder'
<1>1. ASSUME NEW t \in Topic, SetValue(t) PROVE SentInOrder'
  <2>1. value'[t] = value[t] + 1 /\ UNCHANGED cache
    BY <1>1 DEF SetValue, TypeOK
  <2>2. \A u \in Topic : value[u] <= value'[u]
    BY <1>1, ValuesAreNumbers DEF SetValue, TypeOK
  <2>3. Publish(t, value'[t])
    BY <1>1, <2>1 DEF SetValue, EmitChanged
  <2> QED BY <2>1, <2>2, <2>3, PublishKeepsOrder
<1>2. CASE HandleSubscription
  <2>1. UNCHANGED <<value, cache>> /\ \A u \in Topic : value[u] <= value'[u]
    BY <1>2, ValuesStay DEF HandleSubscription, syncVars
  <2>2. CASE Head(pending) \in Announced
    <3>1. Head(pending) \in Topic /\ Publish(Head(pending), value'[Head(pending)])
      BY <1>2, <2>1, <2>2, SyncAssumption DEF HandleSubscription, EmitChanged
    <3> QED BY <2>1, <3>1, PublishKeepsOrder
  <2>3. CASE Head(pending) \notin Announced
    <3>1. pipe' = pipe
      BY <1>2, <2>3 DEF HandleSubscription
    <3> QED BY <2>1, <3>1, BreakKeepsOrder
  <2> QED BY <2>2, <2>3
<1>3. CASE StopServer
  <2>1. \A u \in Topic : value[u] <= value'[u]
    BY <1>3, ValuesAreNumbers DEF StopServer, TypeOK
  <2> QED BY <1>3, <2>1, BreakKeepsOrder DEF StopServer, Unbind
<1>4. ASSUME UNCHANGED <<value, cache, pipe>> PROVE SentInOrder'
  BY <1>4, ValuesStay, BreakKeepsOrder
<1>5. CASE StartServer
  BY <1>4, <1>5 DEF StartServer, Bind, syncVars
<1>6. ASSUME NEW c \in Subscriber, QtOpen(c) \/ SubscriptionArrives(c) \/ \E t \in Topic : On(c, t)
      PROVE  SentInOrder'
  BY <1>4, <1>6 DEF QtOpen, On, Subscribe, SubscriptionArrives, ArriveSubscription, syncVars
<1>7. ASSUME NEW c \in Subscriber, HandleSignal(c) PROVE SentInOrder'
  <2> DEFINE s == Head(pipe[c])
  <2>1. /\ s \in Signal /\ cache'[c] \in Known
        /\ \A t \in Topic : cache'[c][t] = cache[c][t] \/ (t = s.topic /\ cache'[c][t] = s.val)
        /\ s.val <= value[s.topic]
    BY <1>7, HandledSignal
  <2>2. UNCHANGED value /\ pipe[c] # <<>> /\ pipe' = [pipe EXCEPT ![c] = Tail(@)]
    BY <1>7 DEF HandleSignal
  <2>3. Rising(Tail(pipe[c]), cache'[c], value)
    BY <2>1, <2>2, CachesAreKnown, RisingTail DEF SentInOrder
  <2>4. \A t \in Topic : cache'[c][t] <= value[t]
    BY <2>1 DEF SentInOrder
  <2>5. ASSUME NEW d \in Subscriber, d # c PROVE cache'[d] = cache[d] /\ pipe'[d] = pipe[d]
    BY <1>7, <2>5 DEF HandleSignal, TypeOK, PubSubTypeOK
  <2>6. pipe'[c] = Tail(pipe[c])
    BY <2>2, CachesAreKnown
  <2> HIDE DEF s
  <2> QED BY <2>2, <2>3, <2>4, <2>5, <2>6 DEF SentInOrder
<1>8. ASSUME NEW c \in Subscriber, ConnectionBreaks(c) PROVE SentInOrder'
  <2>1. UNCHANGED <<value, cache>>
    BY <1>8 DEF ConnectionBreaks, syncVars
  <2>2. \A d \in Subscriber : pipe'[d] = pipe[d] \/ pipe'[d] \in Prefixes(pipe[d])
    BY <1>8 DEF ConnectionBreaks, Reconnect, TypeOK, PubSubTypeOK
  <2> QED BY <2>1, <2>2, ValuesStay, BreakKeepsOrder
<1>9. CASE UNCHANGED vars
  BY <1>4, <1>9 DEF vars, pubSubVars, syncVars
<1> QED
  BY <1>1, <1>2, <1>3, <1>5, <1>6, <1>7, <1>8, <1>9 DEF Next

\* On every connection the values of a property rise from the client's to the server's.
THEOREM ValuesRise == Spec => [](TypeOK /\ SentInOrder)
<1>1. TypeOK /\ SentInOrder /\ [Next]_vars => TypeOK' /\ SentInOrder'
  BY TypeStep, OrderStep
<1> QED BY <1>1, TypeInit, OrderInit, PTL DEF Spec

-----------------------------------------------------------------------------
(* UpToDate: where the client's next value of a property comes from.       *)

\* What a client that has a value of t before it takes the signals p has after them.
EndsWith(p, has, t, v) ==
  \/ \E k \in DOMAIN p : p[k] = [topic |-> t, val |-> v] /\ \A j \in DOMAIN p : j > k => p[j].topic # t
  \/ has = v /\ \A j \in DOMAIN p : p[j].topic # t

LEMMA WillHaveEnds ==
  ASSUME NEW c, NEW t, NEW v
  PROVE  WillHave(c, t, v) <=> EndsWith(pipe[c], cache[c][t], t, v)
BY DEF WillHave, EndsWith

LEMMA AppendedSignal ==
  ASSUME NEW p \in Seq(Signal), NEW s \in Signal
  PROVE  /\ DOMAIN Append(p, s) = 1..(Len(p) + 1) /\ DOMAIN p = 1..Len(p) /\ Len(p) \in Nat
         /\ Append(p, s)[Len(p) + 1] = s
         /\ \A k \in DOMAIN p : Append(p, s)[k] = p[k]
BY AppendProperties, LenProperties

\* A signal of the property itself decides, one of another property does not.
LEMMA EndsWithOwn ==
  ASSUME NEW p \in Seq(Signal), NEW has, NEW t \in Topic, NEW v \in Value
  PROVE  EndsWith(Append(p, [topic |-> t, val |-> v]), has, t, v)
<1> DEFINE s == [topic |-> t, val |-> v]
           q == Append(p, s)
           n == Len(p) + 1
<1>1. s \in Signal
  BY DEF Signal
<1>2. n \in DOMAIN q /\ q[n] = s /\ \A j \in DOMAIN q : ~(j > n)
  BY <1>1, AppendedSignal
<1> QED BY <1>2 DEF EndsWith

LEMMA EndsWithOther ==
  ASSUME NEW p \in Seq(Signal), NEW has, NEW t, NEW v, EndsWith(p, has, t, v),
         NEW s \in Signal, s.topic # t
  PROVE  EndsWith(Append(p, s), has, t, v)
<1> DEFINE q == Append(p, s)
           n == Len(p) + 1
<1>1. /\ n \in DOMAIN q /\ q[n] = s
      /\ \A k \in DOMAIN p : k \in DOMAIN q /\ q[k] = p[k] /\ k < n
      /\ \A k \in DOMAIN q : k \in DOMAIN p \/ k = n
  BY AppendedSignal
<1> HIDE DEF q, n
<1>2. CASE has = v /\ \A j \in DOMAIN p : p[j].topic # t
  BY <1>1, <1>2 DEF EndsWith, q
<1>3. ASSUME NEW k \in DOMAIN p, p[k] = [topic |-> t, val |-> v],
             \A j \in DOMAIN p : j > k => p[j].topic # t
      PROVE  EndsWith(Append(p, s), has, t, v)
  <2>1. k \in DOMAIN q /\ q[k] = [topic |-> t, val |-> v]
    BY <1>1, <1>3
  <2>2. \A j \in DOMAIN q : j > k => q[j].topic # t
    BY <1>1, <1>3
  <2> QED BY <2>1, <2>2 DEF EndsWith, q
<1> QED BY <1>2, <1>3 DEF EndsWith

\* A client that stores the first signal, if it is of the property, ends with the same.
LEMMA EndsWithTail ==
  ASSUME NEW p \in Seq(Signal), p # <<>>, NEW has, NEW t, NEW v, EndsWith(p, has, t, v),
         NEW has2, has2 = IF Head(p).topic = t THEN Head(p).val ELSE has
  PROVE  EndsWith(Tail(p), has2, t, v)
<1> DEFINE q == Tail(p)
<1>1. /\ Len(p) \in Nat \ {0} /\ Head(p) = p[1] /\ DOMAIN p = 1..Len(p)
      /\ DOMAIN q = 1..(Len(p) - 1) /\ \A k \in DOMAIN q : q[k] = p[k + 1]
  BY HeadTailProperties, LenProperties, EmptySeq
<1>2. 1 \in DOMAIN p /\ \A k \in DOMAIN q : k \in Nat /\ k + 1 \in DOMAIN p /\ k + 1 > 1
  BY <1>1
<1> HIDE DEF q
<1>3. CASE has = v /\ \A j \in DOMAIN p : p[j].topic # t
  <2>1. has2 = v /\ \A j \in DOMAIN q : q[j].topic # t
    BY <1>1, <1>2, <1>3
  <2> QED BY <2>1 DEF EndsWith, q
<1>4. ASSUME NEW k \in DOMAIN p, p[k] = [topic |-> t, val |-> v],
             \A j \in DOMAIN p : j > k => p[j].topic # t
      PROVE  EndsWith(Tail(p), has2, t, v)
  <2>1. CASE k = 1
    <3>1. has2 = v
      BY <1>1, <1>4, <2>1
    <3>2. \A j \in DOMAIN q : q[j].topic # t
      BY <1>1, <1>2, <1>4, <2>1
    <3> QED BY <3>1, <3>2 DEF EndsWith, q
  <2>2. CASE k # 1
    <3>1. k - 1 \in DOMAIN q /\ (k - 1) + 1 = k
      BY <1>1, <1>4, <2>2
    <3>2. q[k - 1] = [topic |-> t, val |-> v]
      BY <1>1, <1>4, <3>1
    <3>3. \A j \in DOMAIN q : j > k - 1 => q[j].topic # t
      <4> SUFFICES ASSUME NEW j \in DOMAIN q, j > k - 1 PROVE q[j].topic # t
        OBVIOUS
      <4>1. j + 1 > k
        BY <1>1, <1>2, <1>4
      <4> QED BY <1>1, <1>2, <1>4, <4>1
    <3> QED BY <3>1, <3>2, <3>3 DEF EndsWith, q
  <2> QED BY <2>1, <2>2
<1> QED BY <1>3, <1>4 DEF EndsWith

\* What the server filters and what is on its way there are subscriptions of the client.
Subscribed ==
  \A c \in Subscriber :
    /\ filter[c] \subseteq wanted[c]
    /\ \A k \in DOMAIN asked[c] : asked[c][k] \in wanted[c]

LEMMA RememberedAreWanted ==
  ASSUME TypeOK, NEW c \in Subscriber, NEW again \in Remembered(c)
  PROVE  \A k \in DOMAIN again : again[k] \in wanted[c]
<1>1. wanted[c] \in SUBSET Topic
  BY DEF TypeOK, PubSubTypeOK
<1>2. again \in [1..Cardinality(wanted[c]) -> wanted[c]]
  BY DEF Remembered, SetToSeqs
<1> QED BY <1>2

LEMMA SubscribedStep == ASSUME TypeOK, Subscribed, [Next]_vars PROVE Subscribed'
<1> USE DEF Subscribed
<1>1. ASSUME UNCHANGED <<filter, wanted, asked>> PROVE Subscribed'
  BY <1>1
<1>2. ASSUME NEW t \in Topic, SetValue(t) PROVE Subscribed'
  BY <1>1, <1>2 DEF SetValue
<1>3. CASE HandleSubscription
  BY <1>1, <1>3 DEF HandleSubscription
<1>4. CASE StopServer
  BY <1>4, RememberedAreWanted DEF StopServer, Unbind
<1>5. CASE StartServer
  BY <1>1, <1>5 DEF StartServer, Bind
<1>6. ASSUME NEW c \in Subscriber, NEW topics \in Seq(Topic), Subscribe(c, topics) PROVE Subscribed'
  <2>1. wanted'[c] = wanted[c] \cup {topics[k] : k \in DOMAIN topics} /\ asked'[c] = asked[c] \o topics
    BY <1>6 DEF Subscribe, TypeOK, PubSubTypeOK
  <2>2. \A d \in Subscriber : d # c => wanted'[d] = wanted[d] /\ asked'[d] = asked[d]
    BY <1>6 DEF Subscribe, TypeOK, PubSubTypeOK
  <2>3. asked[c] \in Seq(Topic)
    BY DEF TypeOK, PubSubTypeOK
  <2>4. ASSUME NEW k \in DOMAIN asked'[c] PROVE asked'[c][k] \in wanted'[c]
    <3>1. /\ DOMAIN asked'[c] = 1..(Len(asked[c]) + Len(topics))
          /\ asked'[c][k] = IF k <= Len(asked[c]) THEN asked[c][k] ELSE topics[k - Len(asked[c])]
          /\ Len(asked[c]) \in Nat /\ Len(topics) \in Nat
      BY <2>1, <2>3, ConcatProperties, LenProperties
    <3>2. k \in DOMAIN asked[c] \/ (~(k <= Len(asked[c])) /\ k - Len(asked[c]) \in DOMAIN topics)
      BY <2>3, <2>4, <3>1, LenProperties
    <3>3. CASE k <= Len(asked[c])
      <4>1. k \in DOMAIN asked[c]
        BY <2>3, <2>4, <3>1, <3>3, LenProperties
      <4> QED BY <2>1, <3>1, <3>3, <4>1
    <3>4. CASE ~(k <= Len(asked[c]))
      <4>1. k - Len(asked[c]) \in DOMAIN topics
        BY <2>4, <3>1, <3>4, LenProperties
      <4> QED BY <2>1, <3>1, <3>4, <4>1
    <3> QED BY <3>3, <3>4
  <2>5. filter' = filter
    BY <1>6 DEF Subscribe
  <2> QED BY <2>1, <2>2, <2>4, <2>5
<1>7. ASSUME NEW c \in Subscriber, QtOpen(c) PROVE Subscribed'
  BY <1>6, <1>7, PubSubAssumption DEF QtOpen
<1>8. ASSUME NEW c \in Subscriber, NEW t \in Topic, On(c, t) PROVE Subscribed'
  <2>1. <<t>> \in Seq(Topic)
    OBVIOUS
  <2> QED BY <1>6, <1>8, <2>1 DEF On
<1>9. ASSUME NEW c \in Subscriber, HandleSignal(c) PROVE Subscribed'
  BY <1>1, <1>9 DEF HandleSignal
<1>10. ASSUME NEW c \in Subscriber, SubscriptionArrives(c) PROVE Subscribed'
  <2>1. asked[c] \in Seq(Topic) /\ asked[c] # <<>>
    BY <1>10 DEF SubscriptionArrives, ArriveSubscription, TypeOK, PubSubTypeOK
  <2>2. /\ Head(asked[c]) = asked[c][1] /\ 1 \in DOMAIN asked[c]
        /\ \A k \in DOMAIN Tail(asked[c]) : k + 1 \in DOMAIN asked[c] /\ Tail(asked[c])[k] = asked[c][k + 1]
    BY <2>1, HeadTailProperties, LenProperties, EmptySeq
  <2>3. /\ wanted' = wanted /\ asked'[c] = Tail(asked[c]) /\ filter'[c] = filter[c] \cup {Head(asked[c])}
        /\ \A d \in Subscriber : d # c => filter'[d] = filter[d] /\ asked'[d] = asked[d]
    BY <1>10 DEF SubscriptionArrives, ArriveSubscription, TypeOK, PubSubTypeOK
  <2>4. filter'[c] \subseteq wanted'[c]
    BY <2>2, <2>3
  <2>5. \A k \in DOMAIN asked'[c] : asked'[c][k] \in wanted'[c]
    BY <2>2, <2>3
  <2> HIDE DEF Subscribed
  <2>6. \A d \in Subscriber : d # c =>
          filter'[d] \subseteq wanted'[d] /\ \A k \in DOMAIN asked'[d] : asked'[d][k] \in wanted'[d]
    BY <2>3 DEF Subscribed
  <2> QED BY <2>4, <2>5, <2>6 DEF Subscribed
<1>11. ASSUME NEW c \in Subscriber, ConnectionBreaks(c) PROVE Subscribed'
  <2>1. PICK again \in Remembered(c) : asked' = [asked EXCEPT ![c] = again]
    BY <1>11 DEF ConnectionBreaks, Reconnect
  <2>2. /\ wanted' = wanted /\ asked'[c] = again /\ filter'[c] = {}
        /\ \A d \in Subscriber : d # c => filter'[d] = filter[d] /\ asked'[d] = asked[d]
    BY <1>11, <2>1 DEF ConnectionBreaks, Reconnect, TypeOK, PubSubTypeOK
  <2> QED BY <2>1, <2>2, RememberedAreWanted
<1>12. CASE UNCHANGED vars
  BY <1>1, <1>12 DEF vars, pubSubVars
<1> QED
  BY <1>2, <1>3, <1>4, <1>5, <1>7, <1>8, <1>9, <1>10, <1>11, <1>12 DEF Next

\* What UpToDate says of one client and one property.
Owed(c, t) ==
  \/ WillHave(c, t, value[t])
  \/ \E k \in DOMAIN pending : pending[k] = t
  \/ t \in dropped[c]

\* A value that is published is on its way, or known to be lost.
LEMMA PublishedIsOwed ==
  ASSUME TypeOK, NEW c \in Subscriber, NEW t \in Topic, t \in filter[c], Publish(t, value'[t]),
         value'[t] \in Value, UNCHANGED cache
  PROVE  WillHave(c, t, value[t])' \/ t \in dropped'[c]
<1>1. Reaches(c, t)
  BY PubSubAssumption DEF Reaches
<1>2. pipe[c] \in Seq(Signal)
  BY CachesAreKnown
<1>3. CASE Len(pipe[c]) < SubWater
  <2>1. pipe'[c] = Append(pipe[c], [topic |-> t, val |-> value'[t]])
    BY <1>1, <1>3 DEF Publish
  <2>2. EndsWith(pipe'[c], cache'[c][t], t, value'[t])
    BY <1>2, <2>1, EndsWithOwn
  <2> QED BY <2>2 DEF EndsWith, WillHave
<1>4. CASE ~(Len(pipe[c]) < SubWater)
  BY <1>1, <1>4 DEF Publish
<1> QED BY <1>3, <1>4

\* Values of other properties are not disturbed.
LEMMA PublishKeepsOthers ==
  ASSUME TypeOK, NEW c \in Subscriber, NEW t \in Topic, NEW v \in Value, Publish(t, v),
         NEW u \in Topic, u # t, UNCHANGED cache, value'[u] = value[u]
  PROVE  /\ WillHave(c, u, value[u]) => WillHave(c, u, value[u])'
         /\ u \in dropped[c] => u \in dropped'[c]
<1> DEFINE s == [topic |-> t, val |-> v]
<1>1. pipe[c] \in Seq(Signal) /\ s \in Signal /\ s.topic # u
  BY CachesAreKnown DEF Signal
<1>2. pipe'[c] = pipe[c] \/ pipe'[c] = Append(pipe[c], s)
  BY DEF Publish
<1>3. ASSUME WillHave(c, u, value[u]) PROVE WillHave(c, u, value[u])'
  <2>1. EndsWith(pipe[c], cache[c][u], u, value[u])
    BY <1>3, WillHaveEnds
  <2> HIDE DEF s
  <2>2. EndsWith(pipe'[c], cache'[c][u], u, value'[u])
    BY <1>1, <1>2, <2>1, EndsWithOther
  <2> QED BY <2>2 DEF EndsWith, WillHave
<1>4. u \in dropped[c] => u \in dropped'[c]
  BY DEF Publish
<1> QED BY <1>3, <1>4

LEMMA UpToDateStep == ASSUME TypeOK, TypeOK', Subscribed, UpToDate, [Next]_vars PROVE UpToDate'
<1>0. UpToDate <=> \A c \in Subscriber : \A t \in filter[c] \cap Announced : Owed(c, t)
  BY DEF UpToDate, Owed
<1>00. UpToDate' <=> \A c \in Subscriber : \A t \in filter'[c] \cap Announced : Owed(c, t)'
  BY DEF UpToDate, Owed
<1>01. /\ \A c \in Subscriber : filter[c] \subseteq Topic /\ pipe[c] \in Seq(Signal)
       /\ pending \in Seq(Topic)
  BY DEF TypeOK, PubSubTypeOK
<1>1. ASSUME UNCHANGED <<filter, pending, pipe, dropped, cache, value>> PROVE UpToDate'
  BY <1>0, <1>00, <1>1 DEF Owed, WillHave
<1>2. ASSUME NEW t \in Topic, SetValue(t) PROVE UpToDate'
  <2>1. /\ Publish(t, value'[t]) /\ value'[t] \in Value
        /\ \A u \in Topic : u # t => value'[u] = value[u]
        /\ UNCHANGED <<filter, pending, cache>>
    BY <1>2 DEF SetValue, EmitChanged, TypeOK
  <2> SUFFICES ASSUME NEW c \in Subscriber, NEW u \in filter[c] \cap Announced PROVE Owed(c, u)'
    BY <1>00, <2>1
  <2>2. CASE u = t
    BY <2>1, <2>2, PublishedIsOwed DEF Owed
  <2>3. CASE u # t
    <3>1. u \in Topic /\ Owed(c, u)
      BY <1>0, <1>01
    <3>2. /\ WillHave(c, u, value[u]) => WillHave(c, u, value[u])'
          /\ u \in dropped[c] => u \in dropped'[c]
      BY <2>1, <2>3, <3>1, PublishKeepsOthers
    <3> QED BY <2>1, <3>1, <3>2 DEF Owed
  <2> QED BY <2>2, <2>3
<1>3. CASE HandleSubscription
  <2> DEFINE t == Head(pending)
  <2>1. /\ pending # <<>> /\ pending' = Tail(pending) /\ UNCHANGED <<filter, value, cache>>
        /\ IF t \in Announced THEN Publish(t, value[t]) ELSE UNCHANGED <<pipe, dropped>>
    BY <1>3 DEF HandleSubscription, EmitChanged, syncVars
  <2>2. t \in Topic /\ \A k \in DOMAIN pending : pending[k] = t \/ \E j \in DOMAIN pending' : pending'[j] = pending[k]
    <3>1. /\ Head(pending) = pending[1] /\ Len(pending) \in Nat \ {0} /\ DOMAIN pending = 1..Len(pending)
          /\ DOMAIN Tail(pending) = 1..(Len(pending) - 1)
          /\ \A j \in DOMAIN Tail(pending) : Tail(pending)[j] = pending[j + 1]
      BY <1>01, <2>1, HeadTailProperties, LenProperties, EmptySeq
    <3>2. ASSUME NEW k \in DOMAIN pending, k # 1 PROVE \E j \in DOMAIN pending' : pending'[j] = pending[k]
      <4>1. k - 1 \in DOMAIN Tail(pending) /\ (k - 1) + 1 = k
        BY <3>1, <3>2
      <4> QED BY <2>1, <3>1, <4>1
    <3>3. pending[1] \in Topic
      BY <1>01, <3>1, ElementOfSeq
    <3> QED BY <3>1, <3>2, <3>3
  <2> HIDE DEF t
  <2> SUFFICES ASSUME NEW c \in Subscriber, NEW u \in filter[c] \cap Announced PROVE Owed(c, u)'
    BY <1>00, <2>1
  <2>3. u \in Topic /\ Owed(c, u) /\ value[u] \in Value
    BY <1>0, <1>01 DEF TypeOK
  <2>4. CASE u = t
    BY <2>1, <2>3, <2>4, PublishedIsOwed DEF Owed
  <2>5. CASE u # t /\ t \in Announced
    <3>1. /\ WillHave(c, u, value[u]) => WillHave(c, u, value[u])'
          /\ u \in dropped[c] => u \in dropped'[c]
      <4>1. value[t] \in Value /\ Publish(t, value[t])
        BY <2>1, <2>2, <2>5 DEF TypeOK
      <4> QED BY <2>1, <2>2, <2>3, <2>5, <4>1, PublishKeepsOthers
    <3> QED BY <2>2, <2>3, <2>5, <3>1 DEF Owed
  <2>6. CASE u # t /\ t \notin Announced
    <3>1. UNCHANGED <<pipe, dropped>>
      BY <2>1, <2>6
    <3> QED BY <2>1, <2>2, <2>3, <2>6, <3>1 DEF Owed, WillHave
  <2> QED BY <2>4, <2>5, <2>6
<1>4. CASE StopServer
  BY <1>00, <1>4 DEF StopServer, Unbind
<1>5. CASE StartServer
  BY <1>1, <1>5 DEF StartServer, Bind, syncVars
<1>6. ASSUME NEW c \in Subscriber, QtOpen(c) \/ \E t \in Topic : On(c, t) PROVE UpToDate'
  BY <1>1, <1>6 DEF QtOpen, On, Subscribe, syncVars
<1>7. ASSUME NEW c \in Subscriber, HandleSignal(c) PROVE UpToDate'
  <2> DEFINE s == Head(pipe[c])
  <2>1. /\ pipe[c] # <<>> /\ pipe'[c] = Tail(pipe[c]) /\ cache'[c] = Stored(c, s)
        /\ \A d \in Subscriber : d # c => pipe'[d] = pipe[d] /\ cache'[d] = cache[d]
        /\ UNCHANGED <<filter, pending, dropped, value>>
    BY <1>7 DEF HandleSignal, TypeOK, PubSubTypeOK
  <2> SUFFICES ASSUME NEW d \in Subscriber, NEW u \in filter[d] \cap Announced PROVE Owed(d, u)'
    BY <1>00, <2>1
  <2>2. Owed(d, u) /\ u \in Topic /\ u \in wanted[d]
    BY <1>0, <1>01 DEF Subscribed
  <2>3. CASE d = c
    <3>1. cache'[c][u] = IF s.topic = u THEN s.val ELSE cache[c][u]
      BY <2>1, <2>2, <2>3 DEF Stored
    <3>2. ASSUME WillHave(c, u, value[u]) PROVE WillHave(c, u, value[u])'
      <4>1. EndsWith(pipe[c], cache[c][u], u, value[u])
        BY <3>2, WillHaveEnds
      <4>2. EndsWith(Tail(pipe[c]), cache'[c][u], u, value[u])
        BY <1>01, <2>1, <3>1, <4>1, EndsWithTail
      <4>3. EndsWith(pipe'[c], cache'[c][u], u, value'[u])
        BY <2>1, <4>2
      <4> QED BY <4>3 DEF EndsWith, WillHave
    <3> QED BY <2>1, <2>2, <2>3, <3>2 DEF Owed
  <2>4. CASE d # c
    BY <2>1, <2>2, <2>4 DEF Owed, WillHave
  <2> QED BY <2>3, <2>4
<1>8. ASSUME NEW c \in Subscriber, SubscriptionArrives(c) PROVE UpToDate'
  <2> DEFINE t == Head(asked[c])
  <2>1. /\ filter'[c] = filter[c] \cup {t} /\ pending' = Append(pending, t)
        /\ \A d \in Subscriber : d # c => filter'[d] = filter[d]
        /\ UNCHANGED <<pipe, dropped, cache, value>>
    BY <1>8 DEF SubscriptionArrives, ArriveSubscription, syncVars, TypeOK, PubSubTypeOK
  <2>2. t \in Topic
    BY <1>8, HeadTailProperties DEF SubscriptionArrives, ArriveSubscription, TypeOK, PubSubTypeOK
  <2> HIDE DEF t
  <2>3. /\ \A k \in DOMAIN pending : k \in DOMAIN pending' /\ pending'[k] = pending[k]
        /\ Len(pending) + 1 \in DOMAIN pending' /\ pending'[Len(pending) + 1] = t
    BY <1>01, <2>1, <2>2, AppendProperties, LenProperties
  <2> SUFFICES ASSUME NEW d \in Subscriber, NEW u \in filter'[d] \cap Announced PROVE Owed(d, u)'
    BY <1>00
  <2>4. CASE u = t
    BY <2>3, <2>4 DEF Owed
  <2>5. CASE u # t
    <3>1. Owed(d, u)
      BY <1>0, <2>1, <2>5
    <3> QED BY <2>1, <2>3, <3>1 DEF Owed, WillHave
  <2> QED BY <2>4, <2>5
<1>9. ASSUME NEW c \in Subscriber, ConnectionBreaks(c) PROVE UpToDate'
  <2>1. /\ filter'[c] = {}
        /\ \A d \in Subscriber : d # c => filter'[d] = filter[d] /\ pipe'[d] = pipe[d] /\ dropped'[d] = dropped[d]
        /\ UNCHANGED <<pending, cache, value>>
    BY <1>9 DEF ConnectionBreaks, Reconnect, syncVars, TypeOK, PubSubTypeOK
  <2> SUFFICES ASSUME NEW d \in Subscriber, NEW u \in filter'[d] \cap Announced PROVE Owed(d, u)'
    BY <1>00
  <2>2. d # c /\ Owed(d, u)
    BY <1>0, <2>1
  <2> QED BY <2>1, <2>2 DEF Owed, WillHave
<1>10. CASE UNCHANGED vars
  BY <1>1, <1>10 DEF vars, pubSubVars, syncVars
<1> QED
  BY <1>2, <1>3, <1>4, <1>5, <1>6, <1>7, <1>8, <1>9, <1>10 DEF Next

LEMMA UpToDateInit == ASSUME Init PROVE Subscribed /\ UpToDate
BY DEF Init, PubSubInit, Subscribed, UpToDate

\* A client whose subscription got through has the server's value, or it is on its way,
\* or the server has still to answer, or the client's pipe was full: for any clients,
\* properties and prefixes of topics, whatever connections and servers fail.
THEOREM SubscribersAreUpToDate == Spec => []UpToDate
<1>1. TypeOK /\ TypeOK' /\ Subscribed /\ UpToDate /\ [Next]_vars => Subscribed' /\ UpToDate'
  BY SubscribedStep, UpToDateStep
<1>2. Init => Subscribed /\ UpToDate
  BY UpToDateInit
<1> QED BY <1>1, <1>2, TypeCorrect, PTL DEF Spec

-----------------------------------------------------------------------------
(* The refinement.                                                         *)

LEMMA RegisterStep ==
  ASSUME TypeOK, SentInOrder, [Next]_vars
  PROVE  [Register!Next]_Register!vars
<1> USE DEF Register!vars
<1>1. ASSUME NEW t \in Topic, SetValue(t) PROVE Register!Change({t})
  BY <1>1 DEF SetValue, Register!Change, TypeOK
<1>2. CASE HandleSubscription
  BY <1>2 DEF HandleSubscription, syncVars
<1>3. ASSUME StopServer PROVE Register!Change(Topic)
  BY <1>3 DEF StopServer, Register!Change
<1>4. CASE StartServer
  BY <1>4 DEF StartServer, syncVars
<1>5. ASSUME NEW c \in Subscriber,
             QtOpen(c) \/ SubscriptionArrives(c) \/ ConnectionBreaks(c) \/ \E t \in Topic : On(c, t)
      PROVE  UNCHANGED <<value, cache>>
  BY <1>5 DEF QtOpen, On, SubscriptionArrives, ConnectionBreaks, syncVars
<1>6. ASSUME NEW c \in Subscriber, HandleSignal(c) PROVE [Register!Next]_Register!vars
  <2> DEFINE s == Head(pipe[c])
  <2>1. /\ s \in Signal
        /\ cache[c][s.topic] <= s.val /\ s.val <= value[s.topic]
    BY <1>6, HandledSignal
  <2>2. UNCHANGED value /\ cache' = [cache EXCEPT ![c] = Stored(c, s)]
    BY <1>6 DEF HandleSignal
  <2>3. s.topic \in Topic /\ s.val \in Nat /\ cache[c][s.topic] \in Nat /\ value[s.topic] \in Nat
    BY <2>1, ValuesAreNumbers DEF Signal, TypeOK
  <2>4. s.val \in cache[c][s.topic]..value[s.topic]
    BY <2>1, <2>3
  <2>5. CASE s.topic \in wanted[c]
    <3>1. Stored(c, s) = [cache[c] EXCEPT ![s.topic] = s.val]
      BY <2>5 DEF Stored, TypeOK
    <3>2. cache' = [cache EXCEPT ![c][s.topic] = s.val]
      BY <2>2, <3>1
    <3>3. Register!Learn(c, s.topic)
      BY <2>2, <2>4, <3>2 DEF Register!Learn
    <3> QED BY <2>3, <3>3 DEF Register!Next
  <2>6. CASE s.topic \notin wanted[c]
    <3>1. Stored(c, s) = cache[c]
      BY <2>6 DEF Stored, TypeOK
    <3>2. cache' = cache
      BY <2>2, <3>1 DEF TypeOK
    <3> QED BY <2>2, <3>2
  <2> QED BY <2>5, <2>6
<1>7. CASE UNCHANGED vars
  BY <1>7 DEF vars, syncVars
<1>8. Topic \in SUBSET Topic /\ \A t \in Topic : {t} \in SUBSET Topic
  OBVIOUS
<1> QED
  BY <1>1, <1>2, <1>3, <1>4, <1>5, <1>6, <1>7, <1>8 DEF Next, Register!Next

\* The properties of the server and the caches of its clients are a register: what a
\* client has is never ahead of the server and never goes back, though signals are
\* lost with connections, with servers and in full pipes.
THEOREM SyncImplementsRegister == Spec => ImplementsRegister
<1>1. Init => Register!Init
  BY DEF Init, Register!Init, NoValue, Register!NoValue
<1>2. TypeOK /\ SentInOrder /\ [Next]_vars => [Register!Next]_Register!vars
  BY RegisterStep
<1> QED BY <1>1, <1>2, ValuesRise, PTL DEF Spec, ImplementsRegister, Register!Spec

=============================================================================
