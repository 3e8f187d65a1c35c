--------------------------- MODULE FramingProofs ----------------------------
(***************************************************************************)
(* HandlersMatch and NothingSkipped, for interfaces of any methods and any *)
(* number of requests.  The argument: whatever the server takes off the    *)
(* stream is exactly one message, so the stream stays a sequence of whole  *)
(* messages in the order of the requests (FramingInv).  CallbacksMatch and *)
(* LossIsLocal, for any signals: the stream of a signal client is without  *)
(* a gap, at most its first key missing (SignalInv), so that a client out  *)
(* of step finds the next key, unless the exception ended it.              *)
(***************************************************************************)
EXTENDS Wire, SequenceTheorems, TLAPS

\* What is joined keeps its places.
LEMMA JoinedSequences ==
  ASSUME NEW S, NEW s \in Seq(S), NEW t \in Seq(S)
  PROVE  /\ s \o t \in Seq(S) /\ Len(s \o t) = Len(s) + Len(t)
         /\ \A k \in DOMAIN s : (s \o t)[k] = s[k]
         /\ \A k \in DOMAIN t : (s \o t)[Len(s) + k] = t[k]
  <1>1. /\ s \o t \in Seq(S) /\ Len(s \o t) = Len(s) + Len(t)
        /\ \A i \in 1..(Len(s) + Len(t)) : (s \o t)[i] = IF i <= Len(s) THEN s[i] ELSE t[i - Len(s)]
    BY ConcatProperties
  <1>2. Len(s) \in Nat /\ Len(t) \in Nat /\ DOMAIN s = 1..Len(s) /\ DOMAIN t = 1..Len(t)
    OBVIOUS
  <1>3. ASSUME NEW k \in DOMAIN t PROVE (s \o t)[Len(s) + k] = t[k]
    <2>1. Len(s) + k \in 1..(Len(s) + Len(t)) /\ ~(Len(s) + k <= Len(s)) /\ (Len(s) + k) - Len(s) = k
      BY <1>2
    <2> QED  BY <2>1, <1>1
  <1> QED  BY <1>1, <1>2, <1>3

\* What is left after the first n keeps its order.
LEMMA RestOfSequence ==
  ASSUME NEW S, NEW s \in Seq(S), NEW n \in Nat, n <= Len(s)
  PROVE  LET r == SubSeq(s, n + 1, Len(s))
         IN r \in Seq(S) /\ Len(r) = Len(s) - n /\ \A k \in 1..Len(r) : r[k] = s[k + n]
  <1>1. Len(s) \in Nat /\ n + 1 \in Int /\ \A i \in (n + 1)..Len(s) : s[i] \in S
    OBVIOUS
  <1> DEFINE r == SubSeq(s, n + 1, Len(s))
  <1>2. /\ r \in Seq(S)
        /\ Len(r) = IF n + 1 <= Len(s) THEN Len(s) - (n + 1) + 1 ELSE 0
        /\ \A i \in 1..(Len(s) - (n + 1) + 1) : r[i] = s[(n + 1) + i - 1]
    BY <1>1, SubSeqProperties
  <1>3. Len(r) = Len(s) - n
    BY <1>1, <1>2
  <1>4. ASSUME NEW k \in 1..Len(r) PROVE r[k] = s[k + n]
    <2>1. k \in 1..(Len(s) - (n + 1) + 1) /\ (n + 1) + k - 1 = k + n
      BY <1>1, <1>3
    <2> QED  BY <2>1, <1>2
  <1> QED  BY <1>2, <1>3, <1>4

\* Everything the invariant and the properties are made of.
Inv == FramingInv /\ HandlersMatch /\ NothingSkipped

LEMMA PairingsTyped ==
  ASSUME peers \in Pairings
  PROVE  /\ peers.lang \in {"python", "cpp"}
         /\ SentMethod \subseteq Method /\ ServedMethod \subseteq Method
         /\ \A m \in SentMethod : Sends[m] \in {"payload", "void"}
         /\ \A m \in ServedMethod : Serves[m] \in {"payload", "void"}
  <1>1. peers \in [lang : {"python", "cpp"}, sends : Interface, serves : Interface]
    BY FramingAssumption
  <1>2. peers.lang \in {"python", "cpp"} /\ peers.sends \in Interface /\ peers.serves \in Interface
    BY <1>1
  <1>3. ASSUME NEW i \in Interface
        PROVE  DOMAIN i \subseteq Method /\ \A m \in DOMAIN i : i[m] \in {"payload", "void"}
    BY DEF Interface
  <1> QED  BY <1>2, <1>3 DEF SentMethod, ServedMethod, Sends, Serves

LEMMA InitInv == Init => Inv
  <1> SUFFICES ASSUME Init PROVE Inv
    OBVIOUS
  <1>1. TypeOK
    BY FramingAssumption DEF Init, TypeOK
  <1> QED
    BY <1>1 DEF Init, Inv, FramingInv, HandlersMatch, NothingSkipped, Aligned, FramesInOrder,
                RanBefore, NextRequest

-----------------------------------------------------------------------------
(* A request is sent.                                                      *)

LEMMA FramesTyped ==
  ASSUME peers \in Pairings, NEW i \in RequestId, NEW m \in SentMethod
  PROVE  LET s == Frames(i, m)
         IN /\ s \in Seq(Frame)
            /\ Len(s) = IF Sends[m] = "payload" THEN 3 ELSE 2
            /\ s[1] = [kind |-> "route", request |-> i, method |-> m]
            /\ s[2] = [kind |-> "coord", request |-> i, method |-> m]
            /\ Sends[m] = "payload" => s[3] = [kind |-> "payload", request |-> i, method |-> m]
  <1>1. m \in Method
    BY PairingsTyped
  <1>2. \A kind \in {"route", "coord", "payload"} : [kind |-> kind, request |-> i, method |-> m] \in Frame
    BY <1>1 DEF Frame
  <1>3. CASE Sends[m] = "payload"
    BY <1>2, <1>3 DEF Frames
  <1>4. CASE Sends[m] # "payload"
    BY <1>2, <1>4 DEF Frames
  <1> QED  BY <1>3, <1>4

LEMMA SendRequestInv ==
  ASSUME Inv, NEW m \in SentMethod, SendRequest(m)
  PROVE  Inv'
  <1> DEFINE n == Len(asked) + 1
             s == Frames(n, m)
  <1>1. /\ peers \in Pairings /\ asked \in Seq(SentMethod) /\ stream \in Seq(Frame) /\ ran \in Seq(Run)
        /\ Len(asked) < MaxRequests /\ MaxRequests \in Nat /\ n \in RequestId
        /\ peers' = peers /\ ran' = ran /\ asked' = Append(asked, m) /\ stream' = stream \o s
    BY FramingAssumption DEF Inv, FramingInv, TypeOK, SendRequest, RequestId
  <1>2. /\ s \in Seq(Frame)
        /\ Len(s) = IF Sends[m] = "payload" THEN 3 ELSE 2
        /\ s[1] = [kind |-> "route", request |-> n, method |-> m]
        /\ s[2] = [kind |-> "coord", request |-> n, method |-> m]
        /\ Sends[m] = "payload" => s[3] = [kind |-> "payload", request |-> n, method |-> m]
    <2> HIDE DEF n
    <2> QED  BY <1>1, FramesTyped
  <1>3. Sends[m] \in {"payload", "void"}
    BY <1>1, PairingsTyped
  <1> HIDE DEF s
  <1>4. /\ Sends' = Sends /\ Serves' = Serves /\ SentMethod' = SentMethod /\ ServedMethod' = ServedMethod
        /\ GetAlong' = GetAlong
    BY <1>1 DEF Sends, Serves, SentMethod, ServedMethod, GetAlong, Compatible
  <1>5. /\ Len(asked') = n /\ asked'[n] = m
        /\ \A i \in DOMAIN asked : i \in DOMAIN asked' /\ asked'[i] = asked[i] /\ i < n
        /\ DOMAIN asked' = 1..n
    BY <1>1
  <1>6. /\ Len(stream') = Len(stream) + Len(s)
        /\ \A k \in DOMAIN stream : stream'[k] = stream[k]
        /\ \A k \in DOMAIN s : stream'[Len(stream) + k] = s[k]
    <2>1. stream \in Seq(Frame) /\ s \in Seq(Frame) /\ stream' = stream \o s
      BY <1>1, <1>2
    <2> QED  BY ONLY <2>1, JoinedSequences
  <1>7. TypeOK'
    <2>1. asked' \in Seq(SentMethod) /\ Len(asked') <= MaxRequests
      BY <1>1, <1>5
    <2>2. stream' \in Seq(Frame)
      BY <1>1, <1>2
    <2>3. ran' \in Seq(Run) /\ \A k \in DOMAIN ran' : ran'[k].method \in ServedMethod'
      BY <1>1, <1>4 DEF TypeOK, Inv, FramingInv
    <2> QED  BY <1>1, <1>4, <2>1, <2>2, <2>3 DEF TypeOK
  <1>8. ASSUME GetAlong
        PROVE  Aligned' /\ FramesInOrder' /\ RanBefore' /\ NextRequest' = NextRequest
    <2>1. Aligned /\ FramesInOrder /\ RanBefore
      BY <1>8 DEF Inv, FramingInv
    <2>2. \A f : LastOfMessage(f)' = (f.kind = "payload" \/ (f.kind = "coord" /\ Sends[f.method] = "void"))
      BY <1>4 DEF LastOfMessage
    <2>3. \A f, g : After(f, g)' = After(f, g)
      BY <1>4 DEF After, LastOfMessage
    <2>4. FramesInOrder'
      <3> SUFFICES ASSUME NEW k \in DOMAIN stream'
                   PROVE  /\ stream'[k].request \in DOMAIN asked'
                          /\ stream'[k].method = asked'[stream'[k].request]
                          /\ stream'[k].kind = "payload" => Sends[stream'[k].method] = "payload"
                          /\ k < Len(stream') => After(stream'[k], stream'[k + 1])
        BY <1>4, <2>3 DEF FramesInOrder
      <3>1. CASE k \in DOMAIN stream
        <4>1. /\ stream[k].request \in DOMAIN asked /\ stream[k].method = asked[stream[k].request]
              /\ stream[k].kind = "payload" => Sends[stream[k].method] = "payload"
              /\ k < Len(stream) => After(stream[k], stream[k + 1])
          BY <2>1, <3>1 DEF FramesInOrder
        <4>2. CASE k < Len(stream)
          <5>1. k + 1 \in DOMAIN stream
            BY <4>2, <3>1, <1>1
          <5> QED  BY <4>1, <4>2, <5>1, <3>1, <1>6, <1>5
        <4>3. CASE k = Len(stream)
          <5>1. stream'[k + 1] = s[1]
            BY <4>3, <1>6, <1>2
          <5>2. LastOfMessage(stream[k]) /\ stream[k].request = Len(asked)
            BY <2>1, <4>3, <3>1, <1>1 DEF Aligned
          <5>3. After(stream[k], s[1])
            BY <5>2, <1>2, <1>1 DEF After
          <5> QED  BY <4>1, <5>1, <5>3, <3>1, <1>6, <1>5
        <4>4. k < Len(stream) \/ k = Len(stream)
          BY <3>1, <1>1
        <4> QED  BY ONLY <4>2, <4>3, <4>4
      <3>2. CASE k \notin DOMAIN stream
        <4>1. k - Len(stream) \in DOMAIN s
          BY <3>2, <1>6, <1>1, <1>2
        <4>2. PICK j \in DOMAIN s : k = Len(stream) + j
          BY <4>1, <1>1, <1>2, <3>2
        <4>3. stream'[k] = s[j] /\ (k < Len(stream') => j + 1 \in DOMAIN s /\ stream'[k + 1] = s[j + 1])
          <5>1. k < Len(stream') => j + 1 \in DOMAIN s /\ k + 1 = Len(stream) + (j + 1)
            BY <4>2, <1>6, <1>2, <1>1
          <5> QED  BY <4>2, <5>1, <1>6
        <4>4. j \in 1..3 /\ (j = 3 => Sends[m] = "payload") /\ (j = 2 /\ j + 1 \in DOMAIN s => Sends[m] = "payload")
          BY <1>2, <1>3
        <4>5. /\ s[j].request = n /\ s[j].method = m
              /\ s[j].kind = "payload" => Sends[m] = "payload"
              /\ j + 1 \in DOMAIN s => After(s[j], s[j + 1])
          BY <4>4, <1>2, <1>3 DEF After, LastOfMessage
        <4> QED  BY <4>3, <4>5, <1>5, <1>1
      <3> QED  BY <3>1, <3>2
    <2>5. CASE stream = <<>>
      <3>1. Len(stream) = 0 /\ stream' = s
        BY <2>5, <1>1, <1>2
      <3>2. Aligned'
        BY <3>1, <1>2, <1>3, <1>4, <1>5 DEF Aligned, LastOfMessage
      <3>4. NextRequest' = NextRequest
        BY <3>1, <2>5, <1>2 DEF NextRequest
      <3> QED  BY <2>4, <3>2, <3>4, <2>1, <1>5, <1>1 DEF RanBefore
    <2>6. CASE stream # <<>>
      <3>1. Len(stream) \in Nat \ {0} /\ 1 \in DOMAIN stream /\ Len(stream) \in DOMAIN stream
        BY <2>6, <1>1
      <3>2. stream'[1] = stream[1] /\ stream' # <<>>
        BY <3>1, <1>6, <1>2
      <3>3. stream'[Len(stream')] = s[Len(s)]
        BY <1>6, <1>2
      <3>4. Aligned'
        BY <2>1, <2>6, <3>2, <3>3, <1>2, <1>3, <1>4, <1>5 DEF Aligned, LastOfMessage
      <3>5. NextRequest' = NextRequest
        BY <2>6, <3>2 DEF NextRequest
      <3> QED  BY <2>4, <3>4, <3>5, <2>1, <1>5, <1>1 DEF RanBefore
    <2> QED  BY <2>5, <2>6
  <1>9. HandlersMatch'
    <2> SUFFICES ASSUME GetAlong, NEW k \in DOMAIN ran
                 PROVE  /\ ran[k].route # Nobody
                        /\ ran[k].method = asked'[ran[k].route]
                        /\ ran[k].payload = IF Serves[ran[k].method] = "payload" THEN ran[k].route ELSE Nobody
      BY <1>1, <1>4 DEF HandlersMatch
    <2>1. ran[k].route \in DOMAIN asked
      BY DEF Inv, FramingInv, RanBefore
    <2> QED  BY <2>1, <1>5 DEF Inv, HandlersMatch
  <1>10. NothingSkipped'
    <2> SUFFICES ASSUME GetAlong PROVE NothingSkipped'
      BY <1>4 DEF NothingSkipped
    <2>1. \A i \in 1..(NextRequest - 1) : i \in DOMAIN asked
      <3>1. CASE stream = <<>>
        BY <3>1, <1>1 DEF NextRequest
      <3>2. CASE stream # <<>>
        <4>1. 1 \in DOMAIN stream
          BY <3>2, <1>1
        <4>2. stream[1].request \in DOMAIN asked
          BY <4>1 DEF Inv, FramingInv, FramesInOrder
        <4> QED  BY <4>2, <3>2, <1>1 DEF NextRequest
      <3> QED  BY <3>1, <3>2
    <2> QED  BY <2>1, <1>8, <1>1, <1>4, <1>5 DEF Inv, NothingSkipped
  <1> QED  BY <1>4, <1>7, <1>8, <1>9, <1>10 DEF Inv, FramingInv

-----------------------------------------------------------------------------
(* The server takes a message.                                             *)

\* What is at the beginning of an aligned stream: a whole message, as its sender's
\* interface has it.
LEMMA WholeMessage ==
  ASSUME TypeOK, Aligned, FramesInOrder, stream # <<>>
  PROVE  LET i == stream[1].request
             m == stream[2].method
         IN /\ Len(stream) \in Nat /\ Len(stream) >= 2
            /\ i \in DOMAIN asked /\ m = asked[i] /\ m \in SentMethod
            /\ stream[1].kind = "route" /\ stream[2].kind = "coord"
            /\ Sends[m] = "payload" =>
                 Len(stream) >= 3 /\ stream[3].kind = "payload" /\ stream[3].request = i
            /\ Sends[m] = "void" /\ Len(stream) >= 3 => stream[3].kind = "route"
  <1>1. /\ stream \in Seq(Frame) /\ asked \in Seq(SentMethod)
        /\ Len(stream) \in Nat \ {0} /\ 1 \in DOMAIN stream
        /\ \A k \in 1..Len(stream) : k \in DOMAIN stream
    BY DEF TypeOK
  <1>2. stream[1].kind = "route" /\ ~LastOfMessage(stream[1])
    BY DEF Aligned, LastOfMessage
  <1>3. Len(stream) >= 2
    BY <1>1, <1>2 DEF Aligned
  <1>4. 2 \in DOMAIN stream /\ After(stream[1], stream[2])
    BY <1>1, <1>3 DEF FramesInOrder
  <1>5. stream[2].kind = "coord" /\ stream[2].request = stream[1].request
    BY <1>2, <1>4 DEF After
  <1>6. /\ stream[1].request \in DOMAIN asked
        /\ stream[2].method = asked[stream[2].request]
    BY <1>1, <1>4 DEF FramesInOrder
  <1>7. stream[2].method \in SentMethod
    BY <1>5, <1>6, <1>1
  <1>8. ASSUME Sends[stream[2].method] = "payload"
        PROVE  Len(stream) >= 3 /\ stream[3].kind = "payload" /\ stream[3].request = stream[1].request
    <2>1. ~LastOfMessage(stream[2])
      BY <1>5, <1>8 DEF LastOfMessage
    <2>2. Len(stream) >= 3
      BY <2>1, <1>1, <1>3 DEF Aligned
    <2>3. 2 < Len(stream) /\ stream[3] = stream[2 + 1]
      BY <2>2, <1>1
    <2>4. After(stream[2], stream[3])
      BY <2>3, <1>4 DEF FramesInOrder
    <2> QED  BY <2>1, <2>2, <2>4, <1>5 DEF After
  <1>9. ASSUME Sends[stream[2].method] = "void", Len(stream) >= 3
        PROVE  stream[3].kind = "route"
    <2>1. LastOfMessage(stream[2])
      BY <1>5, <1>9 DEF LastOfMessage
    <2>2. 2 < Len(stream) /\ stream[3] = stream[2 + 1]
      BY <1>9, <1>1
    <2>3. After(stream[2], stream[3])
      BY <2>2, <1>4 DEF FramesInOrder
    <2> QED  BY <2>1, <2>3 DEF After
  <1> QED  BY <1>1, <1>2, <1>3, <1>5, <1>6, <1>7, <1>8, <1>9

\* A message is taken: the rest is whole messages, and begins with the next request.
LEMMA DropMessage ==
  ASSUME TypeOK, Aligned, FramesInOrder, stream # <<>>,
         NEW n \in Nat, n = IF Sends[stream[2].method] = "payload" THEN 3 ELSE 2,
         Drop(n), UNCHANGED <<peers, asked>>
  PROVE  /\ stream' \in Seq(Frame)
         /\ Aligned' /\ FramesInOrder'
         /\ NextRequest = stream[1].request
         /\ NextRequest' = stream[1].request + 1
  <1>1. /\ stream \in Seq(Frame) /\ asked \in Seq(SentMethod) /\ peers \in Pairings
        /\ \A k \in 1..Len(stream) : k \in DOMAIN stream
    BY DEF TypeOK
  <1>2. /\ Len(stream) \in Nat /\ Len(stream) >= n /\ stream[2].method \in SentMethod
        /\ stream[1].request \in DOMAIN asked /\ stream[2].kind = "coord"
        /\ n = 3 => stream[3].kind = "payload"
    BY WholeMessage
  <1>3. /\ stream' \in Seq(Frame) /\ Len(stream') = Len(stream) - n
        /\ \A k \in 1..Len(stream') : stream'[k] = stream[k + n]
        /\ DOMAIN stream' = 1..Len(stream')
    <2>1. stream \in Seq(Frame) /\ n \in Nat /\ n <= Len(stream) /\ stream' = SubSeq(stream, n + 1, Len(stream))
      BY <1>1, <1>2 DEF Drop
    <2>2. /\ stream' \in Seq(Frame) /\ Len(stream') = Len(stream) - n
          /\ \A k \in 1..Len(stream') : stream'[k] = stream[k + n]
      BY ONLY <2>1, RestOfSequence
    <2> QED  BY <2>2
  <1>4. Sends' = Sends /\ asked' = asked
    BY DEF Sends
  <1>5. \A f, g : After(f, g)' = After(f, g)
    BY <1>4 DEF After, LastOfMessage
  <1>6. FramesInOrder'
    <2> SUFFICES ASSUME NEW k \in DOMAIN stream'
                 PROVE  /\ stream'[k].request \in DOMAIN asked'
                        /\ stream'[k].method = asked'[stream'[k].request]
                        /\ stream'[k].kind = "payload" => Sends[stream'[k].method] = "payload"
                        /\ k < Len(stream') => After(stream'[k], stream'[k + 1])
      BY <1>4, <1>5 DEF FramesInOrder
    <2>1. k + n \in DOMAIN stream /\ stream'[k] = stream[k + n]
      <3>1. k \in Nat /\ k >= 1 /\ k <= Len(stream) - n /\ Len(stream) \in Nat
        BY <1>2, <1>3
      <3>2. k + n \in 1..Len(stream)
        BY <3>1
      <3> QED  BY <3>2, <1>1, <1>3
    <2>2. k < Len(stream') => k + n < Len(stream) /\ stream'[k + 1] = stream[(k + n) + 1]
      <3>1. (k + 1) + n = (k + n) + 1
        BY <1>3
      <3>2. k \in Nat /\ Len(stream') = Len(stream) - n /\ Len(stream) \in Nat
        BY <1>2, <1>3
      <3>3. k < Len(stream') => k + 1 \in 1..Len(stream')
        BY <1>3, <3>2
      <3>4. k < Len(stream') => k + n < Len(stream)
        BY <3>2
      <3> QED  BY <3>1, <3>3, <3>4, <1>3
    <2> QED  BY <2>1, <2>2, <1>4 DEF FramesInOrder
  <1>7. LastOfMessage(stream[n]) /\ stream[n].request = stream[1].request
    <2>1. After(stream[1], stream[2]) /\ stream[2].request = stream[1].request
      BY <1>1, <1>2 DEF FramesInOrder, Aligned, After, LastOfMessage
    <2>2. CASE n = 2
      BY <2>1, <2>2, <1>2, PairingsTyped, <1>1 DEF LastOfMessage
    <2>3. CASE n = 3
      BY <2>3, <1>2, <2>1, WholeMessage DEF LastOfMessage
    <2> QED  BY <2>2, <2>3
  <1>8. CASE Len(stream) = n
    <2>1. stream' = <<>>
      BY <1>8, <1>3
    <2>2. stream[1].request = Len(asked)
      BY <1>7, <1>8 DEF Aligned
    <2> QED  BY <2>1, <2>2, <1>3, <1>4, <1>6 DEF Aligned, NextRequest
  <1>9. CASE Len(stream) > n
    <2>1. stream' # <<>> /\ stream'[1] = stream[n + 1] /\ stream'[Len(stream')] = stream[Len(stream)]
      BY <1>9, <1>3, <1>2
    <2>2. After(stream[n], stream[n + 1])
      BY <1>9, <1>2, <1>1 DEF FramesInOrder
    <2>3. stream[n + 1].kind = "route" /\ stream[n + 1].request = stream[1].request + 1
      BY <2>2, <1>7 DEF After
    <2> QED  BY <2>1, <2>3, <1>3, <1>4, <1>6 DEF Aligned, NextRequest, LastOfMessage
  <1>10. Len(stream) = n \/ Len(stream) > n
    <2>1. Len(stream) \in Nat /\ n \in Nat /\ Len(stream) >= n
      BY <1>2
    <2> QED  BY ONLY <2>1
  <1> QED  BY <1>8, <1>9, <1>10

\* A request whose message is taken is skipped or run; what the invariant says of the
\* runs is kept if it is skipped because its method is not served, or served with
\* other parameters, ...
LEMMA Skipped ==
  ASSUME Inv, GetAlong, stream # <<>>,
         LET m == stream[2].method IN ~(m \in ServedMethod /\ Serves[m] = Sends[m]),
         UNCHANGED <<peers, asked, ran>>, NextRequest' = NextRequest + 1
  PROVE  RanBefore' /\ HandlersMatch' /\ NothingSkipped'
  <1>1. /\ TypeOK /\ Aligned /\ FramesInOrder /\ RanBefore /\ HandlersMatch /\ NothingSkipped
        /\ Sends' = Sends /\ Serves' = Serves /\ ServedMethod' = ServedMethod /\ GetAlong'
    BY DEF Inv, FramingInv, Sends, Serves, SentMethod, ServedMethod, GetAlong, Compatible
  <1>2. /\ stream[1].request \in DOMAIN asked /\ stream[2].method = asked[stream[1].request]
        /\ NextRequest = stream[1].request /\ asked \in Seq(SentMethod)
    BY <1>1, WholeMessage DEF NextRequest, TypeOK
  <1>3. NextRequest \in Nat /\ \A k \in DOMAIN ran : ran[k].route \in Nat
    BY <1>1, <1>2 DEF RanBefore
  <1>4. RanBefore'
    BY <1>1, <1>3 DEF RanBefore
  <1>5. HandlersMatch'
    BY <1>1 DEF HandlersMatch
  <1>6. NothingSkipped'
    <2>1. ASSUME NEW i \in 1..(NextRequest' - 1), asked[i] \in ServedMethod, Serves[asked[i]] = Sends[asked[i]]
          PROVE  \E k \in DOMAIN ran : ran[k].route = i
      <3>1. i \in 1..(NextRequest - 1) \/ i = NextRequest
        BY <1>3
      <3>2. i # NextRequest
        BY <1>2, <2>1
      <3> QED  BY <3>1, <3>2, <2>1, <1>1 DEF NothingSkipped
    <2> QED  BY <2>1, <1>1 DEF NothingSkipped
  <1> QED  BY <1>4, <1>5, <1>6

\* ... and if it is run with its own payload and route.
LEMMA RunsItsOwn ==
  ASSUME Inv, GetAlong, stream # <<>>, NEW r \in Run,
         LET m == stream[2].method IN
           /\ m \in ServedMethod
           /\ r = [method |-> m, route |-> stream[1].request,
                   payload |-> IF Serves[m] = "payload" THEN stream[1].request ELSE Nobody],
         UNCHANGED <<peers, asked>>, ran' = Append(ran, r), NextRequest' = NextRequest + 1
  PROVE  RanBefore' /\ HandlersMatch' /\ NothingSkipped'
  <1>1. /\ TypeOK /\ Aligned /\ FramesInOrder /\ RanBefore /\ HandlersMatch /\ NothingSkipped
        /\ Sends' = Sends /\ Serves' = Serves /\ ServedMethod' = ServedMethod /\ GetAlong'
    BY DEF Inv, FramingInv, Sends, Serves, SentMethod, ServedMethod, GetAlong, Compatible
  <1>2. /\ stream[1].request \in DOMAIN asked /\ stream[2].method = asked[stream[1].request]
        /\ NextRequest = stream[1].request /\ asked \in Seq(SentMethod) /\ ran \in Seq(Run)
    BY <1>1, WholeMessage DEF NextRequest, TypeOK
  <1>3. NextRequest \in Nat \ {0} /\ \A k \in DOMAIN ran : ran[k].route \in Nat
    BY <1>1, <1>2 DEF RanBefore
  <1>4. /\ DOMAIN ran' = 1..(Len(ran) + 1) /\ DOMAIN ran = 1..Len(ran) /\ Len(ran) \in Nat
        /\ ran'[Len(ran) + 1] = r
        /\ \A k \in DOMAIN ran : ran'[k] = ran[k]
        /\ r.route = NextRequest /\ r.method = asked[NextRequest] /\ r.method = stream[2].method
        /\ r.payload = IF Serves[r.method] = "payload" THEN r.route ELSE Nobody
    BY <1>2
  <1>5. \A k \in DOMAIN ran' : k \in DOMAIN ran \/ k = Len(ran) + 1
    BY <1>4
  <1>6. RanBefore'
    <2>1. \A k \in DOMAIN ran : ran[k].route \in DOMAIN asked /\ ran[k].route < NextRequest
      BY <1>1 DEF RanBefore
    <2>2. asked' = asked /\ NextRequest' = NextRequest + 1 /\ NextRequest \in DOMAIN asked
      BY <1>2
    <2>3. ASSUME NEW k \in DOMAIN ran'
          PROVE  ran'[k].route \in DOMAIN asked /\ ran'[k].route < NextRequest + 1
      <3>1. CASE k \in DOMAIN ran
        BY ONLY <1>3, <1>4, <2>1, <3>1
      <3>2. CASE k = Len(ran) + 1
        BY ONLY <1>3, <1>4, <2>2, <3>2
      <3> QED  BY <1>5, <3>1, <3>2
    <2> QED  BY <2>2, <2>3 DEF RanBefore
  <1>7. HandlersMatch'
    BY <1>1, <1>2, <1>3, <1>4, <1>5 DEF HandlersMatch, Nobody
  <1>8. NothingSkipped'
    <2>1. ASSUME NEW j \in DOMAIN ran', NEW k \in DOMAIN ran', j < k
          PROVE  ran'[j].route < ran'[k].route
      <3>1. j \in DOMAIN ran
        BY <2>1, <1>4
      <3>2. CASE k \in DOMAIN ran
        BY <2>1, <3>1, <3>2, <1>1, <1>4 DEF NothingSkipped
      <3>3. CASE k = Len(ran) + 1
        BY <3>1, <3>3, <1>1, <1>4 DEF RanBefore
      <3> QED  BY <3>2, <3>3, <1>5
    <2>2. ASSUME NEW i \in 1..(NextRequest' - 1), asked[i] \in ServedMethod, Serves[asked[i]] = Sends[asked[i]]
          PROVE  \E k \in DOMAIN ran' : ran'[k].route = i
      <3>1. i \in 1..(NextRequest - 1) \/ i = NextRequest
        BY <1>3
      <3>2. CASE i = NextRequest
        BY <3>2, <1>4
      <3>3. CASE i \in 1..(NextRequest - 1)
        <4>1. PICK k \in DOMAIN ran : ran[k].route = i
          BY <3>3, <2>2, <1>1 DEF NothingSkipped
        <4> QED  BY <4>1, <1>4
      <3> QED  BY <3>1, <3>2, <3>3
    <2> QED  BY <2>1, <2>2, <1>1 DEF NothingSkipped
  <1> QED  BY <1>6, <1>7, <1>8

-----------------------------------------------------------------------------
(* The servers.                                                            *)

LEMMA PyProcessInv ==
  ASSUME Inv, PyProcess
  PROVE  Inv'
  <1> DEFINE m == stream[2].method
             i == stream[1].request
             n == IF Sends[m] = "payload" THEN 3 ELSE 2
  <1>1. /\ TypeOK /\ peers \in Pairings /\ stream # <<>> /\ GetAlong /\ Aligned /\ FramesInOrder
        /\ peers' = peers /\ asked' = asked
    BY DEF Inv, FramingInv, TypeOK, PyProcess, GetAlong
  <1>2. /\ Len(stream) \in Nat /\ Len(stream) >= 2 /\ i \in DOMAIN asked /\ m \in SentMethod
        /\ Sends[m] = "payload" => Len(stream) >= 3 /\ stream[3].kind = "payload" /\ stream[3].request = i
        /\ Sends[m] = "void" /\ Len(stream) >= 3 => stream[3].kind = "route"
    BY <1>1, WholeMessage
  <1>3. Sends[m] \in {"payload", "void"} /\ (m \in ServedMethod => Serves[m] \in {"payload", "void"} /\ m \in Method)
    BY <1>1, <1>2, PairingsTyped
  <1>4. MessageLength = n
    BY <1>2, <1>3 DEF MessageLength
  <1>5. Drop(n) /\ n \in Nat
    BY <1>4 DEF PyProcess
  <1>6. /\ stream' \in Seq(Frame) /\ Aligned' /\ FramesInOrder'
        /\ NextRequest' = NextRequest + 1
    BY <1>1, <1>5, DropMessage
  <1>7. i \in RequestId
    <2>1. asked \in Seq(SentMethod) /\ Len(asked) <= MaxRequests /\ MaxRequests \in Nat
      BY <1>1, FramingAssumption DEF TypeOK
    <2> QED  BY <1>2, <2>1 DEF RequestId
  <1>8. CASE m \in ServedMethod /\ Serves[m] = Sends[m]
    <2> DEFINE r == [method |-> m, route |-> i, payload |-> IF Serves[m] = "payload" THEN i ELSE Nobody]
    <2>1. r \in Run
      BY <1>3, <1>7, <1>8 DEF Run
    <2>2. ran' = Append(ran, r)
      BY <1>2, <1>3, <1>4, <1>8 DEF PyProcess
    <2>3. RanBefore' /\ HandlersMatch' /\ NothingSkipped'
      BY <2>1, <2>2, <1>1, <1>6, <1>8, RunsItsOwn
    <2>4. TypeOK'
      BY <2>1, <2>2, <1>1, <1>6, <1>8 DEF TypeOK, SentMethod, ServedMethod, Sends, Serves
    <2> QED  BY <2>3, <2>4, <1>6 DEF Inv, FramingInv
  <1>9. CASE ~(m \in ServedMethod /\ Serves[m] = Sends[m])
    <2>1. m \notin ServedMethod \/ MessageLength # (IF Serves[m] = "void" THEN 2 ELSE 3)
      BY <1>3, <1>4, <1>9
    <2>2. ran' = ran
      BY <2>1 DEF PyProcess
    <2>3. RanBefore' /\ HandlersMatch' /\ NothingSkipped'
      BY <2>2, <1>1, <1>6, <1>9, Skipped
    <2>4. TypeOK'
      BY <2>2, <1>1, <1>6 DEF TypeOK, SentMethod, ServedMethod, Sends, Serves
    <2> QED  BY <2>3, <2>4, <1>6 DEF Inv, FramingInv
  <1> QED  BY <1>8, <1>9

\* Without an understanding of the peers the types are all that is claimed.
LEMMA CppTyped ==
  ASSUME TypeOK, CppProcess
  PROVE  TypeOK'
  <1>1. /\ peers \in Pairings /\ stream \in Seq(Frame) /\ ran \in Seq(Run)
        /\ Len(stream) \in Nat /\ Len(stream) >= 2 /\ peers' = peers /\ asked' = asked
    BY DEF TypeOK, CppProcess
  <1>2. \A n \in {2, 3} : Drop(n) /\ n <= Len(stream) => stream' \in Seq(Frame)
    BY <1>1, RestOfSequence DEF Drop
  <1>3. \A k \in 1..Len(stream) : stream[k].request \in RequestId
    <2>1. \A f \in Frame : f.request \in RequestId
      BY DEF Frame
    <2>2. \A k \in 1..Len(stream) : stream[k] \in Frame
      BY <1>1
    <2> QED  BY <2>1, <2>2
  <1>4. ASSUME NEW k \in 1..Len(stream), NEW kind
        PROVE  Owner(stream[k], kind) \in {Nobody} \cup RequestId
    BY <1>3 DEF Owner
  <1>5. ServedMethod \subseteq Method /\ ServedMethod' = ServedMethod
    BY <1>1, PairingsTyped DEF ServedMethod, Serves
  <1>10. CASE CppThrows
    BY <1>1, <1>2, <1>5, <1>10 DEF CppThrows, TypeOK, SentMethod, Sends
  <1> SUFFICES ASSUME ~CppThrows PROVE TypeOK'
    BY <1>10
  <1>6. PICK m \in Coordinates(stream[2]) : CppUnknown(m) \/ CppVoid(m) \/ CppPayload(m)
    BY DEF CppProcess
  <1>7. CASE CppUnknown(m)
    BY <1>1, <1>2, <1>5, <1>7 DEF CppUnknown, TypeOK, SentMethod, Sends
  <1>8. CASE CppVoid(m)
    <2> DEFINE r == [method |-> m, payload |-> Nobody, route |-> Owner(stream[1], "route")]
    <2>1. r \in Run /\ ran' = Append(ran, r)
      <3>1. 1 \in 1..Len(stream)
        BY ONLY <1>1
      <3>2. Owner(stream[1], "route") \in {Nobody} \cup RequestId
        BY ONLY <3>1, <1>4
      <3>3. m \in Method /\ ran' = Append(ran, r)
        BY <1>5, <1>8 DEF CppVoid
      <3> QED  BY ONLY <3>2, <3>3 DEF Run
    <2>2. Drop(2) /\ m \in ServedMethod'
      BY <1>5, <1>8 DEF CppVoid
    <2>3. stream' \in Seq(Frame)
      BY <1>1, <1>2, <2>2
    <2> HIDE DEF r
    <2>4. ran' \in Seq(Run) /\ DOMAIN ran' = 1..(Len(ran) + 1) /\ DOMAIN ran = 1..Len(ran)
          /\ Len(ran) \in Nat
          /\ ran'[Len(ran) + 1] = r /\ \A k \in DOMAIN ran : ran'[k] = ran[k]
      BY <1>1, <2>1
    <2>5. r.method = m
      BY DEF r
    <2>6. \A k \in DOMAIN ran' : ran'[k].method \in ServedMethod'
      <3>1. \A k \in DOMAIN ran : ran[k].method \in ServedMethod'
        BY <1>5 DEF TypeOK
      <3>2. \A k \in DOMAIN ran' : k \in DOMAIN ran \/ k = Len(ran) + 1
        BY ONLY <2>4
      <3> QED  BY ONLY <2>2, <2>4, <2>5, <3>1, <3>2
    <2> QED  BY <1>1, <2>3, <2>4, <2>6 DEF TypeOK, SentMethod, Sends
  <1>9. CASE CppPayload(m)
    <2> DEFINE r == [method |-> m, payload |-> Owner(stream[3], "payload"), route |-> Owner(stream[1], "route")]
    <2>1. 3 \in 1..Len(stream) /\ 1 \in 1..Len(stream)
      BY <1>1, <1>9 DEF CppPayload
    <2>2. CASE stream[3].kind = "route"
      BY <2>2, <1>1, <1>2, <1>5, <1>9 DEF CppPayload, TypeOK, SentMethod, Sends
    <2>3. CASE stream[3].kind # "route"
      <3>1. r \in Run /\ ran' = Append(ran, r)
        BY <2>1, <2>3, <1>4, <1>5, <1>9 DEF CppPayload, Run
      <3> QED  BY <2>1, <3>1, <1>1, <1>2, <1>5, <1>9 DEF CppPayload, TypeOK, SentMethod, Sends
    <2> QED  BY <2>2, <2>3
  <1> QED  BY <1>6, <1>7, <1>8, <1>9

LEMMA CppProcessInv ==
  ASSUME Inv, CppProcess
  PROVE  Inv'
  <1> DEFINE m == stream[2].method
             i == stream[1].request
             n == IF Sends[m] = "payload" THEN 3 ELSE 2
  <1>1. /\ TypeOK /\ TypeOK' /\ peers \in Pairings /\ stream # <<>> /\ peers.lang = "cpp"
        /\ peers' = peers /\ asked' = asked /\ GetAlong' = GetAlong
    BY CppTyped DEF Inv, FramingInv, TypeOK, CppProcess, GetAlong, Compatible, SentMethod, ServedMethod, Sends, Serves
  <1>2. CASE ~GetAlong
    BY <1>1, <1>2 DEF Inv, FramingInv, HandlersMatch, NothingSkipped
  <1>3. CASE GetAlong
    <2>1. Compatible /\ Aligned /\ FramesInOrder
      BY <1>1, <1>3 DEF GetAlong, Inv, FramingInv
    <2>2. /\ i \in DOMAIN asked /\ m \in SentMethod /\ stream[1].kind = "route" /\ stream[2].kind = "coord"
          /\ Sends[m] = "payload" => stream[3].kind = "payload" /\ stream[3].request = i
      BY <1>1, <2>1, WholeMessage
    <2>3. CppUnknown(m) \/ CppVoid(m) \/ CppPayload(m)
      BY <2>2 DEF CppProcess, CppThrows, Coordinates
    <2>4. /\ Sends[m] \in {"payload", "void"}
          /\ m \in ServedMethod => Serves[m] = Sends[m] /\ m \in Method
          /\ m \notin ServedMethod => Sends[m] = "void"
      BY <1>1, <2>1, <2>2, PairingsTyped DEF Compatible
    <2>5. Drop(n) /\ n \in Nat
      BY <2>3, <2>4 DEF CppUnknown, CppVoid, CppPayload
    <2>6. Aligned' /\ FramesInOrder' /\ NextRequest' = NextRequest + 1
      BY <1>1, <2>1, <2>5, DropMessage
    <2>7. i \in RequestId
      <3>1. asked \in Seq(SentMethod) /\ Len(asked) <= MaxRequests /\ MaxRequests \in Nat
        BY <1>1, FramingAssumption DEF TypeOK
      <3> QED  BY <2>2, <3>1 DEF RequestId
    <2>8. CASE m \in ServedMethod
      <3> DEFINE r == [method |-> m, route |-> i, payload |-> IF Serves[m] = "payload" THEN i ELSE Nobody]
      <3>1. r \in Run
        BY <2>4, <2>7, <2>8 DEF Run
      <3>2. ran' = Append(ran, r)
        <4>1. Serves[m] = "payload" => stream[3].kind = "payload" /\ stream[3].request = i
          BY <2>2, <2>4, <2>8
        <4> QED  BY <2>2, <2>3, <2>4, <2>8, <4>1 DEF CppUnknown, CppVoid, CppPayload, Owner
      <3>3. RanBefore' /\ HandlersMatch' /\ NothingSkipped'
        BY <3>1, <3>2, <1>1, <1>3, <2>6, <2>8, RunsItsOwn
      <3> QED  BY <3>3, <1>1, <2>6 DEF Inv, FramingInv
    <2>9. CASE m \notin ServedMethod
      <3>1. ran' = ran
        BY <2>3, <2>9 DEF CppUnknown, CppVoid, CppPayload
      <3>2. RanBefore' /\ HandlersMatch' /\ NothingSkipped'
        BY <3>1, <1>1, <1>3, <2>6, <2>9, Skipped
      <3> QED  BY <3>2, <1>1, <2>6 DEF Inv, FramingInv
    <2> QED  BY <2>8, <2>9
  <1> QED  BY <1>2, <1>3

-----------------------------------------------------------------------------
LEMMA StutterInv == ASSUME Inv, UNCHANGED vars PROVE Inv'
  BY DEF Inv, vars, FramingInv, HandlersMatch, NothingSkipped, TypeOK, GetAlong, Compatible, Aligned,
         FramesInOrder, RanBefore, NextRequest, After, LastOfMessage, Sends, Serves, SentMethod, ServedMethod

LEMMA NextInv == ASSUME Inv, Next PROVE Inv'
  <1>1. ASSUME NEW m \in SentMethod, SendRequest(m) PROVE Inv'
    BY <1>1, SendRequestInv
  <1> QED  BY <1>1, PyProcessInv, CppProcessInv DEF Next

THEOREM InvariantHolds == Spec => []Inv
  <1>1. ASSUME Inv, [Next]_vars PROVE Inv'
    BY <1>1, NextInv, StutterInv
  <1> QED  BY InitInv, <1>1, PTL DEF Spec

\* The inductive invariant holds for any interfaces of the peers.
THEOREM StreamIsWhole == Spec => []FramingInv
  <1>1. Inv => FramingInv
    BY DEF Inv
  <1> QED  BY <1>1, InvariantHolds, PTL

\* A handler runs for the call that asked for it, with that call's payload, and its
\* answer goes to the caller.
THEOREM HandlersMatchRequests == Spec => []HandlersMatch
  <1>1. Inv => HandlersMatch
    BY DEF Inv
  <1> QED  BY <1>1, InvariantHolds, PTL

\* Requests run in their order, and none that both peers understand is skipped.
THEOREM NoRequestSkipped == Spec => []NothingSkipped
  <1>1. Inv => NothingSkipped
    BY DEF Inv
  <1> QED  BY <1>1, InvariantHolds, PTL

-----------------------------------------------------------------------------
(***************************************************************************)
(* Signals.  The argument: whatever a client takes for a key and a payload *)
(* comes off the front of the stream, so the stream stays the end of what  *)
(* arrived (SignalInv); a key taken for a payload is the next key, behind  *)
(* one whose payload the client misses.                                    *)
(***************************************************************************)

\* Everything about signals that the steps keep.
SignalsOK == Signals!SignalInv /\ CallbacksMatch /\ LossIsLocal

USE DEF CallbacksMatch, LossIsLocal

LEMMA SignalPairingsTyped ==
  ASSUME clients \in SignalPairings
  PROVE  /\ clients.lang \in {"python", "cpp", "threaded", "qt"}
         /\ Signals!SentTopic \subseteq Topic /\ Signals!KnownTopic \subseteq Topic
         /\ \A t \in Signals!SentTopic : Signals!Sends[t] \in {"payload", "void"}
         /\ \A t \in Signals!KnownTopic : Signals!Knows[t] \in {"payload", "void"}
  <1>1. clients \in [lang : {"python", "cpp", "threaded", "qt"}, sends : Signals!Interface, knows : Signals!Interface]
    BY WireAssumption
  <1>2. /\ clients.lang \in {"python", "cpp", "threaded", "qt"}
        /\ clients.sends \in Signals!Interface /\ clients.knows \in Signals!Interface
    BY <1>1
  <1>3. ASSUME NEW i \in Signals!Interface
        PROVE  DOMAIN i \subseteq Topic /\ \A t \in DOMAIN i : i[t] \in {"payload", "void"}
    BY DEF Signals!Interface
  <1> QED  BY <1>2, <1>3 DEF Signals!SentTopic, Signals!KnownTopic, Signals!Sends, Signals!Knows

\* A client that was sent nothing yet.
LEMMA QuietClient ==
  ASSUME clients \in SignalPairings, callbacks \subseteq Signals!KnownTopic,
         sent = <<>>, arrived = <<>>, frames = <<>>, running = TRUE, calls = <<>>
  PROVE  SignalsOK
  <1>1. Signals!TypeOK
    BY WireAssumption DEF Signals!TypeOK
  <1>2. Signals!Taken = {}
    BY DEF Signals!Taken
  <1> QED
    BY <1>1, <1>2 DEF SignalsOK, Signals!SignalInv, Signals!FramesMatch, Signals!SignalsInOrder,
         Signals!TakenInOrder, Signals!PyInStep, Signals!CallbacksMatch, Signals!LossIsLocal

\* What does not change with the client's peers.
LEMMA SamePeers ==
  ASSUME clients' = clients
  PROVE  /\ Signals!Sends' = Signals!Sends /\ Signals!Knows' = Signals!Knows
         /\ Signals!SentTopic' = Signals!SentTopic /\ Signals!KnownTopic' = Signals!KnownTopic
         /\ \A t : /\ Signals!Agreed(t)' = Signals!Agreed(t) /\ Signals!Shifts(t)' = Signals!Shifts(t)
                  /\ Signals!Disagreed(t)' = Signals!Disagreed(t)
         /\ \A f : Signals!BringsPayload(f)' = Signals!BringsPayload(f)
  BY DEF Signals!Sends, Signals!Knows, Signals!SentTopic, Signals!KnownTopic,
         Signals!Agreed, Signals!Shifts, Signals!Disagreed, Signals!BringsPayload

LEMMA SignalTypes ==
  ASSUME Signals!TypeOK
  PROVE  /\ clients \in SignalPairings /\ MaxSignals \in Nat /\ Signals!SignalId = 1..MaxSignals
         /\ sent \in Seq(Signals!SentTopic) /\ Len(sent) \in Nat /\ DOMAIN sent = 1..Len(sent)
         /\ Len(sent) <= MaxSignals
         /\ frames \in Seq(Signals!Frame) /\ Len(frames) \in Nat /\ DOMAIN frames = 1..Len(frames)
         /\ arrived \in Seq([signal : Signals!SignalId, awaited : BOOLEAN])
         /\ Len(arrived) \in Nat /\ DOMAIN arrived = 1..Len(arrived)
         /\ calls \in Seq(Signals!Call) /\ Len(calls) \in Nat /\ DOMAIN calls = 1..Len(calls)
         /\ \A k \in DOMAIN frames :
              frames[k].kind \in {"key", "payload"} /\ frames[k].signal \in Signals!SignalId
         /\ \A k \in DOMAIN arrived : arrived[k].signal \in Signals!SignalId
         /\ \A k \in DOMAIN calls : calls[k].key \in Signals!SignalId
  <1>1. /\ sent \in Seq(Signals!SentTopic) /\ frames \in Seq(Signals!Frame)
        /\ arrived \in Seq([signal : Signals!SignalId, awaited : BOOLEAN])
        /\ calls \in Seq(Signals!Call)
        /\ clients \in SignalPairings /\ Len(sent) <= MaxSignals
    BY DEF Signals!TypeOK
  <1>2. ASSUME NEW k \in DOMAIN frames
        PROVE  frames[k].kind \in {"key", "payload"} /\ frames[k].signal \in Signals!SignalId
    <2>1. frames[k] \in Signals!Frame
      BY <1>1, ElementOfSeq, LenProperties
    <2> QED  BY <2>1 DEF Signals!Frame
  <1>3. ASSUME NEW k \in DOMAIN arrived PROVE arrived[k].signal \in Signals!SignalId
    <2>1. arrived[k] \in [signal : Signals!SignalId, awaited : BOOLEAN]
      BY <1>1, ElementOfSeq, LenProperties
    <2> QED  BY <2>1
  <1>4. ASSUME NEW k \in DOMAIN calls PROVE calls[k].key \in Signals!SignalId
    <2>1. calls[k] \in Signals!Call
      BY <1>1, ElementOfSeq, LenProperties
    <2> QED  BY <2>1 DEF Signals!Call
  <1> QED  BY <1>1, <1>2, <1>3, <1>4, WireAssumption, LenProperties DEF Signals!SignalId

-----------------------------------------------------------------------------
(* The client subscribes, the server emits.                                *)

LEMMA OnKeeps ==
  ASSUME SignalsOK, NEW t \in Signals!KnownTopic, Signals!On(t)
  PROVE  SignalsOK'
  <1>1. /\ callbacks' = callbacks \cup {t} /\ clients' = clients /\ sent' = sent
        /\ arrived' = arrived /\ frames' = frames /\ running' = running /\ calls' = calls
    BY DEF Signals!On
  <1>2. Signals!TypeOK' /\ Signals!Taken' = Signals!Taken
    BY <1>1, SamePeers DEF SignalsOK, Signals!SignalInv, Signals!TypeOK, Signals!Taken
  <1>3. Signals!FramesMatch' /\ Signals!SignalsInOrder' /\ Signals!PyInStep'
    BY <1>1, SamePeers DEF SignalsOK, Signals!SignalInv, Signals!FramesMatch,
         Signals!SignalsInOrder, Signals!PyInStep, Signals!Follows
  <1>4. Signals!TakenInOrder'
    BY <1>1, <1>2 DEF SignalsOK, Signals!SignalInv, Signals!TakenInOrder
  <1>5. CallbacksMatch' /\ LossIsLocal'
    BY <1>1, <1>2, SamePeers DEF SignalsOK, Signals!CallbacksMatch, Signals!LossIsLocal, Signals!Handled
  <1> QED  BY <1>2, <1>3, <1>4, <1>5 DEF SignalsOK, Signals!SignalInv

\* The frames of a signal.
LEMMA SignalFrames ==
  ASSUME clients \in SignalPairings, NEW i \in Signals!SignalId, NEW t \in Signals!SentTopic
  PROVE  LET s == Signals!Frames(i, t)
         IN /\ s \in Seq(Signals!Frame)
            /\ Len(s) = IF Signals!Sends[t] = "payload" THEN 2 ELSE 1
            /\ s[1] = [kind |-> "key", signal |-> i, topic |-> t]
            /\ Signals!Sends[t] = "payload" => s[2] = [kind |-> "payload", signal |-> i, topic |-> t]
  <1>1. t \in Topic
    BY SignalPairingsTyped
  <1>2. \A kind \in {"key", "payload"} : [kind |-> kind, signal |-> i, topic |-> t] \in Signals!Frame
    BY <1>1 DEF Signals!Frame
  <1>3. CASE Signals!Sends[t] = "payload"
    BY <1>2, <1>3 DEF Signals!Frames
  <1>4. CASE Signals!Sends[t] # "payload"
    BY <1>2, <1>4 DEF Signals!Frames
  <1> QED  BY <1>3, <1>4

\* One more signal is sent; the earlier ones are what they were.
LEMMA OneMoreSent ==
  ASSUME Signals!TypeOK, NEW t \in Signals!SentTopic, Signals!Emit(t)
  PROVE  /\ sent' \in Seq(Signals!SentTopic) /\ Len(sent') = Len(sent) + 1 /\ Len(sent') <= MaxSignals
         /\ Len(sent) + 1 \in Signals!SignalId /\ DOMAIN sent' = 1..(Len(sent) + 1)
         /\ sent'[Len(sent) + 1] = t
         /\ \A i \in DOMAIN sent : i \in DOMAIN sent' /\ sent'[i] = sent[i] /\ i < Len(sent) + 1
  <1>1. sent' = Append(sent, t) /\ Len(sent) < MaxSignals
    BY DEF Signals!Emit
  <1>2. /\ sent \in Seq(Signals!SentTopic) /\ Len(sent) \in Nat /\ DOMAIN sent = 1..Len(sent)
        /\ MaxSignals \in Nat /\ Signals!SignalId = 1..MaxSignals
    BY SignalTypes
  <1> QED  BY <1>1, <1>2

LEMMA EmitLost ==
  ASSUME SignalsOK, NEW t \in Signals!SentTopic, Signals!Emit(t), UNCHANGED <<arrived, frames>>
  PROVE  SignalsOK'
  <1>1. /\ Signals!SignalInv /\ Signals!TypeOK
        /\ clients' = clients /\ callbacks' = callbacks /\ calls' = calls /\ running' = running
        /\ arrived' = arrived /\ frames' = frames
    BY DEF SignalsOK, Signals!SignalInv, Signals!Emit
  <1>2. \A i \in DOMAIN sent : i \in DOMAIN sent' /\ sent'[i] = sent[i]
    BY <1>1, OneMoreSent
  <1>3. Signals!TypeOK'
    BY <1>1, OneMoreSent, SamePeers DEF Signals!TypeOK
  <1>4. Signals!Taken' = Signals!Taken
    BY <1>1 DEF Signals!Taken
  <1>5. Signals!FramesMatch'
    BY <1>1, <1>2, SamePeers DEF Signals!SignalInv, Signals!FramesMatch
  <1>6. Signals!SignalsInOrder' /\ Signals!PyInStep'
    BY <1>1, <1>2 DEF Signals!SignalInv, Signals!SignalsInOrder, Signals!PyInStep, Signals!Follows
  <1>7. Signals!TakenInOrder'
    BY <1>1, <1>2, <1>4 DEF Signals!SignalInv, Signals!TakenInOrder
  <1>8. CallbacksMatch'
    BY <1>1, <1>2, SamePeers DEF SignalsOK, Signals!SignalInv, Signals!SignalsInOrder, Signals!CallbacksMatch
  <1>9. LossIsLocal'
    <2>1. \A k \in Signals!Taken : k \in DOMAIN arrived
      BY DEF Signals!Taken
    <2>2. \A k \in DOMAIN arrived : sent'[arrived[k].signal] = sent[arrived[k].signal]
      BY <1>1, <1>2 DEF Signals!SignalInv, Signals!TakenInOrder
    <2>3. \A k \in DOMAIN arrived : k > 1 => k - 1 \in DOMAIN arrived
      BY <1>1, SignalTypes
    <2>4. ~running => \E k \in Signals!Taken : Signals!Disagreed(sent'[arrived[k].signal])
      BY <2>1, <2>2 DEF SignalsOK, Signals!LossIsLocal
    <2> QED
      BY <1>1, <1>4, <2>1, <2>2, <2>3, <2>4, SamePeers DEF SignalsOK, Signals!LossIsLocal, Signals!Handled
  <1> QED  BY <1>3, <1>5, <1>6, <1>7, <1>8, <1>9 DEF SignalsOK, Signals!SignalInv

\* A signal that arrives is behind all that did.
LEMMA EmitArrives ==
  ASSUME SignalsOK, NEW t \in Signals!SentTopic, Signals!Emit(t),
         arrived' = Append(arrived, [signal |-> Len(sent) + 1, awaited |-> t \in callbacks]),
         frames' = frames \o Signals!Frames(Len(sent) + 1, t)
  PROVE  SignalsOK'
  <1> DEFINE n == Len(sent) + 1
             s == Signals!Frames(n, t)
             a == [signal |-> n, awaited |-> t \in callbacks]
             N == Len(frames)
             A == Len(arrived)
  <1>1. /\ Signals!SignalInv /\ Signals!TypeOK
        /\ clients' = clients /\ callbacks' = callbacks /\ calls' = calls /\ running' = running
    BY DEF SignalsOK, Signals!SignalInv, Signals!Emit
  <1>2. /\ n \in Signals!SignalId /\ n \in Nat /\ sent'[n] = t /\ n \in DOMAIN sent'
        /\ \A i \in DOMAIN sent : i \in DOMAIN sent' /\ sent'[i] = sent[i] /\ i < n /\ i <= n /\ i # n
    BY <1>1, OneMoreSent, SignalTypes
  <1>3. /\ clients \in SignalPairings /\ frames \in Seq(Signals!Frame) /\ N \in Nat /\ DOMAIN frames = 1..N
        /\ A \in Nat /\ DOMAIN arrived = 1..A
        /\ arrived \in Seq([signal : Signals!SignalId, awaited : BOOLEAN])
        /\ Signals!Sends[t] \in {"payload", "void"}
    BY <1>1, SignalTypes, SignalPairingsTyped
  <1> HIDE DEF n, N, A
  <1>4. /\ s \in Seq(Signals!Frame)
        /\ Len(s) = IF Signals!Sends[t] = "payload" THEN 2 ELSE 1
        /\ s[1] = [kind |-> "key", signal |-> n, topic |-> t]
        /\ Signals!Sends[t] = "payload" => s[2] = [kind |-> "payload", signal |-> n, topic |-> t]
    BY <1>2, <1>3, SignalFrames
  <1> HIDE DEF s
  <1>22. /\ s[1].kind = "key" /\ s[1].signal = n /\ s[1].topic = t
         /\ Len(s) = 2 => s[2].kind = "payload" /\ s[2].signal = n /\ s[2].topic = t
    <2>1. s[1].kind = "key" /\ s[1].signal = n /\ s[1].topic = t
      BY ONLY <1>4
    <2>2. Len(s) = 2 => Signals!Sends[t] = "payload"
      BY ONLY <1>4
    <2>3. Len(s) = 2 => s[2] = [kind |-> "payload", signal |-> n, topic |-> t]
      BY ONLY <1>4, <2>2
    <2>4. Len(s) = 2 => s[2].kind = "payload" /\ s[2].signal = n /\ s[2].topic = t
      BY ONLY <2>3
    <2> QED  BY <2>1, <2>4
  <1>5. frames' = frames \o s /\ arrived' = Append(arrived, a)
    BY DEF s, n
  <1>6. /\ frames' \in Seq(Signals!Frame) /\ Len(frames') = N + Len(s)
        /\ \A k \in DOMAIN frames : frames'[k] = frames[k]
        /\ \A k \in DOMAIN s : frames'[N + k] = s[k]
    <2>1. frames \in Seq(Signals!Frame) /\ s \in Seq(Signals!Frame) /\ frames' = frames \o s
      BY <1>3, <1>4, <1>5
    <2> QED  BY ONLY <2>1, JoinedSequences DEF N
  <1>7. /\ DOMAIN s = 1..Len(s) /\ Len(s) \in {1, 2} /\ DOMAIN frames' = 1..(N + Len(s))
        /\ frames'[N + 1].kind = "key" /\ frames'[N + 1].signal = n /\ frames'[N + 1].topic = t
        /\ Len(s) = 2 => /\ frames'[N + 2].kind = "payload" /\ frames'[N + 2].signal = n
                         /\ frames'[N + 2].topic = t
    <2>1. DOMAIN s = 1..Len(s) /\ Len(s) \in {1, 2} /\ DOMAIN frames' = 1..Len(frames')
      BY <1>4, <1>6, LenProperties
    <2>2. frames'[N + 1] = s[1] /\ (Len(s) = 2 => frames'[N + 2] = s[2])
      <3>1. \A k \in DOMAIN s : frames'[N + k] = s[k]
        BY <1>6
      <3>2. 1 \in DOMAIN s /\ (Len(s) = 2 => 2 \in DOMAIN s)
        BY <2>1
      <3> HIDE DEF N
      <3> QED  BY ONLY <3>1, <3>2
    <2>3. frames'[N + 1].kind = "key" /\ frames'[N + 1].signal = n /\ frames'[N + 1].topic = t
      BY ONLY <1>22, <2>2
    <2>4. Len(s) = 2 => /\ frames'[N + 2].kind = "payload" /\ frames'[N + 2].signal = n
                       /\ frames'[N + 2].topic = t
      BY ONLY <1>22, <2>2
    <2> QED  BY <1>6, <2>1, <2>3, <2>4
  <1>8. ASSUME NEW k \in DOMAIN frames'
        PROVE  \/ k \in DOMAIN frames
               \/ k = N + 1 \/ (k = N + 2 /\ Len(s) = 2)
    <2>1. k \in 1..(N + Len(s))
      BY <1>7
    <2>2. CASE Len(s) = 1
      <3>1. k \in 1..(N + 1)
        BY <2>1, <2>2
      <3> QED  BY ONLY <1>3, <3>1
    <2>3. CASE Len(s) = 2
      <3>1. k \in 1..(N + 2)
        BY <2>1, <2>3
      <3> QED  BY ONLY <1>3, <2>3, <3>1
    <2> QED  BY <1>7, <2>2, <2>3
  <1>21. N + 1 \in DOMAIN frames' /\ N + 1 # N + 2
    <2>1. CASE Len(s) = 1
      <3>1. DOMAIN frames' = 1..(N + 1)
        BY <1>7, <2>1
      <3> QED  BY ONLY <1>3, <3>1
    <2>2. CASE Len(s) = 2
      <3>1. DOMAIN frames' = 1..(N + 2)
        BY <1>7, <2>2
      <3> QED  BY ONLY <1>3, <3>1
    <2> QED  BY <1>7, <2>1, <2>2
  <1>9. a \in [signal : Signals!SignalId, awaited : BOOLEAN]
    BY <1>2
  <1>10. /\ DOMAIN arrived' = 1..(A + 1) /\ arrived'[A + 1].signal = n
         /\ arrived'[A + 1].awaited = (t \in callbacks)
         /\ \A k \in DOMAIN arrived : arrived'[k] = arrived[k] /\ k \in DOMAIN arrived' /\ k < A + 1
         /\ arrived' \in Seq([signal : Signals!SignalId, awaited : BOOLEAN])
    BY <1>3, <1>5, <1>9 DEF A
  <1> HIDE DEF a
  <1>11. \A k \in DOMAIN arrived' : k \in DOMAIN arrived \/ k = A + 1
    BY <1>3, <1>10
  <1>12. /\ \A k \in DOMAIN frames : frames[k].signal \in DOMAIN sent /\ frames[k].topic = sent[frames[k].signal]
         /\ \A k \in DOMAIN arrived : arrived[k].signal \in DOMAIN sent
         /\ \A k \in DOMAIN calls : calls[k].key \in DOMAIN sent
    BY <1>1 DEF Signals!SignalInv, Signals!FramesMatch, Signals!TakenInOrder, Signals!SignalsInOrder
  <1>13. Signals!TypeOK'
    BY <1>1, <1>6, <1>10, OneMoreSent, SamePeers DEF Signals!TypeOK
  <1>14. Signals!FramesMatch'
    <2> SUFFICES ASSUME NEW k \in DOMAIN frames'
                 PROVE  /\ frames'[k].signal \in DOMAIN sent'
                        /\ frames'[k].topic = sent'[frames'[k].signal]
                        /\ IF Signals!BringsPayload(frames'[k])
                           THEN /\ k < Len(frames') /\ frames'[k + 1].kind = "payload"
                                /\ frames'[k + 1].signal = frames'[k].signal
                           ELSE k < Len(frames') => frames'[k + 1].kind = "key"
      BY <1>1, SamePeers DEF Signals!FramesMatch
    <2>1. CASE k \in DOMAIN frames
      <3>1. IF Signals!BringsPayload(frames[k])
            THEN k < N /\ frames[k + 1].kind = "payload" /\ frames[k + 1].signal = frames[k].signal
            ELSE k < N => frames[k + 1].kind = "key"
        BY <1>1, <2>1 DEF Signals!SignalInv, Signals!FramesMatch, N
      <3>2. CASE k < N
        <4>1. k + 1 \in DOMAIN frames
          BY <1>3, <2>1, <3>2
        <4>2. frames'[k] = frames[k] /\ frames'[k + 1] = frames[k + 1] /\ k < Len(frames')
          BY <1>3, <1>4, <1>6, <2>1, <3>2, <4>1
        <4> QED  BY <1>2, <1>12, <2>1, <3>1, <3>2, <4>2
      <3>3. CASE k = N
        <4>1. frames'[k + 1].kind = "key" /\ frames'[k] = frames[k]
          BY <1>6, <1>7, <2>1, <3>3
        <4>2. ~Signals!BringsPayload(frames[k])
          BY <1>3, <3>1, <3>3
        <4>3. frames[k].signal \in DOMAIN sent /\ frames[k].topic = sent[frames[k].signal]
          BY <1>12, <2>1
        <4>4. frames'[k].signal \in DOMAIN sent' /\ frames'[k].topic = sent'[frames'[k].signal]
          BY <1>2, <4>1, <4>3
        <4> QED  BY ONLY <4>1, <4>2, <4>4
      <3> QED  BY <1>3, <2>1, <3>2, <3>3
    <2>2. CASE k = N + 1
      <3>1. frames'[k].signal = n /\ frames'[k].topic = t /\ frames'[k].kind = "key"
        BY <1>7, <2>2
      <3>2. CASE Signals!Sends[t] = "payload"
        <4>1. k + 1 = N + 2 /\ k < Len(frames')
          BY <1>3, <1>4, <1>6, <2>2, <3>2
        <4>2. frames'[k + 1].kind = "payload" /\ frames'[k + 1].signal = n
          BY <1>4, <1>7, <3>2, <4>1
        <4> QED  BY <1>2, <3>1, <3>2, <4>1, <4>2 DEF Signals!BringsPayload
      <3>3. CASE Signals!Sends[t] # "payload"
        <4>1. ~(k < Len(frames'))
          BY <1>3, <1>4, <1>6, <2>2, <3>3
        <4> QED  BY <1>2, <3>1, <3>3, <4>1 DEF Signals!BringsPayload
      <3> QED  BY <3>2, <3>3
    <2>3. CASE k = N + 2 /\ Len(s) = 2
      <3>1. frames'[k].signal = n /\ frames'[k].topic = t /\ frames'[k].kind = "payload"
        BY <1>7, <2>3
      <3>2. ~(k < Len(frames'))
        BY <1>3, <1>6, <2>3
      <3> QED  BY <1>2, <3>1, <3>2 DEF Signals!BringsPayload
    <2> QED  BY <1>8, <2>1, <2>2, <2>3
  <1>15. Signals!SignalsInOrder'
    <2>1. ASSUME NEW j \in DOMAIN frames', NEW k \in DOMAIN frames', j < k
          PROVE  Signals!Follows(frames'[j].signal, frames'[k])
      <3>1. CASE k \in DOMAIN frames
        <4>1. j \in DOMAIN frames
          BY <1>3, <1>7, <2>1, <3>1
        <4> QED
          BY <1>1, <1>6, <2>1, <3>1, <4>1 DEF Signals!SignalInv, Signals!SignalsInOrder
      <3>2. CASE k \notin DOMAIN frames
        <4>1. frames'[k].signal = n /\ (k = N + 1 \/ (k = N + 2 /\ frames'[k].kind = "payload"))
          BY <1>7, <1>8, <3>2
        <4>2. CASE j \in DOMAIN frames
          <5>1. frames'[j].signal \in DOMAIN sent
            BY <1>6, <1>12, <4>2
          <5> QED  BY <1>2, <4>1, <5>1 DEF Signals!Follows
        <4>3. CASE j \notin DOMAIN frames
          <5>1. j = N + 1 \/ j = N + 2
            BY <1>8, <4>3
          <5>2. j = N + 1 /\ k = N + 2
            BY <1>3, <2>1, <4>1, <5>1
          <5>3. frames'[k].kind # "key" /\ frames'[j].signal = n
            BY <1>3, <1>7, <4>1, <5>2
          <5> QED  BY <1>2, <4>1, <5>3 DEF Signals!Follows
        <4> QED  BY <4>2, <4>3
      <3> QED  BY <3>1, <3>2
    <2>2. ASSUME NEW j \in DOMAIN arrived', NEW k \in DOMAIN arrived', j < k
          PROVE  arrived'[j].signal < arrived'[k].signal
      <3>1. j \in DOMAIN arrived
        BY <1>3, <1>10, <2>2
      <3>2. CASE k \in DOMAIN arrived
        BY <1>1, <1>10, <2>2, <3>1, <3>2 DEF Signals!SignalInv, Signals!SignalsInOrder
      <3>3. CASE k = A + 1
        BY <1>2, <1>10, <1>12, <3>1, <3>3
      <3> QED  BY <1>11, <3>2, <3>3
    <2>3. ASSUME NEW j \in DOMAIN calls, NEW k \in DOMAIN frames'
          PROVE  Signals!Follows(calls[j].key, frames'[k])
      <3>1. CASE k \in DOMAIN frames
        BY <1>1, <1>6, <3>1 DEF Signals!SignalInv, Signals!SignalsInOrder
      <3>2. CASE k \notin DOMAIN frames
        <4>1. frames'[k].signal = n
          BY <1>7, <1>8, <3>2
        <4> QED  BY <1>2, <1>12, <4>1 DEF Signals!Follows
      <3> QED  BY <3>1, <3>2
    <2> QED
      BY <1>1, <1>2, <1>12, <2>1, <2>2, <2>3 DEF Signals!SignalsInOrder, Signals!Follows
  <1>16. Signals!Taken' = Signals!Taken
    <2>1. ASSUME NEW k \in DOMAIN arrived
          PROVE  (\A j \in DOMAIN frames' : frames'[j].kind = "key" => frames'[j].signal # arrived'[k].signal)
                 <=> (\A j \in DOMAIN frames : frames[j].kind = "key" => frames[j].signal # arrived[k].signal)
      <3>1. arrived'[k] = arrived[k] /\ arrived[k].signal # n
        BY <1>2, <1>10, <1>12
      <3>2. \A j \in DOMAIN frames : j \in DOMAIN frames' /\ frames'[j] = frames[j]
        BY <1>3, <1>6, <1>7
      <3>3. \A j \in DOMAIN frames' : j \in DOMAIN frames \/ frames'[j].signal = n
        BY <1>7, <1>8
      <3> QED  BY <3>1, <3>2, <3>3
    <2>2. frames'[N + 1].kind = "key" /\ frames'[N + 1].signal = arrived'[A + 1].signal
      BY <1>7, <1>10
    <2>3. A + 1 \notin Signals!Taken' /\ A + 1 \notin DOMAIN arrived
      <3>1. A + 1 \notin DOMAIN arrived
        BY ONLY <1>3
      <3> QED  BY <1>21, <2>2, <3>1 DEF Signals!Taken
    <2>4. \A k \in DOMAIN arrived : k \in Signals!Taken' <=> k \in Signals!Taken
      BY <1>10, <2>1 DEF Signals!Taken
    <2>5. Signals!Taken \subseteq DOMAIN arrived /\ Signals!Taken' \subseteq DOMAIN arrived'
      BY DEF Signals!Taken
    <2> QED  BY <1>11, <2>3, <2>4, <2>5
  <1>17. Signals!TakenInOrder'
    <2>1. ASSUME NEW k \in DOMAIN arrived'
          PROVE  /\ arrived'[k].signal \in DOMAIN sent'
                 /\ arrived'[k].awaited => sent'[arrived'[k].signal] \in callbacks
      <3>1. CASE k \in DOMAIN arrived
        BY <1>1, <1>2, <1>10, <1>12, <3>1 DEF Signals!SignalInv, Signals!TakenInOrder
      <3>2. CASE k = A + 1
        BY <1>2, <1>10, <3>2
      <3> QED  BY <1>11, <3>1, <3>2
    <2>2. ASSUME NEW j \in DOMAIN frames'
          PROVE  \E k \in DOMAIN arrived' : arrived'[k].signal = frames'[j].signal
      <3>1. CASE j \in DOMAIN frames
        <4>1. PICK k \in DOMAIN arrived : arrived[k].signal = frames[j].signal
          BY <1>1, <3>1 DEF Signals!SignalInv, Signals!TakenInOrder
        <4> QED  BY <1>6, <1>10, <3>1, <4>1
      <3>2. CASE j \notin DOMAIN frames
        <4>1. frames'[j].signal = n
          BY <1>7, <1>8, <3>2
        <4>2. A + 1 \in DOMAIN arrived'
          BY <1>3, <1>10
        <4> QED  BY <1>10, <4>1, <4>2
      <3> QED  BY <3>1, <3>2
    <2>3. ASSUME NEW j \in DOMAIN arrived', NEW k \in DOMAIN arrived', j < k, k \in Signals!Taken
          PROVE  j \in Signals!Taken
      <3>1. k \in DOMAIN arrived
        BY <2>3 DEF Signals!Taken
      <3>2. j \in DOMAIN arrived
        BY <1>3, <1>10, <2>3, <3>1
      <3> QED  BY <1>1, <2>3, <3>1, <3>2 DEF Signals!SignalInv, Signals!TakenInOrder
    <2> QED  BY <1>1, <1>16, <2>1, <2>2, <2>3 DEF Signals!TakenInOrder
  <1>18. Signals!PyInStep'
    <2>1. CASE frames = <<>>
      <3>1. N = 0
        BY <2>1 DEF N
      <3>2. frames'[1].kind = "key"
        <4>1. N + 1 = 1
          BY <3>1
        <4> QED  BY <1>7, <4>1
      <3> QED  BY <3>2 DEF Signals!PyInStep
    <2>2. CASE frames # <<>>
      <3>1. 1 \in DOMAIN frames
        BY <1>3, <2>2, EmptySeq DEF N
      <3> QED  BY <1>1, <1>6, <2>2, <3>1 DEF Signals!SignalInv, Signals!PyInStep
    <2> QED  BY <2>1, <2>2
  <1>19. CallbacksMatch'
    BY <1>1, <1>2, <1>12, SamePeers DEF SignalsOK, Signals!CallbacksMatch
  <1>20. LossIsLocal'
    <2>3. ~running => \E k \in Signals!Taken : Signals!Disagreed(sent'[arrived'[k].signal])
      <3>1. ASSUME ~running PROVE \E k \in Signals!Taken : Signals!Disagreed(sent[arrived[k].signal])
        BY <3>1 DEF SignalsOK, Signals!LossIsLocal
      <3>2. \A k \in Signals!Taken : sent'[arrived'[k].signal] = sent[arrived[k].signal]
        BY <1>2, <1>10, <1>12 DEF Signals!Taken
      <3> QED  BY <3>1, <3>2
    <2> SUFFICES ASSUME NEW k \in Signals!Taken, arrived'[k].awaited,
                        Signals!Agreed(sent'[arrived'[k].signal]),
                        k > 1 => ~Signals!Shifts(sent'[arrived'[k - 1].signal])
                 PROVE  \E j \in DOMAIN calls : calls[j].key = arrived'[k].signal
      BY <1>1, <1>16, <2>3, SamePeers DEF Signals!LossIsLocal, Signals!Handled
    <2>1. k \in DOMAIN arrived /\ (k > 1 => k - 1 \in DOMAIN arrived)
      BY <1>3 DEF Signals!Taken
    <2>2. /\ arrived'[k] = arrived[k] /\ sent'[arrived[k].signal] = sent[arrived[k].signal]
          /\ k > 1 => arrived'[k - 1] = arrived[k - 1]
                      /\ sent'[arrived[k - 1].signal] = sent[arrived[k - 1].signal]
      BY <1>2, <1>10, <1>12, <2>1
    <2> QED  BY <2>2 DEF SignalsOK, Signals!LossIsLocal, Signals!Handled
  <1> QED
    BY <1>13, <1>14, <1>15, <1>17, <1>18, <1>19, <1>20 DEF SignalsOK, Signals!SignalInv

-----------------------------------------------------------------------------
(* The client takes frames off the front.                                  *)

\* What is at the front: a frame of a signal that was sent; its payload, if it is a
\* key that brings one, and else a key.
LEMMA FrontFrames ==
  ASSUME Signals!SignalInv, frames # <<>>
  PROVE  /\ Len(frames) \in Nat /\ Len(frames) >= 1
         /\ frames[1].kind \in {"key", "payload"}
         /\ frames[1].signal \in DOMAIN sent /\ frames[1].signal \in Signals!SignalId
         /\ frames[1].topic = sent[frames[1].signal]
         /\ frames[1].topic \in Signals!SentTopic /\ frames[1].topic \in Topic
         /\ Signals!Sends[frames[1].topic] \in {"payload", "void"}
         /\ frames[1].topic \in Signals!KnownTopic =>
              Signals!Knows[frames[1].topic] \in {"payload", "void"}
         /\ Signals!BringsPayload(frames[1]) =>
              /\ Len(frames) >= 2
              /\ frames[2].kind = "payload" /\ frames[2].signal = frames[1].signal
         /\ ~Signals!BringsPayload(frames[1]) /\ Len(frames) >= 2 => frames[2].kind = "key"
  <1>1. /\ Signals!TypeOK /\ Signals!FramesMatch
    BY DEF Signals!SignalInv
  <1>2. /\ Len(frames) \in Nat /\ DOMAIN frames = 1..Len(frames) /\ frames \in Seq(Signals!Frame)
        /\ clients \in SignalPairings /\ sent \in Seq(Signals!SentTopic)
        /\ \A k \in DOMAIN frames :
              frames[k].kind \in {"key", "payload"} /\ frames[k].signal \in Signals!SignalId
    BY <1>1, SignalTypes
  <1>3. Len(frames) >= 1 /\ 1 \in DOMAIN frames
    BY <1>2, EmptySeq
  <1>4. /\ frames[1].signal \in DOMAIN sent /\ frames[1].topic = sent[frames[1].signal]
        /\ IF Signals!BringsPayload(frames[1])
           THEN 1 < Len(frames) /\ frames[1 + 1].kind = "payload" /\ frames[1 + 1].signal = frames[1].signal
           ELSE 1 < Len(frames) => frames[1 + 1].kind = "key"
    BY <1>1, <1>3 DEF Signals!FramesMatch
  <1>5. frames[1].topic \in Signals!SentTopic
    BY <1>2, <1>4
  <1> QED  BY <1>2, <1>3, <1>4, <1>5, SignalPairingsTyped

\* Frames are taken: the rest is in order as before, and taken are the signals whose
\* keys were among the frames.
LEMMA FramesTaken ==
  ASSUME Signals!SignalInv, NEW n \in {1, 2}, n <= Len(frames), Signals!Drop(n),
         UNCHANGED <<clients, callbacks, sent, arrived>>
  PROVE  /\ frames' \in Seq(Signals!Frame) /\ Len(frames') = Len(frames) - n
         /\ DOMAIN frames' = 1..Len(frames')
         /\ \A k \in DOMAIN frames' : k + n \in DOMAIN frames /\ frames'[k] = frames[k + n]
         /\ Signals!FramesMatch'
         /\ Signals!TakenInOrder'
         /\ \A k \in Signals!Taken' : k \in Signals!Taken \/
              \E j \in 1..n : frames[j].kind = "key" /\ frames[j].signal = arrived[k].signal
  <1>1. /\ Signals!TypeOK /\ Signals!FramesMatch /\ Signals!SignalsInOrder /\ Signals!TakenInOrder
        /\ clients' = clients /\ callbacks' = callbacks /\ sent' = sent /\ arrived' = arrived
    BY DEF Signals!SignalInv
  <1>2. /\ frames \in Seq(Signals!Frame) /\ Len(frames) \in Nat /\ DOMAIN frames = 1..Len(frames)
        /\ \A k \in DOMAIN arrived : arrived[k].signal \in Signals!SignalId
        /\ Signals!SignalId \subseteq Nat
    BY <1>1, SignalTypes
  <1>3. /\ frames' \in Seq(Signals!Frame) /\ Len(frames') = Len(frames) - n
        /\ \A k \in 1..Len(frames') : frames'[k] = frames[k + n]
    <2>1. /\ frames \in Seq(Signals!Frame) /\ n \in Nat /\ n <= Len(frames)
          /\ frames' = SubSeq(frames, n + 1, Len(frames))
      BY <1>2 DEF Signals!Drop
    <2>2. /\ frames' \in Seq(Signals!Frame) /\ Len(frames') = Len(frames) - n
          /\ \A k \in 1..Len(frames') : frames'[k] = frames[k + n]
      BY ONLY <2>1, RestOfSequence
    <2> QED  BY <2>2
  <1>4. /\ DOMAIN frames' = 1..Len(frames')
        /\ \A k \in DOMAIN frames' : k + n \in DOMAIN frames /\ frames'[k] = frames[k + n]
    <2>1. DOMAIN frames' = 1..Len(frames')
      BY <1>3
    <2>2. \A k \in 1..(Len(frames) - n) : k + n \in 1..Len(frames)
      BY <1>2
    <2> QED  BY <1>2, <1>3, <2>1, <2>2
  <1>5. Signals!FramesMatch'
    <2> SUFFICES ASSUME NEW k \in DOMAIN frames'
                 PROVE  /\ frames'[k].signal \in DOMAIN sent
                        /\ frames'[k].topic = sent[frames'[k].signal]
                        /\ IF Signals!BringsPayload(frames'[k])
                           THEN /\ k < Len(frames') /\ frames'[k + 1].kind = "payload"
                                /\ frames'[k + 1].signal = frames'[k].signal
                           ELSE k < Len(frames') => frames'[k + 1].kind = "key"
      BY <1>1, SamePeers DEF Signals!FramesMatch
    <2>1. k + n \in DOMAIN frames /\ frames'[k] = frames[k + n] /\ k \in Nat
      BY <1>4
    <2>2. k < Len(frames') <=> k + n < Len(frames)
      BY <1>2, <1>3, <2>1
    <2>3. k < Len(frames') => frames'[k + 1] = frames[(k + n) + 1]
      <3>1. (k + 1) + n = (k + n) + 1
        BY <2>1
      <3>2. k < Len(frames') => k + 1 \in 1..Len(frames')
        BY <1>2, <1>3, <1>4
      <3>3. k < Len(frames') => frames'[k + 1] = frames[(k + 1) + n]
        <4>1. \A i \in 1..Len(frames') : frames'[i] = frames[i + n]
          BY <1>3
        <4> QED  BY ONLY <3>2, <4>1
      <3> QED  BY ONLY <3>1, <3>3
    <2>4. /\ frames[k + n].signal \in DOMAIN sent
          /\ frames[k + n].topic = sent[frames[k + n].signal]
          /\ IF Signals!BringsPayload(frames[k + n])
             THEN /\ k + n < Len(frames) /\ frames[(k + n) + 1].kind = "payload"
                  /\ frames[(k + n) + 1].signal = frames[k + n].signal
             ELSE k + n < Len(frames) => frames[(k + n) + 1].kind = "key"
      BY <1>1, <2>1 DEF Signals!FramesMatch
    <2> QED  BY <2>1, <2>2, <2>3, <2>4
  <1>6. \A k \in Signals!Taken' : k \in Signals!Taken \/
          \E j \in 1..n : frames[j].kind = "key" /\ frames[j].signal = arrived[k].signal
    <2> SUFFICES ASSUME NEW k \in DOMAIN arrived, k \in Signals!Taken',
                        NEW j \in DOMAIN frames, frames[j].kind = "key",
                        frames[j].signal = arrived[k].signal
                 PROVE  j \in 1..n
      BY <1>1 DEF Signals!Taken
    <2>1. ASSUME ~(j \in 1..n) PROVE FALSE
      <3>1. j - n \in DOMAIN frames' /\ (j - n) + n = j
        BY <1>2, <1>3, <1>4, <2>1
      <3>2. frames'[j - n] = frames[j]
        BY <1>4, <3>1
      <3> QED  BY <1>1, <3>1, <3>2 DEF Signals!Taken
    <2> QED  BY <2>1
  <1>7. Signals!TakenInOrder'
    <2>1. \A j \in DOMAIN frames' : \E k \in DOMAIN arrived : arrived[k].signal = frames'[j].signal
      BY <1>1, <1>4 DEF Signals!TakenInOrder
    <2>2. ASSUME NEW j \in DOMAIN arrived, NEW k \in DOMAIN arrived, j < k, j \notin Signals!Taken'
          PROVE  k \notin Signals!Taken'
      <3>1. PICK p \in DOMAIN frames' : frames'[p].kind = "key" /\ frames'[p].signal = arrived[j].signal
        BY <1>1, <2>2 DEF Signals!Taken
      <3>2. p + n \in DOMAIN frames /\ frames[p + n] = frames'[p]
        BY <1>4
      <3>3. j \notin Signals!Taken
        BY <3>1, <3>2 DEF Signals!Taken
      <3>4. k \notin Signals!Taken
        BY <1>1, <2>2, <3>3 DEF Signals!TakenInOrder
      <3>5. PICK q \in DOMAIN frames : frames[q].kind = "key" /\ frames[q].signal = arrived[k].signal
        BY <3>4 DEF Signals!Taken
      <3>6. arrived[j].signal < arrived[k].signal
        BY <1>1, <2>2 DEF Signals!SignalsInOrder
      <3>7. ASSUME q <= n PROVE FALSE
        <4>1. q < p + n
          BY <1>2, <1>4, <3>2, <3>7
        <4>2. frames[q].signal <= frames[p + n].signal
          BY <1>1, <3>2, <4>1 DEF Signals!SignalsInOrder, Signals!Follows
        <4>3. arrived[k].signal <= arrived[j].signal
          BY <3>1, <3>2, <3>5, <4>2
        <4>4. arrived[k].signal \in Nat /\ arrived[j].signal \in Nat
          BY <1>2
        <4> QED  BY <3>6, <4>3, <4>4
      <3>8. q - n \in DOMAIN frames' /\ (q - n) + n = q
        BY <1>2, <1>3, <1>4, <3>7
      <3>9. frames'[q - n] = frames[q]
        BY <1>4, <3>8
      <3> QED  BY <1>1, <3>5, <3>8, <3>9 DEF Signals!Taken
    <2>3. \A k \in DOMAIN arrived : /\ arrived[k].signal \in DOMAIN sent
                                    /\ arrived[k].awaited => sent[arrived[k].signal] \in callbacks
      BY <1>1 DEF Signals!TakenInOrder
    <2> QED  BY <1>1, <2>1, <2>2, <2>3 DEF Signals!TakenInOrder
  <1> QED  BY <1>3, <1>4, <1>5, <1>6, <1>7

\* What was taken is not in the stream again; and the front key's signal is taken now.
LEMMA FrontIsTaken ==
  ASSUME Signals!SignalInv, NEW n \in {1, 2}, n <= Len(frames), Signals!Drop(n),
         UNCHANGED <<clients, callbacks, sent, arrived>>, frames # <<>>
  PROVE  /\ Signals!Taken \subseteq Signals!Taken'
         /\ frames[1].kind = "key" =>
              \E k \in Signals!Taken' : arrived[k].signal = frames[1].signal
  <1>1. /\ Signals!TypeOK /\ Signals!SignalsInOrder /\ Signals!TakenInOrder
        /\ arrived' = arrived /\ DOMAIN frames' = 1..Len(frames')
        /\ \A k \in DOMAIN frames' : k + n \in DOMAIN frames /\ frames'[k] = frames[k + n]
    BY FramesTaken DEF Signals!SignalInv
  <1>2. Signals!Taken \subseteq Signals!Taken'
    BY <1>1 DEF Signals!Taken
  <1>3. \A k \in DOMAIN frames : frames[k].signal \in Signals!SignalId
    BY <1>1, SignalTypes
  <1>4. Signals!SignalId = 1..MaxSignals
    BY <1>1, SignalTypes
  <1>5. ASSUME frames[1].kind = "key"
        PROVE  \E k \in Signals!Taken' : arrived[k].signal = frames[1].signal
    <2>1. 1 \in DOMAIN frames
      BY FrontFrames, <1>1, SignalTypes
    <2>2. PICK k \in DOMAIN arrived : arrived[k].signal = frames[1].signal
      BY <1>1, <2>1 DEF Signals!TakenInOrder
    <2>3. ASSUME NEW j \in DOMAIN frames', frames'[j].kind = "key"
          PROVE  frames'[j].signal # frames[1].signal
      <3>1. j + n \in DOMAIN frames /\ frames'[j] = frames[j + n] /\ 1 < j + n
        BY <1>1
      <3>2. frames[1].signal < frames[j + n].signal
        BY <1>1, <2>1, <2>3, <3>1 DEF Signals!SignalsInOrder, Signals!Follows
      <3>3. frames[1].signal \in Nat
        BY ONLY <1>3, <1>4, <2>1
      <3>4. frames[1].signal # frames[j + n].signal
        BY ONLY <3>2, <3>3
      <3> QED  BY ONLY <3>1, <3>4
    <2> QED  BY <1>1, <2>2, <2>3 DEF Signals!Taken
  <1> QED  BY <1>2, <1>5

\* A key that is taken for a payload is the key of the signal that arrived next.
LEMMA NextKey ==
  ASSUME Signals!SignalInv, 2 \in DOMAIN frames, frames[1].kind = "key", frames[2].kind = "key",
         NEW k \in DOMAIN arrived, arrived[k].signal = frames[2].signal
  PROVE  k > 1 /\ arrived[k - 1].signal = frames[1].signal
  <1>1. /\ Signals!TypeOK /\ Signals!SignalsInOrder /\ Signals!TakenInOrder
    BY DEF Signals!SignalInv
  <1>2. /\ Len(frames) \in Nat /\ DOMAIN frames = 1..Len(frames)
        /\ Len(arrived) \in Nat /\ DOMAIN arrived = 1..Len(arrived)
        /\ \A j \in DOMAIN arrived : arrived[j].signal \in Nat
        /\ \A j \in DOMAIN frames : frames[j].signal \in Nat
    <2>1. /\ Len(frames) \in Nat /\ DOMAIN frames = 1..Len(frames)
          /\ Len(arrived) \in Nat /\ DOMAIN arrived = 1..Len(arrived)
          /\ \A j \in DOMAIN arrived : arrived[j].signal \in Signals!SignalId
          /\ \A j \in DOMAIN frames : frames[j].signal \in Signals!SignalId
          /\ MaxSignals \in Nat /\ Signals!SignalId = 1..MaxSignals
      BY <1>1, SignalTypes
    <2>2. Signals!SignalId \subseteq Nat
      BY ONLY <2>1
    <2> QED  BY ONLY <2>1, <2>2
  <1>3. 1 \in DOMAIN frames
    BY <1>2
  <1>4. PICK m \in DOMAIN arrived : arrived[m].signal = frames[1].signal
    BY <1>1, <1>3 DEF Signals!TakenInOrder
  <1>5. arrived[m].signal < arrived[k].signal
    BY <1>1, <1>3, <1>4 DEF Signals!SignalsInOrder, Signals!Follows
  <1>6. m < k
    <2>1. ASSUME k < m PROVE FALSE
      <3>1. arrived[k].signal < arrived[m].signal
        BY <1>1, <2>1 DEF Signals!SignalsInOrder
      <3> QED  BY <1>2, <1>5, <3>1
    <2>2. k # m
      BY <1>2, <1>5
    <2> QED  BY <1>2, <2>1, <2>2
  <1>7. k > 1 /\ k - 1 \in DOMAIN arrived /\ m <= k - 1
    BY <1>2, <1>6
  <1>8. ASSUME m < k - 1 PROVE FALSE
    <2>1. /\ arrived[m].signal < arrived[k - 1].signal
          /\ arrived[k - 1].signal < arrived[k].signal
      BY <1>1, <1>2, <1>7, <1>8 DEF Signals!SignalsInOrder
    <2>2. m \notin Signals!Taken
      BY <1>3, <1>4 DEF Signals!Taken
    <2>3. k - 1 \notin Signals!Taken
      BY <1>1, <1>7, <1>8, <2>2 DEF Signals!TakenInOrder
    <2>4. PICK p \in DOMAIN frames : frames[p].signal = arrived[k - 1].signal
      BY <1>7, <2>3 DEF Signals!Taken
    <2>5. p # 1 /\ p # 2
      BY <1>2, <1>4, <1>7, <2>1, <2>4
    <2>6. 2 < p
      BY <1>2, <2>5
    <2>7. frames[2].signal <= frames[p].signal
      BY <1>1, <2>6 DEF Signals!SignalsInOrder, Signals!Follows
    <2> QED  BY <1>2, <1>7, <2>1, <2>4, <2>7
  <1>9. m = k - 1
    BY <1>2, <1>7, <1>8
  <1> QED  BY <1>4, <1>7, <1>9

\* The signals that are taken newly, if n frames are taken: the front one's, and the
\* one that arrived next if its key was taken for a payload.
NewlyTaken(k, n) ==
  \/ frames[1].kind = "key" /\ frames[1].signal = arrived[k].signal
  \/ n = 2 /\ frames[2].kind = "key" /\ frames[2].signal = arrived[k].signal

\* A callback waited for the signal, both peers have the same parameters for it, and
\* the one before does not shift the client.
Due(k) ==
  /\ arrived[k].awaited
  /\ Signals!Agreed(sent[arrived[k].signal])
  /\ k > 1 => ~Signals!Shifts(sent[arrived[k - 1].signal])

\* Whoever is called, is called for the key at the front, in whose place the stream
\* begins with later ones.
LEMMA HandledKeeps ==
  ASSUME SignalsOK, frames # <<>>, NEW n \in {1, 2}, n <= Len(frames), Signals!Drop(n),
         UNCHANGED <<clients, callbacks, sent, arrived>>,
         Signals!PyInStep',
         running, running' \in BOOLEAN,
         ~running' => frames[1].kind = "key" /\ Signals!Disagreed(frames[1].topic),
         \/ calls' = calls
         \/ \E c \in Signals!Call :
              /\ calls' = Append(calls, c)
              /\ frames[1].kind = "key" /\ c.key = frames[1].signal /\ c.topic = frames[1].topic
              /\ c.payload = IF Signals!Knows[c.topic] = "payload" THEN c.key ELSE Signals!Nobody,
         \A k \in DOMAIN arrived : NewlyTaken(k, n) /\ Due(k) =>
           \E j \in DOMAIN calls' : calls'[j].key = arrived[k].signal
  PROVE  SignalsOK'
  <1>1. /\ Signals!SignalInv /\ Signals!TypeOK /\ Signals!SignalsInOrder
        /\ clients' = clients /\ callbacks' = callbacks /\ sent' = sent /\ arrived' = arrived
    BY DEF SignalsOK, Signals!SignalInv
  <1>2. /\ frames' \in Seq(Signals!Frame) /\ DOMAIN frames' = 1..Len(frames')
        /\ \A k \in DOMAIN frames' : k + n \in DOMAIN frames /\ frames'[k] = frames[k + n]
        /\ Signals!FramesMatch' /\ Signals!TakenInOrder'
        /\ \A k \in Signals!Taken' : k \in Signals!Taken \/
              \E j \in 1..n : frames[j].kind = "key" /\ frames[j].signal = arrived[k].signal
    BY <1>1, FramesTaken
  <1>3. /\ Len(frames) \in Nat /\ Len(frames) >= 1 /\ 1 \in DOMAIN frames
        /\ frames[1].signal \in DOMAIN sent /\ frames[1].topic = sent[frames[1].signal]
        /\ calls \in Seq(Signals!Call) /\ Len(calls) \in Nat /\ DOMAIN calls = 1..Len(calls)
    BY <1>1, FrontFrames, SignalTypes
  <1>4. /\ Len(calls') \in Nat /\ DOMAIN calls' = 1..Len(calls') /\ calls' \in Seq(Signals!Call)
        /\ \A k \in DOMAIN calls : k \in DOMAIN calls' /\ calls'[k] = calls[k]
        /\ \A k \in DOMAIN calls' : k \in DOMAIN calls \/
             /\ k = Len(calls) + 1
             /\ frames[1].kind = "key" /\ calls'[k].key = frames[1].signal /\ calls'[k].topic = frames[1].topic
             /\ calls'[k].payload =
                  IF Signals!Knows[calls'[k].topic] = "payload" THEN calls'[k].key ELSE Signals!Nobody
    <2>1. CASE calls' = calls
      BY <1>3, <2>1
    <2>2. CASE calls' # calls
      <3>1. PICK c \in Signals!Call :
              /\ calls' = Append(calls, c)
              /\ frames[1].kind = "key" /\ c.key = frames[1].signal /\ c.topic = frames[1].topic
              /\ c.payload = IF Signals!Knows[c.topic] = "payload" THEN c.key ELSE Signals!Nobody
        BY <2>2
      <3>2. /\ calls' \in Seq(Signals!Call) /\ Len(calls') = Len(calls) + 1
            /\ DOMAIN calls' = 1..(Len(calls) + 1)
            /\ \A k \in DOMAIN calls : calls'[k] = calls[k]
            /\ calls'[Len(calls) + 1] = c
        <4>1. calls \in Seq(Signals!Call) /\ c \in Signals!Call /\ calls' = Append(calls, c)
          BY <1>3, <3>1
        <4>2. Len(calls) \in Nat /\ DOMAIN calls = 1..Len(calls)
          BY <1>3
        <4> QED  BY ONLY <4>1, <4>2
      <3>3. /\ \A k \in DOMAIN calls : k \in DOMAIN calls'
            /\ \A k \in DOMAIN calls' : k \in DOMAIN calls \/ k = Len(calls) + 1
            /\ Len(calls') \in Nat /\ DOMAIN calls' = 1..Len(calls')
        BY <1>3, <3>2
      <3> QED  BY <3>1, <3>2, <3>3
    <2> QED  BY <2>1, <2>2
  <1>5. \A k \in DOMAIN calls : calls[k].key < frames[1].signal \/ frames[1].kind # "key"
    BY <1>1, <1>3 DEF Signals!SignalsInOrder, Signals!Follows
  <1>6. Signals!TypeOK'
    BY <1>1, <1>2, <1>4, SamePeers DEF Signals!TypeOK
  <1>7. Signals!SignalsInOrder'
    <2>1. ASSUME NEW j \in DOMAIN frames', NEW k \in DOMAIN frames', j < k
          PROVE  Signals!Follows(frames'[j].signal, frames'[k])
      <3>1. j + n < k + n
        BY <1>2, <2>1
      <3> QED  BY <1>1, <1>2, <3>1 DEF Signals!SignalsInOrder
    <2>2. ASSUME NEW j \in DOMAIN calls', NEW k \in DOMAIN frames'
          PROVE  Signals!Follows(calls'[j].key, frames'[k])
      <3>1. CASE j \in DOMAIN calls
        BY <1>1, <1>2, <1>4, <3>1 DEF Signals!SignalsInOrder
      <3>2. CASE j \notin DOMAIN calls
        <4>1. 1 < k + n
          BY <1>2
        <4>2. calls'[j].key = frames[1].signal
          BY <1>4, <3>2
        <4>3. Signals!Follows(frames[1].signal, frames[k + n])
          BY <1>1, <1>2, <1>3, <4>1 DEF Signals!SignalsInOrder
        <4> QED  BY <1>2, <4>2, <4>3
      <3> QED  BY <3>1, <3>2
    <2>3. \A k \in DOMAIN calls' : calls'[k].key \in DOMAIN sent
      BY <1>1, <1>3, <1>4 DEF Signals!SignalsInOrder
    <2> QED  BY <1>1, <2>1, <2>2, <2>3 DEF Signals!SignalsInOrder, Signals!Follows
  <1>8. CallbacksMatch'
    <2>1. ASSUME NEW k \in DOMAIN calls'
          PROVE  /\ calls'[k].topic = sent[calls'[k].key]
                 /\ calls'[k].payload =
                      IF Signals!Knows[calls'[k].topic] = "payload" THEN calls'[k].key ELSE Signals!Nobody
      <3>1. CASE k \in DOMAIN calls
        <4>1. Signals!CallbacksMatch
          BY DEF SignalsOK
        <4>2. /\ calls[k].topic = sent[calls[k].key]
              /\ calls[k].payload =
                   IF Signals!Knows[calls[k].topic] = "payload" THEN calls[k].key ELSE Signals!Nobody
          BY ONLY <3>1, <4>1 DEF Signals!CallbacksMatch
        <4>3. calls'[k] = calls[k]
          BY <1>4, <3>1
        <4> QED  BY ONLY <4>2, <4>3
      <3>2. CASE k \notin DOMAIN calls
        BY <1>3, <1>4, <2>1, <3>2
      <3> QED  BY <3>1, <3>2
    <2>2. ASSUME NEW j \in DOMAIN calls', NEW k \in DOMAIN calls', j < k
          PROVE  calls'[j].key < calls'[k].key
      <3>1. j \in DOMAIN calls
        <4>1. /\ j \in DOMAIN calls \/ j = Len(calls) + 1
              /\ k \in 1..Len(calls) \/ k = Len(calls) + 1
          BY <1>3, <1>4
        <4> QED  BY <1>3, <2>2, <4>1
      <3>2. CASE k \in DOMAIN calls
        BY <1>4, <2>2, <3>1, <3>2 DEF SignalsOK, Signals!CallbacksMatch
      <3>3. CASE k \notin DOMAIN calls
        BY <1>4, <1>5, <3>1, <3>3
      <3> QED  BY <3>2, <3>3
    <2> QED  BY <1>1, <2>1, <2>2, SamePeers DEF Signals!CallbacksMatch, Signals!Nobody
  <1>9. LossIsLocal'
    <2>4. ASSUME ~running' PROVE \E k \in Signals!Taken' : Signals!Disagreed(sent[arrived[k].signal])
      <3>1. PICK k \in Signals!Taken' : arrived[k].signal = frames[1].signal
        BY <1>1, <2>4, FrontIsTaken
      <3> QED  BY <1>3, <2>4, <3>1
    <2> SUFFICES ASSUME NEW k \in Signals!Taken', Due(k)
                 PROVE  \E j \in DOMAIN calls' : calls'[j].key = arrived[k].signal
      BY <1>1, <2>4, SamePeers DEF Signals!LossIsLocal, Signals!Handled, Due
    <2>1. k \in DOMAIN arrived
      BY <1>1 DEF Signals!Taken
    <2>2. CASE k \in Signals!Taken
      <3>1. PICK j \in DOMAIN calls : calls[j].key = arrived[k].signal
        BY <2>2 DEF SignalsOK, Signals!LossIsLocal, Signals!Handled, Due
      <3> QED  BY <1>4, <3>1
    <2>3. CASE k \notin Signals!Taken
      <3>1. PICK j \in 1..n : frames[j].kind = "key" /\ frames[j].signal = arrived[k].signal
        BY <1>2, <2>3
      <3>2. j = 1 \/ (j = 2 /\ n = 2)
        OBVIOUS
      <3> QED  BY <2>1, <3>1, <3>2 DEF NewlyTaken
    <2> QED  BY <2>2, <2>3
  <1> QED  BY <1>2, <1>6, <1>7, <1>8, <1>9 DEF SignalsOK, Signals!SignalInv

LEMMA PyHandleKeeps ==
  ASSUME SignalsOK, Signals!PyHandle
  PROVE  SignalsOK'
  <1> DEFINE key == frames[1]
             expected == IF Signals!Knows[key.topic] = "void" THEN 1 ELSE 2
             n == Signals!MessageLength
             c == [topic |-> key.topic, key |-> key.signal,
                   payload |-> IF expected = 2 THEN frames[2].signal ELSE Signals!Nobody]
  <1>1. /\ Signals!SignalInv /\ Signals!TypeOK /\ clients.lang = "python" /\ frames # <<>>
        /\ key.kind = "key"
        /\ clients' = clients /\ callbacks' = callbacks /\ sent' = sent /\ arrived' = arrived
        /\ Signals!Drop(n)
        /\ running /\ running' \in BOOLEAN
        /\ ~running' => key.topic \in callbacks /\ n # expected
        /\ IF key.topic \notin callbacks \/ n # expected THEN calls' = calls ELSE calls' = Append(calls, c)
    BY DEF SignalsOK, Signals!SignalInv, Signals!PyInStep, Signals!PyHandle, Signals!Throws, Signals!Called
  <1>2. /\ Len(frames) \in Nat /\ Len(frames) >= 1
        /\ key.signal \in Signals!SignalId /\ key.topic = sent[key.signal] /\ key.topic \in Topic
        /\ Signals!Sends[key.topic] \in {"payload", "void"}
        /\ key.topic \in Signals!KnownTopic => Signals!Knows[key.topic] \in {"payload", "void"}
        /\ callbacks \subseteq Signals!KnownTopic
        /\ Signals!Sends[key.topic] = "payload" =>
             Len(frames) >= 2 /\ frames[2].kind = "payload" /\ frames[2].signal = key.signal
        /\ Signals!Sends[key.topic] # "payload" /\ Len(frames) >= 2 => frames[2].kind = "key"
    BY <1>1, FrontFrames DEF Signals!BringsPayload, Signals!TypeOK
  <1>3. /\ n = IF Signals!Sends[key.topic] = "payload" THEN 2 ELSE 1
        /\ n \in {1, 2} /\ n <= Len(frames)
    BY <1>2 DEF Signals!MessageLength
  <1>7. ~running' => Signals!Disagreed(key.topic)
    BY <1>1, <1>2, <1>3 DEF Signals!Disagreed, Signals!Agreed
  <1> HIDE DEF n
  <1>4. Signals!PyInStep'
    <2> SUFFICES ASSUME frames' # <<>> PROVE frames'[1].kind = "key"
      BY DEF Signals!PyInStep
    <2>1. /\ frames' \in Seq(Signals!Frame) /\ DOMAIN frames' = 1..Len(frames')
          /\ Len(frames') = Len(frames) - n
          /\ \A k \in DOMAIN frames' : k + n \in DOMAIN frames /\ frames'[k] = frames[k + n]
      BY <1>1, <1>3, FramesTaken
    <2>2. 1 \in DOMAIN frames' /\ n < Len(frames)
      BY <1>2, <1>3, <2>1, EmptySeq
    <2>3. frames'[1] = frames[1 + n] /\ n \in DOMAIN frames
      <3>1. DOMAIN frames = 1..Len(frames)
        BY <1>1, SignalTypes
      <3>2. n \in 1..Len(frames)
        BY <1>2, <1>3
      <3>3. frames'[1] = frames[1 + n]
        BY <2>1, <2>2
      <3> QED  BY <3>1, <3>2, <3>3
    <2>4. ~Signals!BringsPayload(frames[n])
      BY <1>1, <1>2, <1>3 DEF Signals!BringsPayload
    <2>5. frames[n + 1].kind = "key"
      BY <1>1, <2>2, <2>3, <2>4 DEF Signals!SignalInv, Signals!FramesMatch
    <2>6. n + 1 = 1 + n
      BY <1>3
    <2> QED  BY <2>3, <2>5, <2>6
  <1>5. CASE key.topic \in callbacks /\ n = expected
    <2>1. Signals!Knows[key.topic] = Signals!Sends[key.topic]
      BY <1>2, <1>3, <1>5
    <2>2. c.payload = IF Signals!Knows[c.topic] = "payload" THEN c.key ELSE Signals!Nobody
      BY <1>2, <1>5, <2>1
    <2>3. c \in Signals!Call /\ c.key = key.signal /\ c.topic = key.topic
      BY <1>2, <2>1 DEF Signals!Call
    <2>4. calls' = Append(calls, c)
      BY <1>1, <1>5
    <2>5. \A k \in DOMAIN arrived : NewlyTaken(k, n) => arrived[k].signal = key.signal
      BY <1>2, <1>3 DEF NewlyTaken
    <2>6. \E j \in DOMAIN calls' : calls'[j].key = key.signal
      <3>1. calls \in Seq(Signals!Call) /\ Len(calls) \in Nat
        BY <1>1, SignalTypes
      <3> HIDE DEF c
      <3>2. Len(calls) + 1 \in DOMAIN calls' /\ calls'[Len(calls) + 1] = c
        BY <2>3, <2>4, <3>1
      <3> QED  BY <2>3, <3>2
    <2> HIDE DEF c
    <2> QED  BY <1>1, <1>3, <1>4, <1>7, <2>2, <2>3, <2>4, <2>5, <2>6, HandledKeeps
  <1>6. CASE ~(key.topic \in callbacks /\ n = expected)
    <2>1. calls' = calls
      BY <1>1, <1>6
    <2>2. ASSUME NEW k \in DOMAIN arrived, NewlyTaken(k, n), Due(k) PROVE FALSE
      <3>1. arrived[k].signal = key.signal
        BY <1>2, <1>3, <2>2 DEF NewlyTaken
      <3>2. key.topic \in callbacks
        BY <1>1, <1>2, <2>2, <3>1 DEF Due, Signals!SignalInv, Signals!TakenInOrder
      <3>3. Signals!Knows[key.topic] = Signals!Sends[key.topic]
        BY <1>2, <2>2, <3>1 DEF Due, Signals!Agreed
      <3> QED  BY <1>2, <1>3, <1>6, <3>2, <3>3
    <2> QED  BY <1>1, <1>3, <1>4, <1>7, <2>1, <2>2, HandledKeeps
  <1> QED  BY <1>5, <1>6

\* The C++ and the Qt client count by their own interface; the Qt client calls in any
\* case, the C++ client if there is a callback, and neither with what is no payload.
LEMMA OtherHandleKeeps ==
  ASSUME SignalsOK, Signals!CppHandle \/ Signals!QtHandle
  PROVE  SignalsOK'
  <1> DEFINE key == frames[1]
             t == key.topic
             n == Signals!Received
             c == [topic |-> t, key |-> key.signal, payload |-> Signals!Payload]
  <1>1. /\ Signals!SignalInv /\ Signals!TypeOK /\ clients.lang # "python" /\ frames # <<>> /\ running
        /\ clients' = clients /\ callbacks' = callbacks /\ sent' = sent /\ arrived' = arrived
    BY DEF SignalsOK, Signals!SignalInv, Signals!CppHandle, Signals!QtHandle
  <1>2. Signals!PyInStep'
    BY <1>1 DEF Signals!PyInStep
  <1>3. /\ Len(frames) \in Nat /\ Len(frames) >= 1 /\ key.kind \in {"key", "payload"}
        /\ key.signal \in Signals!SignalId /\ t = sent[key.signal] /\ t \in Topic
        /\ t \in Signals!SentTopic
        /\ Signals!Sends[t] \in {"payload", "void"}
        /\ t \in Signals!KnownTopic => Signals!Knows[t] \in {"payload", "void"}
        /\ key.kind = "key" /\ Signals!Sends[t] = "payload" =>
             Len(frames) >= 2 /\ frames[2].kind = "payload" /\ frames[2].signal = key.signal
        /\ ~Signals!BringsPayload(key) /\ Len(frames) >= 2 => frames[2].kind = "key"
        /\ \A k \in DOMAIN arrived : arrived[k].awaited => sent[arrived[k].signal] \in callbacks
    BY <1>1, FrontFrames DEF Signals!BringsPayload, Signals!SignalInv, Signals!TakenInOrder
  <1>4. CASE Signals!Unrecognized
    <2>1. /\ Signals!Drop(1) /\ calls' = calls /\ running' = running
          /\ ~(key.kind = "key" /\ t \in Signals!KnownTopic)
      BY <1>4 DEF Signals!Unrecognized, Signals!Recognized
    <2>2. ASSUME NEW k \in DOMAIN arrived, NewlyTaken(k, 1), Due(k) PROVE FALSE
      BY <1>3, <2>1, <2>2 DEF NewlyTaken, Due, Signals!Agreed
    <2> QED  BY <1>1, <1>2, <1>3, <2>1, <2>2, HandledKeeps
  <1>5. CASE Signals!Misread
    <2>1. /\ key.kind = "key" /\ t \in Signals!KnownTopic
          /\ n = 2 /\ Len(frames) >= n /\ Signals!Drop(2) /\ frames[2].kind = "key"
          /\ calls' = calls /\ running' \in BOOLEAN
      BY <1>5 DEF Signals!Misread, Signals!Receive, Signals!Recognized, Signals!Throws
    <2>2. Signals!Knows[t] = "payload" /\ Signals!Sends[t] = "void"
      BY <1>3, <2>1 DEF Signals!Received
    <2>3. Signals!Shifts(t) /\ Signals!Disagreed(t)
      BY <1>1, <2>1, <2>2 DEF Signals!Shifts, Signals!Disagreed
    <2>4. ASSUME NEW k \in DOMAIN arrived, NewlyTaken(k, 2), Due(k) PROVE FALSE
      <3>1. CASE arrived[k].signal = key.signal
        BY <1>3, <2>2, <2>4, <3>1 DEF Due, Signals!Agreed
      <3>2. CASE arrived[k].signal # key.signal
        <4>1. frames[2].kind = "key" /\ frames[2].signal = arrived[k].signal
          BY <2>4, <3>2 DEF NewlyTaken
        <4>2. 2 \in DOMAIN frames
          BY <1>1, <2>1, SignalTypes
        <4>3. k > 1 /\ arrived[k - 1].signal = key.signal
          BY <1>1, <2>1, <4>1, <4>2, NextKey
        <4> QED  BY <1>3, <2>3, <2>4, <4>3 DEF Due
      <3> QED  BY <3>1, <3>2
    <2>5. 2 <= Len(frames)
      BY <1>3, <2>1
    <2> QED  BY <1>1, <1>2, <2>1, <2>3, <2>4, <2>5, HandledKeeps
  <1>6. CASE Signals!Receive("payload")
    <2>1. /\ key.kind = "key" /\ t \in Signals!KnownTopic
          /\ Len(frames) >= n /\ Signals!Drop(n) /\ (n = 2 => frames[2].kind = "payload")
      BY <1>6 DEF Signals!Receive, Signals!Recognized
    <2>2. n = (IF Signals!Knows[t] = "payload" THEN 2 ELSE 1) /\ n \in {1, 2} /\ n <= Len(frames)
      BY <1>3, <2>1 DEF Signals!Received
    <2>3. Signals!Payload = IF n = 2 THEN frames[2].signal ELSE Signals!Nobody
      BY DEF Signals!Payload
    <2> HIDE DEF n
    <2>4. ASSUME NEW k \in DOMAIN arrived, NewlyTaken(k, n), Due(k)
          PROVE  arrived[k].signal = key.signal /\ t \in callbacks
      BY <1>3, <2>1, <2>4 DEF NewlyTaken, Due
    <2>5. Signals!Payload = IF Signals!Knows[t] = "payload" THEN key.signal ELSE Signals!Nobody
      <3>1. CASE n = 2
        <4>1. Signals!BringsPayload(key)
          BY <1>3, <2>1, <2>2, <3>1
        <4> QED  BY <1>3, <2>1, <2>2, <2>3, <3>1, <4>1 DEF Signals!BringsPayload
      <3>2. CASE n = 1
        BY <2>2, <2>3, <3>2
      <3> QED  BY <2>2, <3>1, <3>2
    <2>6. \/ calls' = calls /\ t \notin callbacks /\ running' = running
          \/ calls' = Append(calls, c) /\ running' = running
          \/ Signals!Unrecognized \/ Signals!Misread
      BY DEF Signals!CppHandle, Signals!QtHandle, Signals!Called
    <2>7. CASE calls' = calls /\ t \notin callbacks /\ running' = running
      BY <1>1, <1>2, <2>1, <2>2, <2>4, <2>7, HandledKeeps
    <2>8. CASE calls' = Append(calls, c) /\ running' = running
      <3>1. /\ c \in Signals!Call /\ c.key = key.signal /\ c.topic = t
            /\ c.payload = IF Signals!Knows[t] = "payload" THEN key.signal ELSE Signals!Nobody
        BY <1>3, <2>5 DEF Signals!Call
      <3> HIDE DEF c
      <3>2. \E j \in DOMAIN calls' : calls'[j].key = key.signal
        <4>1. calls \in Seq(Signals!Call) /\ Len(calls) \in Nat
          BY <1>1, SignalTypes
        <4>2. Len(calls) + 1 \in DOMAIN calls' /\ calls'[Len(calls) + 1] = c
          BY <2>8, <3>1, <4>1
        <4> QED  BY <3>1, <4>2
      <3> QED  BY <1>1, <1>2, <2>1, <2>2, <2>4, <2>8, <3>1, <3>2, HandledKeeps
    <2> QED  BY <1>4, <1>5, <2>6, <2>7, <2>8
  <1> QED  BY <1>4, <1>5, <1>6 DEF Signals!CppHandle, Signals!QtHandle

LEMMA SignalsStay ==
  ASSUME SignalsOK, UNCHANGED signalVars
  PROVE  SignalsOK'
  <1>1. /\ clients' = clients /\ callbacks' = callbacks /\ sent' = sent
        /\ arrived' = arrived /\ frames' = frames /\ running' = running /\ calls' = calls
    BY DEF signalVars
  <1>2. Signals!TypeOK' /\ Signals!Taken' = Signals!Taken
    BY <1>1, SamePeers DEF SignalsOK, Signals!SignalInv, Signals!TypeOK, Signals!Taken
  <1>3. Signals!FramesMatch' /\ Signals!SignalsInOrder' /\ Signals!PyInStep'
    BY <1>1, SamePeers DEF SignalsOK, Signals!SignalInv, Signals!FramesMatch,
         Signals!SignalsInOrder, Signals!PyInStep, Signals!Follows
  <1>4. Signals!TakenInOrder'
    BY <1>1, <1>2 DEF SignalsOK, Signals!SignalInv, Signals!TakenInOrder
  <1>5. CallbacksMatch' /\ LossIsLocal'
    BY <1>1, <1>2, SamePeers DEF SignalsOK, Signals!CallbacksMatch, Signals!LossIsLocal, Signals!Handled
  <1> QED  BY <1>2, <1>3, <1>4, <1>5 DEF SignalsOK, Signals!SignalInv

LEMMA SignalStep ==
  ASSUME SignalsOK, Signals!Next
  PROVE  SignalsOK'
  <1>1. ASSUME NEW t \in Signals!SentTopic, Signals!Emit(t) PROVE SignalsOK'
    <2>1. \/ /\ arrived' = Append(arrived, [signal |-> Len(sent) + 1, awaited |-> t \in callbacks])
             /\ frames' = frames \o Signals!Frames(Len(sent) + 1, t)
          \/ UNCHANGED <<arrived, frames>>
      BY <1>1 DEF Signals!Emit
    <2> QED  BY <1>1, <2>1, EmitArrives, EmitLost
  <1> QED  BY <1>1, OnKeeps, PyHandleKeeps, OtherHandleKeeps DEF Signals!Next

-----------------------------------------------------------------------------
(* Both sockets.                                                           *)

WireOK == Inv /\ SignalsOK

LEMMA WireInitOK == WireInit => WireOK
  <1> SUFFICES ASSUME WireInit PROVE WireOK
    OBVIOUS
  <1>1. CASE socket = "rpc" /\ Init /\ NoSignals
    <2>1. clients \in SignalPairings
      BY <1>1, WireAssumption DEF NoSignals
    <2>2. SignalsOK
      BY <1>1, <2>1, QuietClient DEF NoSignals
    <2> QED  BY <1>1, <2>2, InitInv DEF WireOK
  <1>2. CASE socket = "signal" /\ Signals!Init /\ NoRequests
    <2>1. peers \in Pairings
      BY <1>2, WireAssumption DEF NoRequests
    <2>2. Inv
      BY <1>2, <2>1, InitInv DEF NoRequests, Init
    <2>3. SignalsOK
      BY <1>2, QuietClient DEF Signals!Init
    <2> QED  BY <2>2, <2>3 DEF WireOK
  <1> QED  BY <1>1, <1>2 DEF WireInit

LEMMA WireStepOK ==
  ASSUME WireOK, [RpcSocket \/ SignalSocket]_<<socket, vars, signalVars>>
  PROVE  WireOK'
  <1>1. CASE RpcSocket
    BY <1>1, NextInv, SignalsStay DEF WireOK, RpcSocket
  <1>2. CASE SignalSocket
    BY <1>2, SignalStep, StutterInv DEF WireOK, SignalSocket
  <1>3. CASE UNCHANGED <<socket, vars, signalVars>>
    BY <1>3, SignalsStay, StutterInv DEF WireOK
  <1> QED  BY <1>1, <1>2, <1>3

THEOREM WireHolds == WireSpec => []WireOK
  BY WireInitOK, WireStepOK, PTL DEF WireSpec

\* On either socket what is queued is whole, in order and behind what was handled.
THEOREM QueuesAreWhole == WireSpec => []WireInv
  <1>1. WireOK => WireInv
    BY DEF WireOK, Inv, SignalsOK, WireInv
  <1> QED  BY <1>1, WireHolds, PTL

\* A callback gets the payload of the signal it is called for, once and in order,
\* whatever the peers' versions.
THEOREM CallbacksMatchSignals == WireSpec => []CallbacksMatch
  <1>1. WireOK => CallbacksMatch
    BY DEF WireOK, SignalsOK
  <1> QED  BY <1>1, WireHolds, PTL

\* Whatever the versions of the peers, a client loses no signal it understands but
\* the one that follows a signal it misunderstands, and only those end it.
THEOREM LossesAreLocal == WireSpec => []LossIsLocal
  <1>1. WireOK => LossIsLocal
    BY DEF WireOK, SignalsOK
  <1> QED  BY <1>1, WireHolds, PTL

=============================================================================
