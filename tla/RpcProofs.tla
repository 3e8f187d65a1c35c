----------------------------- MODULE RpcProofs -----------------------------
(***************************************************************************)
(* Proofs about RpcSystem, for every set of clients, methods and calls.    *)
(***************************************************************************)
EXTENDS RpcSystem, SequenceTheorems, TLAPS

USE DEF NoLink, NoCall

-----------------------------------------------------------------------------
(* Sequences: what the operators the actions use return.                   *)

\* A prefix has the elements of the sequence, in their places.
LEMMA PrefixFacts ==
  ASSUME NEW S, NEW s \in Seq(S), NEW t \in Prefixes(s)
  PROVE  /\ t \in Seq(S)
         /\ Len(t) <= Len(s)
         /\ \A k \in DOMAIN t : k \in DOMAIN s /\ t[k] = s[k]
<1>1. PICK n \in 0..Len(s) : t = SubSeq(s, 1, n)
  BY DEF Prefixes
<1>2. Len(s) \in Nat /\ DOMAIN s = 1..Len(s)
  BY LenProperties
<1>3. t \in Seq(S) /\ Len(t) = n /\ \A k \in 1..n : t[k] = s[k]
  BY <1>1, <1>2
<1> QED
  BY <1>2, <1>3, LenProperties

\* The tail of a nonempty sequence: its elements, one place earlier.
LEMMA TailFacts ==
  ASSUME NEW S, NEW s \in Seq(S), s # <<>>
  PROVE  /\ Tail(s) \in Seq(S)
         /\ Head(s) \in S
         /\ Head(s) = s[1] /\ 1 \in DOMAIN s
         /\ \A k \in DOMAIN Tail(s) : k + 1 \in DOMAIN s /\ k \in Nat \ {0} /\ Tail(s)[k] = s[k + 1]
<1>1. Tail(s) \in Seq(S) /\ Len(Tail(s)) = Len(s) - 1 /\ Head(s) \in S
      /\ \A k \in 1..Len(Tail(s)) : Tail(s)[k] = s[k + 1]
  BY HeadTailProperties
<1>2. Len(s) \in Nat \ {0} /\ DOMAIN s = 1..Len(s) /\ DOMAIN Tail(s) = 1..Len(Tail(s))
  BY <1>1, LenProperties, EmptySeq
<1>3. Head(s) = s[1]
  BY <1>1
<1> QED
  BY <1>1, <1>2, <1>3

\* Appending keeps every element in its place and puts the new one last.
LEMMA AppendFacts ==
  ASSUME NEW S, NEW s \in Seq(S), NEW e \in S
  PROVE  /\ Append(s, e) \in Seq(S)
         /\ Append(s, e) # <<>>
         /\ DOMAIN Append(s, e) = 1..(Len(s) + 1)
         /\ DOMAIN s = 1..Len(s) /\ Len(s) \in Nat
         /\ \A k \in DOMAIN s : Append(s, e)[k] = s[k]
         /\ Append(s, e)[Len(s) + 1] = e
<1>1. Append(s, e) \in Seq(S) /\ Len(Append(s, e)) = Len(s) + 1
      /\ (\A k \in 1..Len(s) : Append(s, e)[k] = s[k])
      /\ Append(s, e)[Len(s) + 1] = e
  BY AppendProperties
<1>2. Len(s) \in Nat /\ DOMAIN s = 1..Len(s) /\ DOMAIN Append(s, e) = 1..Len(Append(s, e))
  BY <1>1, LenProperties
<1>3. Append(s, e) # <<>>
  BY <1>1, <1>2, EmptySeq
<1> QED
  BY <1>1, <1>2, <1>3

-----------------------------------------------------------------------------
(* Type correctness.                                                       *)

LEMMA PrefixStaysTyped ==
  ASSUME LinksTypeOK, NEW l \in Link, NEW arrives \in Prefixes(inq[l])
  PROVE  [inq EXCEPT ![l] = arrives] \in [Link -> Seq(Request)]
<1>1. inq[l] \in Seq(Request)
  BY DEF LinksTypeOK
<1>2. arrives \in Seq(Request)
  BY <1>1, PrefixFacts
<1> QED
  BY <1>2 DEF LinksTypeOK

LEMMA ConnectTyped ==
  ASSUME LinksTypeOK, NEW c \in Client, Connect(c)
  PROVE  LinksTypeOK'
BY LinksAssumption DEF LinksTypeOK, Connect, Link

LEMMA DisconnectTyped ==
  ASSUME LinksTypeOK, NEW c \in Client, Disconnect(c)
  PROVE  LinksTypeOK'
<1>1. link[c] \in Link
  BY DEF LinksTypeOK, Disconnect
<1>2. PICK arrives \in Prefixes(inq[link[c]]) : inq' = [inq EXCEPT ![link[c]] = arrives]
  BY DEF Disconnect
<1>3. inq' \in [Link -> Seq(Request)]
  BY <1>1, <1>2, PrefixStaysTyped
<1> QED
  BY <1>3 DEF LinksTypeOK, Disconnect

LEMMA BreakTyped ==
  ASSUME LinksTypeOK, NEW c \in Client, Break(c)
  PROVE  LinksTypeOK'
<1>1. link[c] \in Link
  BY DEF LinksTypeOK, Break
<1>2. PICK arrives \in Prefixes(inq[link[c]]) : inq' = [inq EXCEPT ![link[c]] = arrives]
  BY DEF Break
<1>3. inq' \in [Link -> Seq(Request)]
  BY <1>1, <1>2, PrefixStaysTyped
<1>4. PICK kept \in Prefixes(inbox[c]) : inbox' = [inbox EXCEPT ![c] = kept]
  BY DEF Break
<1>5. kept \in Seq(CallId)
  BY <1>4, PrefixFacts DEF LinksTypeOK
<1>6. inbox' \in [Client -> Seq(CallId)]
  BY <1>4, <1>5 DEF LinksTypeOK
<1>7. lastLink' \in Link /\ link' \in [Client -> {NoLink} \cup Link]
  BY LinksAssumption DEF LinksTypeOK, Break, Link
<1> QED
  BY <1>3, <1>6, <1>7 DEF LinksTypeOK, Break

LEMMA DeliverTyped ==
  ASSUME LinksTypeOK, NEW c \in Client, Deliver(c)
  PROVE  LinksTypeOK'
<1>1. link[c] \in Link /\ out[c] \in Seq(Request) /\ out[c] # <<>>
  BY DEF LinksTypeOK, Deliver
<1>2. Tail(out[c]) \in Seq(Request) /\ Head(out[c]) \in Request
  BY <1>1, TailFacts
<1>3. Append(inq[link[c]], Head(out[c])) \in Seq(Request)
  BY <1>1, <1>2, AppendFacts DEF LinksTypeOK
<1>4. out' \in [Client -> Seq(Request)] /\ inq' \in [Link -> Seq(Request)]
  BY <1>1, <1>2, <1>3 DEF LinksTypeOK, Deliver
<1> QED
  BY <1>4 DEF LinksTypeOK, Deliver

LEMMA SendTyped ==
  ASSUME LinksTypeOK, NEW c \in Client, NEW r \in Request, Send(c, r)
  PROVE  LinksTypeOK'
<1>1. Append(out[c], r) \in Seq(Request)
  BY AppendFacts DEF LinksTypeOK
<1> QED
  BY <1>1 DEF LinksTypeOK, Send

LEMMA TakeAndReplyTyped ==
  ASSUME LinksTypeOK, NEW l \in Link, NEW n \in Nat, inq[l] # <<>>, TakeAndReply(l, n)
  PROVE  LinksTypeOK' /\ Head(inq[l]).id \in CallId
<1>1. Tail(inq[l]) \in Seq(Request) /\ Head(inq[l]) \in Request
  BY TailFacts DEF LinksTypeOK
<1> DEFINE answers == [i \in 1..n |-> Head(inq[l]).id]
<1>2. Head(inq[l]).id \in CallId
  BY <1>1 DEF Request
<1>3. answers \in Seq(CallId)
  BY <1>2
<1>4. \A c \in Client : inbox[c] \o answers \in Seq(CallId)
  BY <1>3, ConcatProperties DEF LinksTypeOK
<1> HIDE DEF answers
<1>5. inbox' = [c \in Client |-> IF link[c] = l THEN inbox[c] \o answers ELSE inbox[c]]
  BY DEF TakeAndReply, answers
<1>6. inbox' \in [Client -> Seq(CallId)]
  BY <1>4, <1>5 DEF LinksTypeOK
<1> QED
  BY <1>1, <1>2, <1>6 DEF LinksTypeOK, TakeAndReply

LEMMA UnbindTyped == ASSUME LinksTypeOK, Unbind PROVE LinksTypeOK'
<1>1. <<>> \in Seq(Request)
  OBVIOUS
<1> QED
  BY <1>1 DEF LinksTypeOK, Unbind

LEMMA BindTyped == ASSUME LinksTypeOK, Bind PROVE LinksTypeOK'
BY DEF LinksTypeOK, Bind

-----------------------------------------------------------------------------
(***************************************************************************)
(* The kinds of steps the system takes, whichever language takes them.     *)
(***************************************************************************)
Opens(c) == Connect(c) /\ UNCHANGED <<clientVars, executed>>
Makes(c, m) == SendCall(c, m) /\ UNCHANGED executed
Reads(c) == TakeReply(c) /\ UNCHANGED executed
TimesOut(c) == RaiseCall(c) /\ Disconnect(c) /\ UNCHANGED executed
Interrupted(c) == Interrupt(c) /\ UNCHANGED executed
Misreads(c) == Misread(c) /\ UNCHANGED executed
Closes(c) == wait[c] = NoCall /\ Disconnect(c) /\ UNCHANGED <<clientVars, executed>>
Breaks(c) == Break(c) /\ UNCHANGED <<clientVars, executed>>
Delivers(c) == Deliver(c) /\ UNCHANGED <<clientVars, executed>>
Restarts == (Unbind \/ Bind) /\ UNCHANGED <<clientVars, executed>>

Answers(m) == PyReplies(m) \cup CppReplies(m) \cup {0}
Runs(l, n) ==
  /\ inq[l] # <<>>
  /\ n \in Answers(Head(inq[l]).method)
  /\ RunHandler(l, n)

StepKind ==
  \/ \E c \in Client : \/ Opens(c) \/ Reads(c) \/ TimesOut(c) \/ Interrupted(c)
                       \/ Misreads(c) \/ Closes(c) \/ Breaks(c) \/ Delivers(c)
  \/ \E c \in Client, m \in Method : Makes(c, m)
  \/ \E l \in Link : \E n \in Answers(Head(inq[l]).method) : Runs(l, n)
  \/ Restarts

\* A C++ destructor with an empty pipe is a Disconnect that cuts nothing off.
LEMMA CppCloseCloses ==
  ASSUME TypeOK, NEW c \in Client, CppClose(c), UNCHANGED executed
  PROVE  Closes(c)
<1> USE DEF TypeOK, LinksTypeOK, CppClose
<1>1. link[c] \in Link /\ inq[link[c]] \in Seq(Request)
  OBVIOUS
<1>2. inq[link[c]] \in Prefixes(inq[link[c]])
  <2>1. Len(inq[link[c]]) \in 0..Len(inq[link[c]])
    BY <1>1, LenProperties
  <2>2. SubSeq(inq[link[c]], 1, Len(inq[link[c]])) = inq[link[c]]
    BY <1>1
  <2> QED
    BY <2>1, <2>2 DEF Prefixes
<1>3. inq' = [inq EXCEPT ![link[c]] = inq[link[c]]]
  BY <1>1
<1>4. out' = [out EXCEPT ![c] = <<>>]
  OBVIOUS
<1> QED
  BY <1>2, <1>3, <1>4 DEF Closes, Disconnect, clientVars

\* Every step of the system is of one of these kinds.
LEMMA NextIsStepKind ==
  ASSUME TypeOK, Next
  PROVE  StepKind
<1>1. ASSUME NEW c \in Client, ClientStep(c)
      PROVE  StepKind
  <2>1. CASE CppClose(c)
    BY <1>1, <2>1, CppCloseCloses DEF ClientStep, StepKind, serverVars
  <2> QED
    BY <1>1, <2>1 DEF ClientStep, StepKind, serverVars, PyOpen, CppOpen, PyCall, CppCall,
      PyReturn, CppReturn, PyTimeout, PyClose, LinkBreak, DeliverRequest,
      Opens, Makes, Reads, TimesOut, Interrupted, Misreads, Closes, Breaks, Delivers, clientVars
<1>2. ASSUME NEW l \in Link, PyServe(l) \/ CppServe(l)
      PROVE  StepKind
  <2>1. PICK n \in Answers(Head(inq[l]).method) : RunHandler(l, n) /\ inq[l] # <<>>
    BY <1>2 DEF PyServe, CppServe, Raises, Answers
  <2> QED
    BY <2>1 DEF StepKind, Runs
<1>3. CASE StopServer \/ StartServer
  BY <1>3 DEF StopServer, StartServer, StepKind, Restarts, serverVars
<1> QED
  BY <1>1, <1>2, <1>3 DEF Next

LEMMA AnswersAreNumbers ==
  ASSUME NEW m \in Method
  PROVE  Answers(m) \subseteq Nat
<1>1. Returns[m] \in ReturnKind
  BY IdlAssumption
<1> QED
  BY <1>1, IdlAssumption DEF Answers, PyReplies, CppReplies, ReturnKind

\* The request a server step takes.
LEMMA RunsFacts ==
  ASSUME TypeOK, NEW l \in Link, NEW n, Runs(l, n)
  PROVE  /\ Head(inq[l]) \in Request
         /\ Head(inq[l]).id \in CallId /\ Head(inq[l]).method \in Method
         /\ n \in Nat
<1>1. inq[l] \in Seq(Request) /\ inq[l] # <<>>
  BY DEF TypeOK, LinksTypeOK, Runs
<1>2. Head(inq[l]) \in Request
  BY <1>1, TailFacts
<1>3. Head(inq[l]).id \in CallId /\ Head(inq[l]).method \in Method
  BY <1>2 DEF Request
<1> QED
  BY <1>2, <1>3, AnswersAreNumbers DEF Runs

LEMMA TypeInit == ASSUME Init PROVE TypeOK
<1>1. LinksTypeOK
  BY DEF Init, LinksInit, LinksTypeOK
<1>2. ClientTypeOK
  BY LinksAssumption DEF Init, ClientInit, ClientTypeOK, Status
<1>3. ServerTypeOK
  BY DEF Init, ServerInit, ServerTypeOK
<1> QED
  BY <1>1, <1>2, <1>3 DEF TypeOK

LEMMA TypeStep ==
  ASSUME TypeOK, [Next]_vars
  PROVE  TypeOK'
<1> USE DEF TypeOK
<1> SUFFICES ASSUME StepKind PROVE TypeOK'
  <2>1. CASE UNCHANGED vars
    BY <2>1 DEF vars, linkVars, clientVars, serverVars, LinksTypeOK, ClientTypeOK, ServerTypeOK
  <2> QED
    BY <2>1, NextIsStepKind
<1>1. ASSUME NEW c \in Client, Opens(c) PROVE TypeOK'
  BY <1>1, ConnectTyped DEF Opens, clientVars, ClientTypeOK, ServerTypeOK
<1>2. ASSUME NEW c \in Client, Reads(c) PROVE TypeOK'
  <2>1. wait[c] \in CallId /\ inbox[c] \in Seq(CallId) /\ inbox[c] # <<>>
    BY <1>2 DEF Reads, TakeReply, ClientTypeOK, LinksTypeOK
  <2>2. Head(inbox[c]) \in CallId /\ Tail(inbox[c]) \in Seq(CallId)
    BY <2>1, TailFacts
  <2>3. LinksTypeOK'
    BY <1>2, <2>2 DEF Reads, TakeReply, LinksTypeOK
  <2>4. ClientTypeOK'
    BY <1>2, <2>1, <2>2 DEF Reads, TakeReply, ClientTypeOK, Status
  <2> QED
    BY <1>2, <2>3, <2>4 DEF Reads, ServerTypeOK
<1>3. ASSUME NEW c \in Client, TimesOut(c) PROVE TypeOK'
  <2>1. LinksTypeOK'
    BY <1>3, DisconnectTyped DEF TimesOut
  <2>2. ClientTypeOK'
    BY <1>3 DEF TimesOut, RaiseCall, ClientTypeOK, Status
  <2> QED
    BY <1>3, <2>1, <2>2 DEF TimesOut, ServerTypeOK
<1>4. ASSUME NEW c \in Client, Interrupted(c) PROVE TypeOK'
  BY <1>4 DEF Interrupted, Interrupt, RaiseCall, linkVars, LinksTypeOK, ClientTypeOK,
    ServerTypeOK, Status
<1>5. ASSUME NEW c \in Client, Closes(c) PROVE TypeOK'
  BY <1>5, DisconnectTyped DEF Closes, clientVars, ClientTypeOK, ServerTypeOK
<1>6. ASSUME NEW c \in Client, Breaks(c) PROVE TypeOK'
  BY <1>6, BreakTyped DEF Breaks, clientVars, ClientTypeOK, ServerTypeOK
<1>7. ASSUME NEW c \in Client, Delivers(c) PROVE TypeOK'
  BY <1>7, DeliverTyped DEF Delivers, clientVars, ClientTypeOK, ServerTypeOK
<1>8. ASSUME NEW c \in Client, NEW m \in Method, Makes(c, m) PROVE TypeOK'
  <2>1. nextId \in CallId
    BY <1>8, LinksAssumption DEF Makes, SendCall, ClientTypeOK, CallId
  <2>2. LinksTypeOK'
    BY <1>8, <2>1, SendTyped DEF Makes, SendCall, Request
  <2>3. ClientTypeOK'
    BY <1>8, <2>1, LinksAssumption
       DEF Makes, SendCall, ClientTypeOK, LinksTypeOK, Status, CallId
  <2> QED
    BY <1>8, <2>2, <2>3 DEF Makes, ServerTypeOK
<1>9. ASSUME NEW l \in Link, NEW n \in Answers(Head(inq[l]).method), Runs(l, n) PROVE TypeOK'
  <2>2. n \in Nat
    BY <1>9, RunsFacts
  <2>3. LinksTypeOK' /\ Head(inq[l]).id \in CallId
    BY <1>9, <2>2, TakeAndReplyTyped DEF Runs, RunHandler
  <2>4. ServerTypeOK'
    BY <1>9, <2>3, AppendFacts DEF Runs, RunHandler, ServerTypeOK
  <2> QED
    BY <1>9, <2>3, <2>4 DEF Runs, RunHandler, clientVars, ClientTypeOK
<1>10. CASE Restarts
  BY <1>10, UnbindTyped, BindTyped DEF Restarts, clientVars, ClientTypeOK, ServerTypeOK
<1>11. ASSUME NEW c \in Client, Misreads(c) PROVE TypeOK'
  <2>1. inbox[c] \in Seq(CallId) /\ inbox[c] # <<>>
    BY <1>11 DEF Misreads, Misread, LinksTypeOK
  <2>2. Tail(inbox[c]) \in Seq(CallId)
    BY <2>1, TailFacts
  <2>3. LinksTypeOK'
    BY <1>11, <2>2 DEF Misreads, Misread, LinksTypeOK
  <2>4. ClientTypeOK'
    BY <1>11 DEF Misreads, Misread, RaiseCall, ClientTypeOK, Status
  <2> QED
    BY <1>11, <2>3, <2>4 DEF Misreads, ServerTypeOK
<1> QED
  BY <1>1, <1>2, <1>3, <1>4, <1>5, <1>6, <1>7, <1>8, <1>9, <1>10, <1>11 DEF StepKind

\* TypeOK holds in every reachable state, for every set of clients and methods
\* and every bound.
THEOREM TypeCorrect == Spec => []TypeOK
BY TypeInit, TypeStep, PTL DEF Spec


-----------------------------------------------------------------------------
(* LinkInv: every connection has one owner.                                *)

LEMMA LinkInit == ASSUME Init PROVE LinkInv
BY LinksAssumption DEF Init, LinksInit, ServerInit, LinkInv, Link

LEMMA LinkStep ==
  ASSUME TypeOK, LinkInv, [Next]_vars
  PROVE  LinkInv'
<1> USE DEF TypeOK
<1>0. /\ lastLink \in Nat /\ Link \subseteq Nat /\ \A c \in Client : link[c] \in Nat
      /\ \A k \in DOMAIN executed : executed[k].link \in Nat
  <2>1. \A k \in DOMAIN executed : executed[k] \in [id : CallId, link : Link]
    BY ElementOfSeq, LenProperties DEF ServerTypeOK
  <2> QED
    BY <2>1, LinksAssumption DEF LinksTypeOK, Link
<1> SUFFICES ASSUME StepKind PROVE LinkInv'
  <2>1. CASE UNCHANGED vars
    BY <2>1 DEF vars, linkVars, serverVars, LinkInv
  <2> QED
    BY <2>1, NextIsStepKind
<1>1. ASSUME NEW c \in Client, Opens(c) PROVE LinkInv'
  BY <1>0, <1>1 DEF Opens, Connect, LinkInv, LinksTypeOK
<1>2. ASSUME NEW c \in Client, Reads(c) \/ Misreads(c) PROVE LinkInv'
  BY <1>2 DEF Reads, TakeReply, Misreads, Misread, LinkInv, LinksTypeOK
<1>3. ASSUME NEW c \in Client, TimesOut(c) \/ Closes(c) PROVE LinkInv'
  <2>1. Disconnect(c) /\ UNCHANGED executed
    BY <1>3 DEF TimesOut, Closes
  <2>2. \A l \in Link : l > lastLink => inq'[l] = inq[l]
    BY <1>0, <2>1 DEF Disconnect, LinksTypeOK, LinkInv
  <2> QED
    BY <1>0, <2>1, <2>2 DEF Disconnect, LinkInv, LinksTypeOK
<1>4. ASSUME NEW c \in Client, Interrupted(c) PROVE LinkInv'
  BY <1>4 DEF Interrupted, Interrupt, linkVars, LinkInv
<1>5. ASSUME NEW c \in Client, Breaks(c) PROVE LinkInv'
  <2>1. \A l \in Link : l > lastLink => inq'[l] = inq[l]
    BY <1>0, <1>5 DEF Breaks, Break, LinksTypeOK, LinkInv
  <2>2. \A d \in Client : d # c => inbox'[d] = inbox[d]
    BY <1>5 DEF Breaks, Break, LinksTypeOK
  <2>3. /\ link' = [link EXCEPT ![c] = lastLink + 1] /\ lastLink' = lastLink + 1
        /\ link[c] # NoLink /\ out' = out /\ executed' = executed
    BY <1>5 DEF Breaks, Break
  <2>4. /\ \A d \in Client : link'[d] <= lastLink'
        /\ \A k \in DOMAIN executed' : executed'[k].link <= lastLink'
    BY <1>0, <2>3 DEF LinkInv, LinksTypeOK
  <2>5. \A d, e \in Client : d # e /\ link'[d] = link'[e] => link'[d] = NoLink
    BY <1>0, <2>3 DEF LinkInv, LinksTypeOK
  <2>6. \A d \in Client : link'[d] = NoLink => out'[d] = <<>> /\ inbox'[d] = <<>>
    BY <1>0, <2>2, <2>3, LinksAssumption DEF LinkInv, LinksTypeOK
  <2>7. \A l \in Link : l > lastLink' => inq'[l] = <<>>
    BY <1>0, <2>1, <2>3 DEF LinkInv
  <2> QED
    BY <2>4, <2>5, <2>6, <2>7 DEF LinkInv
<1>6. ASSUME NEW c \in Client, Delivers(c) PROVE LinkInv'
  BY <1>0, <1>6 DEF Delivers, Deliver, LinkInv, LinksTypeOK
<1>7. ASSUME NEW c \in Client, NEW m \in Method, Makes(c, m) PROVE LinkInv'
  BY <1>7 DEF Makes, SendCall, Send, LinkInv, LinksTypeOK
<1>8. ASSUME NEW l \in Link, NEW n \in Answers(Head(inq[l]).method), Runs(l, n)
      PROVE  LinkInv'
  <2>1. l <= lastLink
    BY <1>0, <1>8 DEF Runs, LinkInv
  <2>2. \A k \in Link : k > lastLink => inq'[k] = <<>>
    BY <1>0, <1>8, <2>1 DEF Runs, RunHandler, TakeAndReply, LinkInv, LinksTypeOK
  <2>3. \A c \in Client : link[c] = NoLink => inbox'[c] = inbox[c]
    BY <1>8 DEF Runs, RunHandler, TakeAndReply, Link
  <2>4. Head(inq[l]).id \in CallId
    BY <1>8, RunsFacts
  <2>5. \A k \in DOMAIN executed' : executed'[k].link <= lastLink
    <3> DEFINE e == [id |-> Head(inq[l]).id, link |-> l]
    <3>1. executed' = Append(executed, e)
      BY <1>8 DEF Runs, RunHandler
    <3>2. e \in [id : CallId, link : Link] /\ executed \in Seq([id : CallId, link : Link])
      BY <2>4 DEF ServerTypeOK
    <3> HIDE DEF e
    <3>3. e.link = l
      BY DEF e
    <3> QED
      BY <2>1, <3>1, <3>2, <3>3, AppendFacts DEF LinkInv
  <2> QED
    BY <1>8, <2>2, <2>3, <2>5 DEF Runs, RunHandler, TakeAndReply, LinkInv
<1>9. CASE Restarts
  BY <1>9 DEF Restarts, Unbind, Bind, LinkInv
<1> QED
  BY <1>1, <1>2, <1>3, <1>4, <1>5, <1>6, <1>7, <1>8, <1>9 DEF StepKind


-----------------------------------------------------------------------------
(* OrderInv: each request is in one place, the places in order.            *)

\* t holds no request s does not hold, and is in order if s is.
Shrinks(t, s) == Ids(t) \subseteq Ids(s) /\ (Increasing(s) => Increasing(t))

LEMMA PrefixShrinks ==
  ASSUME NEW s \in Seq(Request), NEW t \in Prefixes(s)
  PROVE  Shrinks(t, s)
<1>1. \A k \in DOMAIN t : k \in DOMAIN s /\ t[k] = s[k]
  BY PrefixFacts
<1> QED
  BY <1>1 DEF Shrinks, Ids, Increasing

LEMMA SelfShrinks == \A s : Shrinks(s, s)
BY DEF Shrinks

LEMMA EmptyShrinks == \A s : Shrinks(<<>>, s) /\ Ids(<<>>) = {}
BY DEF Shrinks, Ids, Increasing

\* The tail holds what comes after the head.
LEMMA TailShrinks ==
  ASSUME NEW s \in Seq(Request), s # <<>>
  PROVE  /\ Shrinks(Tail(s), s)
         /\ Head(s).id \in Ids(s)
         /\ Increasing(s) => Before({Head(s).id}, Ids(Tail(s)))
<1>1. /\ Head(s) = s[1] /\ 1 \in DOMAIN s
      /\ \A k \in DOMAIN Tail(s) :
            k + 1 \in DOMAIN s /\ k \in Nat \ {0} /\ Tail(s)[k] = s[k + 1]
  BY TailFacts
<1>2. Ids(Tail(s)) \subseteq Ids(s)
  BY <1>1 DEF Ids
<1>3. ASSUME Increasing(s) PROVE Increasing(Tail(s))
  <2> SUFFICES ASSUME NEW j \in DOMAIN Tail(s), NEW k \in DOMAIN Tail(s), j < k
               PROVE  Tail(s)[j].id < Tail(s)[k].id
    BY DEF Increasing
  <2>1. j + 1 < k + 1
    BY <1>1
  <2> QED
    BY <1>1, <1>3, <2>1 DEF Increasing
<1>4. ASSUME Increasing(s) PROVE Before({Head(s).id}, Ids(Tail(s)))
  <2> SUFFICES ASSUME NEW k \in DOMAIN Tail(s) PROVE s[1].id < Tail(s)[k].id
    BY <1>1 DEF Before, Ids
  <2>1. 1 < k + 1
    BY <1>1
  <2> QED
    BY <1>1, <1>4, <2>1 DEF Increasing
<1> QED
  BY <1>1, <1>2, <1>3, <1>4 DEF Shrinks, Ids

\* Appending a request that comes after all of s.
LEMMA AppendGrows ==
  ASSUME NEW s \in Seq(Request), NEW r \in Request
  PROVE  /\ Ids(Append(s, r)) = Ids(s) \cup {r.id}
         /\ Increasing(s) /\ Before(Ids(s), {r.id}) => Increasing(Append(s, r))
<1>1. /\ DOMAIN Append(s, r) = 1..(Len(s) + 1)
      /\ DOMAIN s = 1..Len(s) /\ Len(s) \in Nat
      /\ \A k \in DOMAIN s : Append(s, r)[k] = s[k]
      /\ Append(s, r)[Len(s) + 1] = r
  BY AppendFacts
<1>2. Ids(Append(s, r)) = Ids(s) \cup {r.id}
  <2>1. DOMAIN Append(s, r) = DOMAIN s \cup {Len(s) + 1}
    BY <1>1
  <2> QED
    BY <1>1, <2>1 DEF Ids
<1>3. ASSUME Increasing(s), Before(Ids(s), {r.id}) PROVE Increasing(Append(s, r))
  <2> SUFFICES ASSUME NEW j \in 1..(Len(s) + 1), NEW k \in 1..(Len(s) + 1), j < k
               PROVE  Append(s, r)[j].id < Append(s, r)[k].id
    BY <1>1 DEF Increasing
  <2>1. j \in DOMAIN s
    BY <1>1
  <2>2. CASE k \in DOMAIN s
    BY <1>1, <1>3, <2>1, <2>2 DEF Increasing
  <2>3. CASE k = Len(s) + 1
    BY <1>1, <1>3, <2>1, <2>3 DEF Before, Ids
  <2> QED
    BY <1>1, <2>2, <2>3
<1> QED
  BY <1>2, <1>3

\* Requests are numbered with calls.
LEMMA IdsAreCalls ==
  ASSUME TypeOK
  PROVE  /\ \A c \in Client : Ids(out[c]) \subseteq CallId
         /\ \A l \in Link : Ids(inq[l]) \subseteq CallId
         /\ Ran \subseteq CallId
         /\ \A l \in Link : RanOn(l) \subseteq Ran
         /\ CallId \subseteq Nat /\ nextId \in Nat
<1>1. ASSUME NEW s \in Seq(Request) PROVE Ids(s) \subseteq CallId
  <2>1. \A k \in DOMAIN s : s[k] \in Request
    BY ElementOfSeq, LenProperties
  <2>2. \A k \in DOMAIN s : s[k].id \in CallId
    BY <2>1 DEF Request
  <2> QED
    BY <2>2 DEF Ids
<1>2. Ran \subseteq CallId
  <2>1. \A k \in DOMAIN executed : executed[k] \in [id : CallId, link : Link]
    BY ElementOfSeq, LenProperties DEF TypeOK, ServerTypeOK
  <2> QED
    BY <2>1 DEF Ran
<1>3. \A l \in Link : RanOn(l) \subseteq Ran
  BY DEF RanOn, Ran
<1>4. CallId \subseteq Nat /\ nextId \in Nat
  BY LinksAssumption DEF CallId, TypeOK, ClientTypeOK
<1> QED
  BY <1>1, <1>2, <1>3, <1>4 DEF TypeOK, LinksTypeOK

\* Steps that put no request anywhere: places lose requests, clients change to
\* connections nothing was sent on.
LEMMA PlacesShrink ==
  ASSUME TypeOK, LinkInv, OrderInv, TypeOK',
         \A c \in Client : Shrinks(out'[c], out[c]),
         \A l \in Link : Shrinks(inq'[l], inq[l]),
         UNCHANGED <<executed, nextId>>,
         \A c \in Client : link'[c] \in {NoLink, link[c]} \/ link'[c] > lastLink
  PROVE  OrderInv'
<1> USE DEF OrderInv
<1>1. OnePlace'
  <2>1. Ran' = Ran
    BY DEF Ran
  <2> QED
    BY <2>1 DEF OnePlace, Shrinks
<1>2. \A l \in Link : RanOn(l)' = RanOn(l)
  BY DEF RanOn
<1>3. InOrder'
  <2>1. Ran' = Ran
    BY DEF Ran
  <2>2. ASSUME NEW c \in Client, link'[c] # NoLink
        PROVE  Before(Ids(inq[link[c]]) \cup RanOn(link[c]), Ids(out[c]))'
    <3>0. PICK k \in Link : k = link'[c]
      BY <2>2 DEF TypeOK, LinksTypeOK
    <3>1. RanOn(link[c])' = RanOn(k)
      BY <3>0 DEF RanOn
    <3> SUFFICES Before(Ids(inq'[k]) \cup RanOn(k), Ids(out'[c]))
      BY <3>0, <3>1 DEF Before
    <3>2. CASE k = link[c]
      BY <2>2, <3>0, <3>2 DEF InOrder, Before, Shrinks
    <3>3. CASE k > lastLink
      <4>1. Ids(inq[k]) = {}
        BY <3>3, EmptyShrinks DEF LinkInv
      <4>2. RanOn(k) = {}
        <5>1. ASSUME NEW j \in DOMAIN executed PROVE executed[j].link # k
          <6>1. executed[j] \in [id : CallId, link : Link]
            BY ElementOfSeq, LenProperties DEF TypeOK, ServerTypeOK
          <6> QED
            BY <6>1, <3>3, LinksAssumption DEF LinkInv, TypeOK, LinksTypeOK, Link
        <5> QED
          BY <5>1 DEF RanOn
      <4> QED
        BY <4>1, <4>2 DEF Before, Shrinks
    <3> QED
      BY <2>2, <3>0, <3>2, <3>3
  <2>3. \A c \in Client : Increasing(out'[c]) /\ Before(Ids(out'[c]), {nextId'})
    BY DEF InOrder, Shrinks, Before
  <2>4. \A l \in Link : Increasing(inq'[l]) /\ Before(Ids(inq'[l]), {nextId'})
    BY DEF InOrder, Shrinks, Before
  <2>5. \A l \in Link : Before(RanOn(l)', Ids(inq'[l]))
    BY <1>2 DEF InOrder, Shrinks, Before
  <2> QED
    BY <2>1, <2>2, <2>3, <2>4, <2>5 DEF InOrder, Before
<1>4. AtMostOnce' /\ LinkOrder'
  BY DEF AtMostOnce, LinkOrder
<1> QED
  BY <1>1, <1>3, <1>4


\* A new call is later than every other one.
LEMMA OrderSend ==
  ASSUME TypeOK, LinkInv, OrderInv, NEW c \in Client, NEW m \in Method, Makes(c, m)
  PROVE  OrderInv'
<1> DEFINE r == [id |-> nextId, method |-> m]
<1>1. nextId \in CallId /\ nextId' = nextId + 1 /\ link[c] \in Link
  BY LinksAssumption DEF Makes, SendCall, Send, TypeOK, ClientTypeOK, LinksTypeOK, CallId
<1>2. r \in Request /\ r.id = nextId
  BY <1>1 DEF Request
<1>3. out' = [out EXCEPT ![c] = Append(out[c], r)] /\ UNCHANGED <<link, inq, executed>>
  BY DEF Makes, SendCall, Send
<1> HIDE DEF r
<1>4. out[c] \in Seq(Request) /\ out'[c] = Append(out[c], r)
  BY <1>3 DEF TypeOK, LinksTypeOK
<1>5. \A d \in Client : d # c => out'[d] = out[d]
  BY <1>3 DEF TypeOK, LinksTypeOK
<1>6. Ids(out'[c]) = Ids(out[c]) \cup {nextId}
  BY <1>2, <1>4, AppendGrows
<1>7. Increasing(out'[c])
  BY <1>2, <1>4, AppendGrows DEF OrderInv, InOrder
<1>8. Ran' = Ran /\ \A l \in Link : RanOn(l)' = RanOn(l)
  BY <1>3 DEF Ran, RanOn
<1>9. /\ \A d \in Client : Ids(out[d]) \subseteq CallId /\ Before(Ids(out[d]), {nextId})
      /\ \A l \in Link : Ids(inq[l]) \subseteq CallId /\ Before(Ids(inq[l]), {nextId})
      /\ Ran \subseteq CallId /\ Before(Ran, {nextId})
      /\ \A l \in Link : RanOn(l) \subseteq Ran
      /\ CallId \subseteq Nat
  BY IdsAreCalls DEF OrderInv, InOrder
<1>12. ASSUME NEW S, S \subseteq CallId, Before(S, {nextId})
       PROVE  Before(S, {nextId'}) /\ Before(S \cup {nextId}, {nextId'})
  <2>1. ASSUME NEW i \in S PROVE i < nextId'
    <3>1. i \in Nat /\ nextId \in Nat /\ i < nextId
      BY <1>1, <1>9, <1>12, <2>1 DEF Before
    <3> QED
      BY <1>1, <3>1
  <2>2. nextId < nextId'
    BY <1>1, <1>9
  <2> QED
    BY <2>1, <2>2 DEF Before
<1>10. OnePlace'
  <2>1. /\ \A d \in Client : nextId \notin Ids(out[d])
        /\ \A l \in Link : nextId \notin Ids(inq[l])
        /\ nextId \notin Ran
    BY <1>1, <1>9 DEF Before
  <2>2. \A d \in Client : Ids(out'[d]) \subseteq Ids(out[d]) \cup {nextId}
                           /\ (d # c => Ids(out'[d]) = Ids(out[d]))
    BY <1>5, <1>6
  <2>3. \A d, e \in Client : d # e => Ids(out'[d]) \cap Ids(out'[e]) = {}
    BY <2>1, <2>2 DEF OrderInv, OnePlace
  <2>4. \A d \in Client, l \in Link : Ids(out'[d]) \cap Ids(inq[l]) = {}
    BY <2>1, <2>2 DEF OrderInv, OnePlace
  <2>5. \A d \in Client : Ids(out'[d]) \cap Ran = {}
    BY <2>1, <2>2 DEF OrderInv, OnePlace
  <2> QED
    BY <1>3, <1>8, <2>3, <2>4, <2>5 DEF OrderInv, OnePlace
<1>11. InOrder'
  <2>1. ASSUME NEW d \in Client
        PROVE  Increasing(out'[d]) /\ Before(Ids(out'[d]), {nextId'})
    <3>1. Ids(out'[d]) \subseteq Ids(out[d]) \cup {nextId}
      BY <1>5, <1>6
    <3>2. Before(Ids(out'[d]), {nextId'})
      <4>1. Ids(out[d]) \subseteq CallId /\ Before(Ids(out[d]), {nextId})
        BY <1>9
      <4>2. Before(Ids(out[d]) \cup {nextId}, {nextId'})
        BY <1>12, <4>1
      <4> QED
        BY <3>1, <4>2 DEF Before
    <3> QED
      BY <1>5, <1>7, <3>2 DEF OrderInv, InOrder
  <2>2. \A l \in Link : Increasing(inq'[l]) /\ Before(Ids(inq'[l]), {nextId'})
    <3>1. ASSUME NEW l \in Link PROVE Before(Ids(inq[l]), {nextId'})
      <4>1. Ids(inq[l]) \subseteq CallId /\ Before(Ids(inq[l]), {nextId})
        BY <1>9
      <4> QED
        BY <1>12, <4>1
    <3> QED
      BY <1>3, <3>1 DEF OrderInv, InOrder
  <2>3. Before(Ran', {nextId'})
    BY <1>8, <1>9, <1>12
  <2>4. ASSUME NEW d \in Client, link'[d] # NoLink
        PROVE  Before(Ids(inq[link[d]]) \cup RanOn(link[d]), Ids(out[d]))'
    <3>1. PICK k \in Link : k = link[d] /\ k = link'[d]
      BY <1>3, <2>4 DEF TypeOK, LinksTypeOK
    <3>2. RanOn(link[d])' = RanOn(k)
      BY <1>3, <3>1 DEF RanOn
    <3> SUFFICES Before(Ids(inq[k]) \cup RanOn(k), Ids(out'[d]))
      BY <1>3, <3>1, <3>2 DEF Before
    <3>3. Before(Ids(inq[k]) \cup RanOn(k), Ids(out[d]))
      BY <2>4, <3>1 DEF OrderInv, InOrder
    <3>4. Before(Ids(inq[k]) \cup RanOn(k), {nextId})
      BY <1>9 DEF Before
    <3> QED
      BY <1>5, <1>6, <3>3, <3>4 DEF Before
  <2>5. \A l \in Link : Before(RanOn(l)', Ids(inq'[l]))
    BY <1>3, <1>8 DEF OrderInv, InOrder
  <2> QED
    BY <2>1, <2>2, <2>3, <2>4, <2>5 DEF InOrder
<1> QED
  BY <1>3, <1>10, <1>11 DEF OrderInv, AtMostOnce, LinkOrder

\* Delivery moves the head of a pipe behind everything the connection carries.
LEMMA OrderDeliver ==
  ASSUME TypeOK, LinkInv, OrderInv, NEW c \in Client, Delivers(c)
  PROVE  OrderInv'
<1> DEFINE r == Head(out[c])
<1> DEFINE l == link[c]
<1>1. out[c] \in Seq(Request) /\ out[c] # <<>> /\ l \in Link /\ inq[l] \in Seq(Request)
  BY DEF Delivers, Deliver, TypeOK, LinksTypeOK
<1>2. r \in Request
  BY <1>1, TailFacts
<1>3. /\ out' = [out EXCEPT ![c] = Tail(out[c])]
      /\ inq' = [inq EXCEPT ![l] = Append(inq[l], r)]
      /\ UNCHANGED <<link, executed, nextId>>
  BY DEF Delivers, Deliver, clientVars
<1> HIDE DEF r
<1>4. /\ \A d \in Client : out'[d] = IF d = c THEN Tail(out[c]) ELSE out[d]
      /\ \A k \in Link : inq'[k] = IF k = l THEN Append(inq[l], r) ELSE inq[k]
  BY <1>1, <1>3 DEF TypeOK, LinksTypeOK
<1>5. /\ Increasing(out[c]) /\ Shrinks(Tail(out[c]), out[c])
      /\ r.id \in Ids(out[c]) /\ Before({r.id}, Ids(Tail(out[c])))
  BY <1>1, TailShrinks DEF OrderInv, InOrder, r
<1>6. Before(Ids(inq[l]) \cup RanOn(l), Ids(out[c]))
  BY DEF OrderInv, InOrder, Delivers, Deliver
<1>7. /\ Ids(Append(inq[l], r)) = Ids(inq[l]) \cup {r.id}
      /\ Increasing(Append(inq[l], r))
  <2>1. Increasing(inq[l]) /\ Before(Ids(inq[l]), {r.id})
    BY <1>1, <1>5, <1>6 DEF OrderInv, InOrder, Before
  <2> QED
    BY <1>1, <1>2, <2>1, AppendGrows
<1>8. Ran' = Ran /\ \A k \in Link : RanOn(k)' = RanOn(k)
  BY <1>3 DEF Ran, RanOn
<1>9. r.id \notin Ids(Tail(out[c])) /\ Ids(out[c]) \subseteq CallId /\ CallId \subseteq Nat
  BY <1>5, IdsAreCalls DEF Before
<1>10. OnePlace'
  <2>1. \A d \in Client : Ids(out'[d]) \subseteq Ids(out[d]) /\ r.id \notin Ids(out'[d])
    BY <1>4, <1>5, <1>9 DEF OrderInv, OnePlace, Shrinks
  <2>2. \A k \in Link : r.id \notin Ids(inq[k]) /\ r.id \notin Ran
    BY <1>5 DEF OrderInv, OnePlace
  <2>3. \A k \in Link : Ids(inq'[k]) = IF k = l THEN Ids(inq[l]) \cup {r.id} ELSE Ids(inq[k])
    BY <1>4, <1>7
  <2>4. \A d, e \in Client : d # e => Ids(out'[d]) \cap Ids(out'[e]) = {}
    BY <2>1 DEF OrderInv, OnePlace
  <2>5. \A j, k \in Link : j # k => Ids(inq'[j]) \cap Ids(inq'[k]) = {}
    BY <2>2, <2>3 DEF OrderInv, OnePlace
  <2>6. \A d \in Client, k \in Link : Ids(out'[d]) \cap Ids(inq'[k]) = {}
    BY <2>1, <2>3 DEF OrderInv, OnePlace
  <2>7. \A d \in Client : Ids(out'[d]) \cap Ran = {}
    BY <2>1 DEF OrderInv, OnePlace
  <2>8. \A k \in Link : Ids(inq'[k]) \cap Ran = {}
    BY <2>2, <2>3 DEF OrderInv, OnePlace
  <2> QED
    BY <1>8, <2>4, <2>5, <2>6, <2>7, <2>8 DEF OnePlace
<1>11. InOrder'
  <2>1. \A d \in Client : Increasing(out'[d]) /\ Before(Ids(out'[d]), {nextId'})
    BY <1>3, <1>4, <1>5 DEF OrderInv, InOrder, Before, Shrinks
  <2>2. \A k \in Link : Increasing(inq'[k]) /\ Before(Ids(inq'[k]), {nextId'})
    <3>1. Before(Ids(Append(inq[l], r)), {nextId})
      BY <1>1, <1>5, <1>7 DEF OrderInv, InOrder, Before
    <3> QED
      BY <1>3, <1>4, <1>7, <3>1 DEF OrderInv, InOrder
  <2>3. ASSUME NEW d \in Client, link'[d] # NoLink
        PROVE  Before(Ids(inq[link[d]]) \cup RanOn(link[d]), Ids(out[d]))'
    <3>1. PICK k \in Link : k = link[d] /\ k = link'[d]
      BY <1>3, <2>3 DEF TypeOK, LinksTypeOK
    <3>2. RanOn(link[d])' = RanOn(k)
      BY <1>3, <3>1 DEF RanOn
    <3> SUFFICES Before(Ids(inq'[k]) \cup RanOn(k), Ids(out'[d]))
      BY <3>1, <3>2 DEF Before
    <3>3. Before(Ids(inq[k]) \cup RanOn(k), Ids(out[d]))
      BY <2>3, <3>1 DEF OrderInv, InOrder
    <3>4. CASE d = c
      BY <1>4, <1>5, <1>7, <3>1, <3>3, <3>4 DEF Before, Shrinks
    <3>5. CASE d # c
      <4>1. k # l
        BY <1>1, <3>1, <3>5 DEF LinkInv
      <4> QED
        BY <1>4, <3>3, <3>5, <4>1
    <3> QED
      BY <3>4, <3>5
  <2>4. \A k \in Link : Before(RanOn(k)', Ids(inq'[k]))
    BY <1>4, <1>5, <1>6, <1>7, <1>8 DEF OrderInv, InOrder, Before
  <2> QED
    BY <1>3, <1>8, <2>1, <2>2, <2>3, <2>4 DEF OrderInv, InOrder
<1> QED
  BY <1>3, <1>10, <1>11 DEF OrderInv, AtMostOnce, LinkOrder


\* What one handler run adds to the record of runs.
LEMMA RunRecorded ==
  ASSUME TypeOK, NEW l \in Link, NEW n, Runs(l, n)
  PROVE  /\ Ran' = Ran \cup {Head(inq[l]).id}
         /\ \A k \in Link :
              RanOn(k)' = IF k = l THEN RanOn(l) \cup {Head(inq[l]).id} ELSE RanOn(k)
         /\ AtMostOnce /\ Head(inq[l]).id \notin Ran => AtMostOnce'
         /\ LinkOrder /\ Before(RanOn(l), {Head(inq[l]).id}) => LinkOrder'
<1> DEFINE h == Head(inq[l]).id
<1> DEFINE e == [id |-> h, link |-> l]
<1> DEFINE N == Len(executed)
<1>1. h \in CallId
  BY RunsFacts
<1> HIDE DEF h
<1>2. e \in [id : CallId, link : Link] /\ e.id = h /\ e.link = l
  BY <1>1
<1>3. executed' = Append(executed, e)
  BY DEF Runs, RunHandler, h
<1> HIDE DEF e
<1>4. /\ DOMAIN executed' = 1..(N + 1) /\ DOMAIN executed = 1..N /\ N \in Nat
      /\ \A k \in 1..N : executed'[k] = executed[k]
      /\ executed'[N + 1] = e
  BY <1>2, <1>3, AppendFacts DEF TypeOK, ServerTypeOK
<1> HIDE DEF N
<1>5. DOMAIN executed' = DOMAIN executed \cup {N + 1}
  BY <1>4
<1>6. Ran' = Ran \cup {h}
  BY <1>2, <1>4, <1>5 DEF Ran
<1>7. ASSUME NEW k \in Link
      PROVE  RanOn(k)' = IF k = l THEN RanOn(l) \cup {h} ELSE RanOn(k)
  BY <1>2, <1>4, <1>5 DEF RanOn
<1>8. ASSUME AtMostOnce, h \notin Ran PROVE AtMostOnce'
  <2> SUFFICES ASSUME NEW j \in 1..(N + 1), NEW k \in 1..(N + 1),
                      executed'[j].id = executed'[k].id
               PROVE  j = k
    BY <1>4 DEF AtMostOnce
  <2>1. \A i \in 1..N : executed[i].id # h
    BY <1>4, <1>8 DEF Ran
  <2>2. CASE j \in 1..N /\ k \in 1..N
    BY <1>4, <1>8, <2>2 DEF AtMostOnce
  <2> QED
    BY <1>2, <1>4, <2>1, <2>2
<1>9. ASSUME LinkOrder, Before(RanOn(l), {h}) PROVE LinkOrder'
  <2> SUFFICES ASSUME NEW j \in 1..(N + 1), NEW k \in 1..(N + 1), j < k,
                      executed'[j].link = executed'[k].link
               PROVE  executed'[j].id < executed'[k].id
    BY <1>4 DEF LinkOrder
  <2>1. j \in 1..N
    BY <1>4
  <2>2. CASE k \in 1..N
    BY <1>4, <1>9, <2>1, <2>2 DEF LinkOrder
  <2>3. CASE k = N + 1
    <3>1. executed[j].link = l
      BY <1>2, <1>4, <2>1, <2>3
    <3>2. executed[j].id \in RanOn(l)
      BY <1>4, <2>1, <3>1 DEF RanOn
    <3> QED
      BY <1>2, <1>4, <1>9, <2>1, <2>3, <3>2 DEF Before
  <2> QED
    BY <1>4, <2>2, <2>3
<1> QED
  BY <1>6, <1>7, <1>8, <1>9 DEF h

\* A handler run takes the oldest request of a connection out of it.
LEMMA OrderRuns ==
  ASSUME TypeOK, LinkInv, OrderInv, NEW l \in Link, NEW n, Runs(l, n)
  PROVE  OrderInv'
<1> DEFINE h == Head(inq[l]).id
<1>1. inq[l] \in Seq(Request) /\ inq[l] # <<>>
  BY DEF Runs, TypeOK, LinksTypeOK
<1>2. /\ inq' = [inq EXCEPT ![l] = Tail(inq[l])]
      /\ UNCHANGED <<out, link, nextId>>
  BY DEF Runs, RunHandler, TakeAndReply, clientVars
<1>3. \A k \in Link : inq'[k] = IF k = l THEN Tail(inq[l]) ELSE inq[k]
  BY <1>2 DEF TypeOK, LinksTypeOK
<1>4. /\ Increasing(inq[l]) /\ Shrinks(Tail(inq[l]), inq[l])
      /\ h \in Ids(inq[l]) /\ Before({h}, Ids(Tail(inq[l])))
  BY <1>1, TailShrinks DEF OrderInv, InOrder
<1>5. /\ h \notin Ids(Tail(inq[l])) /\ h \notin Ran
      /\ Before(RanOn(l), {h}) /\ Before({h}, {nextId})
      /\ h \in Nat
  BY <1>4, IdsAreCalls DEF OrderInv, OnePlace, InOrder, Before
<1>6. /\ Ran' = Ran \cup {h}
      /\ \A k \in Link : RanOn(k)' = IF k = l THEN RanOn(l) \cup {h} ELSE RanOn(k)
      /\ AtMostOnce' /\ LinkOrder'
  BY <1>5, RunRecorded DEF OrderInv
<1> HIDE DEF h
<1>7. \A k \in Link : /\ Ids(inq'[k]) \subseteq Ids(inq[k])
                      /\ Increasing(inq'[k])
                      /\ h \notin Ids(inq'[k])
  BY <1>3, <1>4, <1>5 DEF OrderInv, OnePlace, InOrder, Shrinks
<1>8. OnePlace'
  <2>1. \A j, k \in Link : j # k => Ids(inq'[j]) \cap Ids(inq'[k]) = {}
    BY <1>7 DEF OrderInv, OnePlace
  <2>2. \A d \in Client, k \in Link : Ids(out[d]) \cap Ids(inq'[k]) = {}
    BY <1>7 DEF OrderInv, OnePlace
  <2>3. \A d \in Client : Ids(out[d]) \cap Ran' = {}
    BY <1>4, <1>6 DEF OrderInv, OnePlace
  <2>4. \A k \in Link : Ids(inq'[k]) \cap Ran' = {}
    BY <1>6, <1>7 DEF OrderInv, OnePlace
  <2> QED
    BY <1>2, <2>1, <2>2, <2>3, <2>4 DEF OrderInv, OnePlace
<1>9. InOrder'
  <2>1. ASSUME NEW d \in Client, link'[d] # NoLink
        PROVE  Before(Ids(inq[link[d]]) \cup RanOn(link[d]), Ids(out[d]))'
    <3>1. PICK k \in Link : k = link[d] /\ k = link'[d]
      BY <1>2, <2>1 DEF TypeOK, LinksTypeOK
    <3>2. RanOn(link[d])' = RanOn(k)'
      BY <1>2, <3>1 DEF RanOn
    <3>3. Ids(inq'[k]) \cup RanOn(k)' \subseteq Ids(inq[k]) \cup RanOn(k)
      BY <1>4, <1>6, <1>7
    <3>4. Before(Ids(inq[k]) \cup RanOn(k), Ids(out[d]))
      BY <2>1, <1>2, <3>1 DEF OrderInv, InOrder
    <3>5. Before(Ids(inq'[k]) \cup RanOn(k)', Ids(out'[d]))
      BY <1>2, <3>3, <3>4 DEF Before
    <3> QED
      BY <3>1, <3>2, <3>5 DEF Before
  <2>2. \A k \in Link : Before(RanOn(k)', Ids(inq'[k]))
    BY <1>3, <1>4, <1>6 DEF OrderInv, InOrder, Before, Shrinks
  <2>3. \A k \in Link : Before(Ids(inq'[k]), {nextId'})
    BY <1>2, <1>7 DEF OrderInv, InOrder, Before
  <2>4. Before(Ran', {nextId'})
    BY <1>2, <1>5, <1>6 DEF OrderInv, InOrder, Before
  <2> QED
    BY <1>2, <1>7, <2>1, <2>2, <2>3, <2>4 DEF OrderInv, InOrder
<1> QED
  BY <1>6, <1>8, <1>9 DEF OrderInv

LEMMA OrderInit == ASSUME Init PROVE OrderInv
<1>1. Ran = {} /\ executed = <<>> /\ nextId = 1
  BY DEF Init, ServerInit, ClientInit, Ran
<1>2. \A l \in Link : RanOn(l) = {} /\ inq[l] = <<>>
  BY <1>1 DEF Init, LinksInit, RanOn
<1>3. \A c \in Client : out[c] = <<>> /\ link[c] = NoLink
  BY DEF Init, LinksInit
<1>4. OnePlace
  BY <1>1, <1>2, <1>3, EmptyShrinks DEF OnePlace
<1>5. InOrder
  BY <1>1, <1>2, <1>3, EmptyShrinks DEF InOrder, Before, Increasing
<1>6. AtMostOnce /\ LinkOrder
  BY <1>1 DEF AtMostOnce, LinkOrder
<1> QED
  BY <1>4, <1>5, <1>6 DEF OrderInv

LEMMA OrderStep ==
  ASSUME TypeOK, LinkInv, OrderInv, [Next]_vars
  PROVE  OrderInv'
<1>0. TypeOK'
  BY TypeStep
<1> SUFFICES ASSUME StepKind PROVE OrderInv'
  <2>1. CASE UNCHANGED vars
    <3>1. UNCHANGED <<out, inq, link, executed, nextId>>
      BY <2>1 DEF vars, linkVars, clientVars, serverVars
    <3> QED
      BY <1>0, <3>1, SelfShrinks, PlacesShrink
  <2> QED
    BY <2>1, NextIsStepKind
<1>1. ASSUME NEW c \in Client, Opens(c) PROVE OrderInv'
  <2>1. \A d \in Client : link'[d] \in {NoLink, link[d]} \/ link'[d] > lastLink
    BY <1>1, LinksAssumption DEF Opens, Connect, TypeOK, LinksTypeOK, Link
  <2>2. UNCHANGED <<out, inq, executed, nextId>>
    BY <1>1 DEF Opens, Connect, clientVars
  <2> QED
    BY <1>0, <2>1, <2>2, SelfShrinks, PlacesShrink
<1>2. ASSUME NEW c \in Client, Reads(c) \/ Interrupted(c) \/ Misreads(c) PROVE OrderInv'
  <2>1. UNCHANGED <<out, inq, link, executed, nextId>>
    BY <1>2 DEF Reads, TakeReply, Misreads, Misread, Interrupted, Interrupt, RaiseCall, linkVars
  <2> QED
    BY <1>0, <2>1, SelfShrinks, PlacesShrink
<1>3. ASSUME NEW c \in Client, TimesOut(c) \/ Closes(c) \/ Breaks(c) PROVE OrderInv'
  <2>1. UNCHANGED <<executed, nextId>>
    BY <1>3 DEF TimesOut, Closes, Breaks, RaiseCall, clientVars
  <2>2. PICK arrives \in Prefixes(inq[link[c]]) : inq' = [inq EXCEPT ![link[c]] = arrives]
    BY <1>3 DEF TimesOut, Closes, Disconnect, Breaks, Break
  <2>3. link[c] \in Link
    BY <1>3 DEF TimesOut, Closes, Disconnect, Breaks, Break, TypeOK, LinksTypeOK
  <2>4. \A l \in Link : Shrinks(inq'[l], inq[l])
    <3>1. Shrinks(arrives, inq[link[c]])
      BY <2>3, PrefixShrinks DEF TypeOK, LinksTypeOK
    <3> QED
      BY <2>2, <2>3, <3>1, SelfShrinks DEF TypeOK, LinksTypeOK
  <2>5. \A d \in Client : out'[d] = out[d] \/ out'[d] = <<>>
    BY <1>3 DEF TimesOut, Closes, Disconnect, Breaks, Break, TypeOK, LinksTypeOK
  <2>6. \A d \in Client : Shrinks(out'[d], out[d])
    BY <2>5, SelfShrinks, EmptyShrinks
  <2>7. \A d \in Client : link'[d] \in {NoLink, link[d]} \/ link'[d] > lastLink
    BY <1>3, LinksAssumption
       DEF TimesOut, Closes, Disconnect, Breaks, Break, TypeOK, LinksTypeOK, Link
  <2> QED
    BY <1>0, <2>1, <2>4, <2>6, <2>7, PlacesShrink
<1>4. ASSUME NEW c \in Client, Delivers(c) PROVE OrderInv'
  BY <1>4, OrderDeliver
<1>5. ASSUME NEW c \in Client, NEW m \in Method, Makes(c, m) PROVE OrderInv'
  BY <1>5, OrderSend
<1>6. ASSUME NEW l \in Link, NEW n \in Answers(Head(inq[l]).method), Runs(l, n)
      PROVE  OrderInv'
  BY <1>6, OrderRuns
<1>7. CASE Restarts
  <2>1. UNCHANGED <<out, link, executed, nextId>>
    BY <1>7 DEF Restarts, Unbind, Bind, clientVars
  <2>2. \A l \in Link : inq'[l] = inq[l] \/ inq'[l] = <<>>
    BY <1>7 DEF Restarts, Unbind, Bind
  <2>3. \A l \in Link : Shrinks(inq'[l], inq[l])
    BY <2>2, SelfShrinks, EmptyShrinks
  <2> QED
    BY <1>0, <2>1, <2>3, SelfShrinks, PlacesShrink
<1> QED
  BY <1>1, <1>2, <1>3, <1>4, <1>5, <1>6, <1>7 DEF StepKind

\* Each request is in one place only and the places of a connection hold the calls
\* in order, whatever breaks, stops, times out or raises.
THEOREM RequestsKeepOrder == Spec => []OrderInv
<1> DEFINE Inv == TypeOK /\ LinkInv /\ OrderInv
<1>1. Init => Inv
  BY TypeInit, LinkInit, OrderInit
<1>2. Inv /\ [Next]_vars => Inv'
  BY TypeStep, LinkStep, OrderStep
<1>3. Inv => OrderInv
  OBVIOUS
<1> QED
  BY <1>1, <1>2, <1>3, PTL DEF Spec

\* No call's handler runs twice, whatever goes wrong.
THEOREM HandlersRunAtMostOnce == Spec => []AtMostOnce
<1>1. OrderInv => AtMostOnce
  BY DEF OrderInv
<1> QED
  BY <1>1, RequestsKeepOrder, PTL

\* The handlers of one connection's calls run in the order of the calls.
THEOREM ConnectionsKeepOrder == Spec => []LinkOrder
<1>1. OrderInv => LinkOrder
  BY DEF OrderInv
<1> QED
  BY <1>1, RequestsKeepOrder, PTL


-----------------------------------------------------------------------------
(* CallInv: the blocked calls are the waiting ones.                        *)

LEMMA CallInit == ASSUME Init PROVE CallInv
BY LinksAssumption DEF Init, ClientInit, CallInv, CallId

\* Steps that leave the clients' calls alone.
LEMMA CallUnchanged ==
  ASSUME CallInv, UNCHANGED <<wait, status, nextId>>
  PROVE  CallInv'
BY DEF CallInv

LEMMA CallStep ==
  ASSUME TypeOK, CallInv, [Next]_vars
  PROVE  CallInv'
<1>0. /\ CallId \subseteq Nat /\ NoCall \notin CallId /\ nextId \in Nat
      /\ wait \in [Client -> {NoCall} \cup CallId] /\ status \in [CallId -> Status]
  BY LinksAssumption DEF TypeOK, ClientTypeOK, CallId
<1> SUFFICES ASSUME StepKind PROVE CallInv'
  BY NextIsStepKind, CallUnchanged DEF vars, clientVars
<1>1. ASSUME NEW c \in Client,
             \/ Opens(c) \/ Closes(c) \/ Breaks(c) \/ Delivers(c)
      PROVE  CallInv'
  BY <1>1, CallUnchanged DEF Opens, Closes, Breaks, Delivers, clientVars
<1>2. ASSUME NEW c \in Client, Reads(c) \/ TimesOut(c) \/ Interrupted(c) \/ Misreads(c) PROVE CallInv'
  <2>1. PICK s \in {"returned", "raised"} :
          /\ wait[c] # NoCall
          /\ status' = [status EXCEPT ![wait[c]] = s]
          /\ wait' = [wait EXCEPT ![c] = NoCall]
          /\ nextId' = nextId
    BY <1>2 DEF Reads, TakeReply, TimesOut, Misreads, Misread, Interrupted, Interrupt, RaiseCall
  <2>2. \A d \in Client : wait'[d] = IF d = c THEN NoCall ELSE wait[d]
    BY <1>0, <2>1
  <2>3. \A i \in CallId : status'[i] = IF i = wait[c] THEN s ELSE status[i]
    BY <1>0, <2>1
  <2>4. wait[c] \in CallId /\ status[wait[c]] = "waiting"
    BY <1>0, <2>1 DEF CallInv
  <2>5. \A d \in Client : wait'[d] # NoCall => status'[wait'[d]] = "waiting"
    BY <1>0, <2>1, <2>2, <2>3 DEF CallInv
  <2>6. \A i \in CallId : status'[i] = "none" <=> i >= nextId'
    BY <2>1, <2>3, <2>4 DEF CallInv
  <2> QED
    BY <2>2, <2>5, <2>6 DEF CallInv
<1>3. ASSUME NEW c \in Client, NEW m \in Method, Makes(c, m) PROVE CallInv'
  <2>1. PICK s \in {"sent", "waiting"}, w \in {NoCall, nextId} :
          /\ wait' = [wait EXCEPT ![c] = w]
          /\ status' = [status EXCEPT ![nextId] = s]
          /\ w # NoCall => s = "waiting"
    BY <1>3 DEF Makes, SendCall
  <2>2. nextId' = nextId + 1 /\ nextId \in CallId
    BY <1>3, LinksAssumption DEF Makes, SendCall, TypeOK, ClientTypeOK, CallId
  <2>3. \A d \in Client : wait'[d] = IF d = c THEN w ELSE wait[d]
    BY <1>0, <2>1
  <2>4. \A i \in CallId : status'[i] = IF i = nextId THEN s ELSE status[i]
    BY <1>0, <2>1
  <2>5. \A d \in Client : wait[d] # nextId
    <3>1. status[nextId] = "none"
      BY <1>0, <2>2 DEF CallInv
    <3> QED
      BY <1>0, <2>2, <3>1 DEF CallInv
  <2>6. ASSUME NEW d \in Client, wait'[d] # NoCall PROVE status'[wait'[d]] = "waiting"
    <3>1. wait'[d] \in CallId
      BY <1>0, <2>2, <2>3, <2>6
    <3> QED
      BY <2>1, <2>3, <2>4, <2>5, <2>6, <3>1 DEF CallInv
  <2>7. \A i \in CallId : status'[i] = "none" <=> i >= nextId'
    BY <1>0, <2>1, <2>2, <2>4 DEF CallInv
  <2>8. \A d, e \in Client : wait'[d] = wait'[e] => d = e \/ wait'[d] = NoCall
    BY <2>1, <2>3, <2>5 DEF CallInv
  <2> QED
    BY <2>6, <2>7, <2>8 DEF CallInv
<1>4. ASSUME NEW l \in Link, NEW n \in Answers(Head(inq[l]).method), Runs(l, n)
      PROVE  CallInv'
  BY <1>4, CallUnchanged DEF Runs, RunHandler, clientVars
<1>5. CASE Restarts
  BY <1>5, CallUnchanged DEF Restarts, clientVars
<1> QED
  BY <1>1, <1>2, <1>3, <1>4, <1>5 DEF StepKind

-----------------------------------------------------------------------------
(***************************************************************************)
(* AnswerInv.  It needs what the code relies on without saying so: no      *)
(* exception but the timeout leaves a blocked call, and a native handler   *)
(* writes its answer at most once.                                         *)
(***************************************************************************)
WellBehaved == "interrupt" \notin Faults /\ NativeWrites \subseteq {0, 1}

\* A one-way request is never answered, any other at most once.
LEMMA AnswerCount ==
  ASSUME WellBehaved, NEW m \in Method, NEW n \in Answers(m)
  PROVE  n \in {0, 1} /\ (IsOneWay(m) => n = 0)
<1>1. Returns[m] \in ReturnKind
  BY IdlAssumption
<1> QED
  BY <1>1 DEF WellBehaved, Answers, PyReplies, CppReplies, ReturnKind, IsOneWay

LEMMA AnswerInit == ASSUME Init PROVE AnswerInv
BY DEF Init, LinksInit, AnswerInv, Pending

\* Pending is about the requests of a sequence, one by one.
LEMMA PendingPrefix ==
  ASSUME NEW s \in Seq(Request), NEW t \in Prefixes(s), NEW i, Pending(i, s)
  PROVE  Pending(i, t)
<1>1. \A k \in DOMAIN t : k \in DOMAIN s /\ t[k] = s[k]
  BY PrefixFacts
<1> QED
  BY <1>1 DEF Pending

LEMMA PendingTail ==
  ASSUME NEW s \in Seq(Request), s # <<>>, NEW i, Pending(i, s)
  PROVE  Pending(i, Tail(s)) /\ (IsOneWay(Head(s).method) \/ Head(s).id = i)
<1>1. /\ Head(s) = s[1] /\ 1 \in DOMAIN s
      /\ \A k \in DOMAIN Tail(s) : k + 1 \in DOMAIN s /\ Tail(s)[k] = s[k + 1]
  BY TailFacts
<1> QED
  BY <1>1 DEF Pending

LEMMA PendingAppend ==
  ASSUME NEW s \in Seq(Request), NEW r \in Request, NEW i, Pending(i, s),
         IsOneWay(r.method) \/ r.id = i
  PROVE  Pending(i, Append(s, r))
<1>1. /\ DOMAIN Append(s, r) = 1..(Len(s) + 1)
      /\ DOMAIN s = 1..Len(s) /\ Len(s) \in Nat
      /\ \A k \in DOMAIN s : Append(s, r)[k] = s[k]
      /\ Append(s, r)[Len(s) + 1] = r
  BY AppendFacts
<1>2. DOMAIN Append(s, r) = DOMAIN s \cup {Len(s) + 1}
  BY <1>1
<1> QED
  BY <1>1, <1>2 DEF Pending


\* What is pending for an answered call, or for none, is one-way.
LEMMA PendingOneWay ==
  ASSUME NEW s \in Seq(Request), NEW i, Pending(i, s), i \notin Ids(s), NEW j
  PROVE  Pending(j, s)
BY DEF Pending, Ids

\* A step that gives no client a new connection, request or answer.
LEMMA AnswerUnchanged ==
  ASSUME TypeOK, AnswerInv,
         \A c \in Client : link'[c] \in {NoLink, link[c]},
         \A c \in Client : out'[c] = out[c] \/ out'[c] = <<>>,
         \A l \in Link : (\E c \in Client : link'[c] = l) => inq'[l] \in {inq[l], <<>>},
         \A c \in Client : inbox'[c] = inbox[c] \/ inbox'[c] = <<>>,
         \A c \in Client : wait'[c] = wait[c] \/
                           (link'[c] = NoLink /\ out'[c] = <<>> /\ inbox'[c] = <<>>),
         UNCHANGED executed, TypeOK'
  PROVE  AnswerInv'
<1>1. \A i : Pending(i, <<>>)
  BY DEF Pending
<1>2. Ran' = Ran
  BY DEF Ran
<1>3. \A c \in Client : Pending(wait'[c], out'[c])
  BY <1>1 DEF AnswerInv
<1>4. ASSUME NEW c \in Client, link'[c] # NoLink
      PROVE  Pending(wait'[c], inq'[link'[c]])
  <2>1. link'[c] = link[c] /\ link[c] # NoLink /\ wait'[c] = wait[c] /\ link'[c] \in Link
    BY <1>4 DEF TypeOK, LinksTypeOK
  <2> QED
    BY <1>1, <2>1 DEF AnswerInv
<1>5. \A c \in Client : inbox'[c] # <<>> =>
        inbox'[c] = <<wait'[c]>> /\ wait'[c] # NoCall /\ wait'[c] \in Ran'
  BY <1>2 DEF AnswerInv
<1> QED
  BY <1>3, <1>4, <1>5 DEF AnswerInv

LEMMA AnswerSend ==
  ASSUME TypeOK, LinkInv, OrderInv, AnswerInv,
         NEW c \in Client, NEW m \in Method, Makes(c, m)
  PROVE  AnswerInv'
<1> DEFINE r == [id |-> nextId, method |-> m]
<1> DEFINE w == IF IsOneWay(m) THEN NoCall ELSE nextId
<1>1. nextId \in CallId /\ link[c] \in Link /\ wait[c] = NoCall
  BY LinksAssumption DEF Makes, SendCall, Send, TypeOK, ClientTypeOK, LinksTypeOK, CallId
<1>2. r \in Request /\ (IsOneWay(r.method) \/ r.id = w)
  BY <1>1 DEF Request
<1>3. /\ out' = [out EXCEPT ![c] = Append(out[c], r)]
      /\ wait' = [wait EXCEPT ![c] = w]
      /\ UNCHANGED <<link, inq, inbox, executed>>
  BY DEF Makes, SendCall, Send
<1> HIDE DEF r, w
<1>4. /\ \A d \in Client : out'[d] = IF d = c THEN Append(out[c], r) ELSE out[d]
      /\ \A d \in Client : wait'[d] = IF d = c THEN w ELSE wait[d]
  BY <1>3 DEF TypeOK, LinksTypeOK, ClientTypeOK
<1>5. out[c] \in Seq(Request) /\ inq[link[c]] \in Seq(Request)
  BY <1>1 DEF TypeOK, LinksTypeOK
<1>6. NoCall \notin Ids(out[c]) /\ NoCall \notin Ids(inq[link[c]])
  <2>1. NoCall \notin CallId
    BY DEF CallId
  <2> QED
    BY <1>1, <2>1, IdsAreCalls
<1>7. Pending(w, out[c]) /\ Pending(w, inq[link[c]])
  BY <1>1, <1>5, <1>6, PendingOneWay DEF AnswerInv, Link
<1>8. Pending(w, Append(out[c], r))
  BY <1>2, <1>5, <1>7, PendingAppend
<1>9. \A d \in Client : Pending(wait'[d], out'[d])
  BY <1>4, <1>8 DEF AnswerInv
<1>10. \A d \in Client : link'[d] # NoLink => Pending(wait'[d], inq'[link'[d]])
  BY <1>3, <1>4, <1>7 DEF AnswerInv
<1>11. Ran' = Ran
  BY <1>3 DEF Ran
<1>12. \A d \in Client : inbox'[d] # <<>> =>
         inbox'[d] = <<wait'[d]>> /\ wait'[d] # NoCall /\ wait'[d] \in Ran'
  BY <1>1, <1>3, <1>4, <1>11 DEF AnswerInv
<1> QED
  BY <1>9, <1>10, <1>12 DEF AnswerInv

LEMMA AnswerDeliver ==
  ASSUME TypeOK, LinkInv, OrderInv, AnswerInv, NEW c \in Client, Delivers(c)
  PROVE  AnswerInv'
<1> DEFINE r == Head(out[c])
<1> DEFINE l == link[c]
<1>1. out[c] \in Seq(Request) /\ out[c] # <<>> /\ l \in Link /\ inq[l] \in Seq(Request)
      /\ l # NoLink
  BY DEF Delivers, Deliver, TypeOK, LinksTypeOK
<1>2. r \in Request
  BY <1>1, TailFacts
<1>3. /\ out' = [out EXCEPT ![c] = Tail(out[c])]
      /\ inq' = [inq EXCEPT ![l] = Append(inq[l], r)]
      /\ UNCHANGED <<link, executed, wait, inbox>>
  BY DEF Delivers, Deliver, clientVars
<1>4. /\ \A d \in Client : out'[d] = IF d = c THEN Tail(out[c]) ELSE out[d]
      /\ \A k \in Link : inq'[k] = IF k = l THEN Append(inq[l], r) ELSE inq[k]
  BY <1>1, <1>3 DEF TypeOK, LinksTypeOK
<1>5. Pending(wait[c], Tail(out[c])) /\ (IsOneWay(r.method) \/ r.id = wait[c])
  BY <1>1, PendingTail DEF AnswerInv
<1> HIDE DEF r
<1>6. Pending(wait[c], Append(inq[l], r))
  BY <1>1, <1>2, <1>5, PendingAppend DEF AnswerInv
<1>7. \A d \in Client : Pending(wait'[d], out'[d])
  BY <1>3, <1>4, <1>5 DEF AnswerInv
<1>8. ASSUME NEW d \in Client, link'[d] # NoLink
      PROVE  Pending(wait'[d], inq'[link'[d]])
  <2>1. link'[d] = link[d] /\ link[d] \in Link /\ wait'[d] = wait[d]
    BY <1>3, <1>8 DEF TypeOK, LinksTypeOK
  <2>2. CASE d = c
    BY <1>4, <1>6, <2>1, <2>2
  <2>3. CASE d # c
    <3>1. link[d] # l
      BY <1>1, <2>1, <2>3 DEF LinkInv
    <3> QED
      BY <1>4, <1>8, <2>1, <3>1 DEF AnswerInv
  <2> QED
    BY <2>2, <2>3
<1>9. Ran' = Ran
  BY <1>3 DEF Ran
<1> QED
  BY <1>3, <1>7, <1>8, <1>9 DEF AnswerInv


LEMMA AnswerRead ==
  ASSUME TypeOK, OrderInv, AnswerInv, NEW c \in Client, Reads(c) \/ Misreads(c)
  PROVE  AnswerInv' /\ Head(inbox[c]) = wait[c]
<1>1. /\ wait' = [wait EXCEPT ![c] = NoCall] /\ inbox' = [inbox EXCEPT ![c] = Tail(inbox[c])]
      /\ UNCHANGED <<link, out, inq, executed>>
      /\ inbox[c] # <<>>
  BY DEF Reads, TakeReply, Misreads, Misread, RaiseCall
<1>2. /\ \A d \in Client : wait'[d] = IF d = c THEN NoCall ELSE wait[d]
      /\ \A d \in Client : inbox'[d] = IF d = c THEN Tail(inbox[c]) ELSE inbox[d]
  BY <1>1 DEF TypeOK, LinksTypeOK, ClientTypeOK
<1>3. inbox[c] = <<wait[c]>> /\ wait[c] \in Ran
  BY <1>1 DEF AnswerInv
<1>4. Tail(inbox[c]) = <<>> /\ Head(inbox[c]) = wait[c]
  BY <1>3
<1>5. Pending(NoCall, out[c])
  <2>1. wait[c] \notin Ids(out[c])
    BY <1>3 DEF OrderInv, OnePlace
  <2> QED
    BY <2>1, PendingOneWay DEF AnswerInv, TypeOK, LinksTypeOK
<1>6. ASSUME link[c] # NoLink PROVE Pending(NoCall, inq[link[c]])
  <2>1. link[c] \in Link /\ inq[link[c]] \in Seq(Request)
    BY <1>6 DEF TypeOK, LinksTypeOK
  <2>2. wait[c] \notin Ids(inq[link[c]])
    BY <1>3, <2>1 DEF OrderInv, OnePlace
  <2> QED
    BY <1>6, <2>1, <2>2, PendingOneWay DEF AnswerInv
<1>7. Ran' = Ran
  BY <1>1 DEF Ran
<1>8. \A d \in Client : Pending(wait'[d], out'[d])
  BY <1>1, <1>2, <1>5 DEF AnswerInv
<1>9. \A d \in Client : link'[d] # NoLink => Pending(wait'[d], inq'[link'[d]])
  BY <1>1, <1>2, <1>6 DEF AnswerInv
<1>10. \A d \in Client : inbox'[d] # <<>> =>
         inbox'[d] = <<wait'[d]>> /\ wait'[d] # NoCall /\ wait'[d] \in Ran'
  BY <1>2, <1>4, <1>7 DEF AnswerInv
<1> QED
  BY <1>4, <1>8, <1>9, <1>10 DEF AnswerInv

\* A fresh connection carries nothing, whoever gets it.
LEMMA AnswerFreshLink ==
  ASSUME TypeOK, LinkInv, AnswerInv, NEW c \in Client, Opens(c) \/ Breaks(c)
  PROVE  AnswerInv'
<1> DEFINE new == lastLink + 1
<1>1. /\ new \in Link /\ link' = [link EXCEPT ![c] = new]
      /\ UNCHANGED <<out, wait, executed>>
  BY LinksAssumption
     DEF Opens, Connect, Breaks, Break, TypeOK, LinksTypeOK, Link, clientVars
<1>2. /\ \A d \in Client : link'[d] = IF d = c THEN new ELSE link[d]
      /\ \A l \in Link : link[c] # l => inq'[l] = inq[l]
      /\ link[c] # new
  BY <1>1, LinksAssumption
     DEF Opens, Connect, Breaks, Break, TypeOK, LinksTypeOK, Link, LinkInv
<1>3. inq'[new] = <<>>
  <2>1. inq[new] = <<>>
    BY <1>1, LinksAssumption DEF LinkInv, TypeOK, LinksTypeOK, Link
  <2> QED
    BY <1>1, <1>2, <2>1
<1>4. \A d \in Client : d # c => inbox'[d] = inbox[d]
  BY DEF Opens, Connect, Breaks, Break, TypeOK, LinksTypeOK
<1>5. inbox'[c] = inbox[c] \/ inbox'[c] = <<>>
  <2>1. CASE Opens(c)
    BY <2>1 DEF Opens, Connect
  <2>2. CASE Breaks(c)
    <3>1. PICK kept \in Prefixes(inbox[c]) : inbox' = [inbox EXCEPT ![c] = kept]
      BY <2>2 DEF Breaks, Break
    <3>2. inbox[c] \in Seq(CallId)
      BY DEF TypeOK, LinksTypeOK
    <3>3. kept \in Seq(CallId) /\ Len(kept) <= Len(inbox[c])
          /\ \A k \in DOMAIN kept : kept[k] = inbox[c][k]
      BY <3>1, <3>2, PrefixFacts
    <3>4. kept = <<>> \/ kept = inbox[c]
      <4>1. inbox[c] = <<>> \/ inbox[c] = <<wait[c]>>
        BY DEF AnswerInv
      <4>2. Len(kept) \in Nat /\ Len(inbox[c]) \in {0, 1} /\ DOMAIN kept = 1..Len(kept)
        BY <3>3, <4>1, LenProperties
      <4>3. CASE Len(kept) = 0
        BY <3>3, <4>3, EmptySeq
      <4>4. CASE Len(kept) = 1
        <5>1. Len(inbox[c]) = 1
          BY <3>3, <4>2, <4>4
        <5>2. kept[1] = inbox[c][1]
          BY <3>3, <4>2, <4>4
        <5> QED
          BY <3>2, <3>3, <4>4, <5>1, <5>2, SeqEqual
      <4> QED
        BY <3>3, <4>2, <4>3, <4>4
    <3> QED
      BY <3>1, <3>4 DEF TypeOK, LinksTypeOK
  <2> QED
    BY <2>1, <2>2
<1>6. Ran' = Ran
  BY <1>1 DEF Ran
<1> HIDE DEF new
<1>7. \A d \in Client : link'[d] # NoLink => Pending(wait'[d], inq'[link'[d]])
  <2>1. Pending(wait[c], <<>>)
    BY DEF Pending
  <2>2. ASSUME NEW d \in Client, d # c, link[d] # NoLink
        PROVE  Pending(wait[d], inq'[link[d]])
    <3>1. link[d] \in Link /\ link[c] # link[d]
      BY <2>2 DEF TypeOK, LinksTypeOK, LinkInv
    <3> QED
      BY <1>2, <2>2, <3>1 DEF AnswerInv
  <2> QED
    BY <1>1, <1>2, <1>3, <2>1, <2>2
<1>8. \A d \in Client : inbox'[d] # <<>> =>
        inbox'[d] = <<wait'[d]>> /\ wait'[d] # NoCall /\ wait'[d] \in Ran'
  BY <1>1, <1>4, <1>5, <1>6 DEF AnswerInv
<1> QED
  BY <1>1, <1>7, <1>8 DEF AnswerInv

\* What a handler answers is the call its client is blocked in; the client has
\* nothing else to read.
LEMMA AnswerRun ==
  ASSUME WellBehaved, TypeOK, OrderInv, AnswerInv,
         NEW l \in Link, NEW n \in Answers(Head(inq[l]).method), Runs(l, n)
  PROVE  AnswerInv'
<1> DEFINE h == Head(inq[l]).id
<1> DEFINE answers == [i \in 1..n |-> h]
<1>1. inq[l] \in Seq(Request) /\ inq[l] # <<>>
  BY DEF Runs, TypeOK, LinksTypeOK
<1>2. /\ inq' = [inq EXCEPT ![l] = Tail(inq[l])]
      /\ inbox' = [c \in Client |-> IF link[c] = l THEN inbox[c] \o answers ELSE inbox[c]]
      /\ UNCHANGED <<out, link, wait>>
  BY DEF Runs, RunHandler, TakeAndReply, clientVars
<1>3. \A k \in Link : inq'[k] = IF k = l THEN Tail(inq[l]) ELSE inq[k]
  BY <1>2 DEF TypeOK, LinksTypeOK
<1>4. n \in {0, 1} /\ (IsOneWay(Head(inq[l]).method) => n = 0) /\ h \in CallId
  BY RunsFacts, AnswerCount
<1>5. Ran' = Ran \cup {h} /\ h \notin Ran
  <2>1. h \in Ids(inq[l])
    BY <1>1, TailShrinks
  <2> QED
    BY <2>1, RunRecorded DEF OrderInv, OnePlace
<1>6. answers = IF n = 0 THEN <<>> ELSE <<h>>
  BY <1>4
<1> HIDE DEF h, answers
<1>7. ASSUME NEW c \in Client, link[c] = l
      PROVE  /\ Pending(wait[c], Tail(inq[l]))
             /\ n = 1 => h = wait[c] /\ inbox[c] = <<>>
  <2>1. Pending(wait[c], inq[l])
    BY <1>7 DEF AnswerInv, Link
  <2>2. Pending(wait[c], Tail(inq[l])) /\ (IsOneWay(Head(inq[l]).method) \/ h = wait[c])
    BY <1>1, <2>1, PendingTail DEF h
  <2>3. ASSUME n = 1 PROVE h = wait[c] /\ inbox[c] = <<>>
    BY <1>4, <1>5, <2>2, <2>3 DEF AnswerInv
  <2> QED
    BY <2>2, <2>3
<1>8. \A c \in Client : link'[c] # NoLink => Pending(wait'[c], inq'[link'[c]])
  <2>1. \A c \in Client : link[c] \in {NoLink} \cup Link
    BY DEF TypeOK, LinksTypeOK
  <2> QED
    BY <1>2, <1>3, <1>7, <2>1 DEF AnswerInv
<1>9. ASSUME NEW c \in Client, inbox'[c] # <<>>
      PROVE  inbox'[c] = <<wait'[c]>> /\ wait'[c] # NoCall /\ wait'[c] \in Ran'
  <2>1. inbox[c] \in Seq(CallId)
    BY DEF TypeOK, LinksTypeOK
  <2>2. CASE link[c] = l /\ n = 1
    <3>0. <<h>> \in Seq(CallId) /\ inbox[c] = <<>> /\ answers = <<h>>
      BY <1>4, <1>6, <1>7, <2>2
    <3>1. inbox'[c] = <<h>>
      BY <1>2, <2>2, <3>0, ConcatEmptySeq
    <3> QED
      BY <1>2, <1>4, <1>5, <1>7, <2>2, <3>1 DEF CallId
  <2>3. CASE link[c] # l \/ n = 0
    <3>1. inbox'[c] = inbox[c]
      <4>1. n = 0 => answers = <<>>
        BY <1>6
      <4> QED
        BY <1>2, <2>1, <2>3, <4>1, ConcatEmptySeq
    <3> QED
      BY <1>2, <1>5, <1>9, <3>1 DEF AnswerInv
  <2> QED
    BY <1>4, <2>2, <2>3
<1> QED
  BY <1>2, <1>8, <1>9 DEF AnswerInv


LEMMA AnswerStep ==
  ASSUME WellBehaved, TypeOK, LinkInv, OrderInv, AnswerInv, [Next]_vars
  PROVE  AnswerInv'
<1>0. TypeOK'
  BY TypeStep
<1> SUFFICES ASSUME StepKind PROVE AnswerInv'
  <2>1. CASE UNCHANGED vars
    BY <2>1 DEF vars, linkVars, clientVars, serverVars, AnswerInv, Ran
  <2> QED
    BY <2>1, NextIsStepKind
<1>1. ASSUME NEW c \in Client, Opens(c) \/ Breaks(c) PROVE AnswerInv'
  BY <1>1, AnswerFreshLink
<1>2. ASSUME NEW c \in Client, Reads(c) \/ Misreads(c) PROVE AnswerInv'
  BY <1>2, AnswerRead
<1>3. ASSUME NEW c \in Client, TimesOut(c) \/ Closes(c) PROVE AnswerInv'
  <2>1. /\ Disconnect(c) /\ UNCHANGED executed
        /\ \A d \in Client : d # c => wait'[d] = wait[d]
    BY <1>3 DEF TimesOut, Closes, RaiseCall, clientVars, TypeOK, ClientTypeOK
  <2>2. /\ link'[c] = NoLink /\ out'[c] = <<>> /\ inbox'[c] = <<>>
        /\ \A d \in Client : d # c =>
             link'[d] = link[d] /\ out'[d] = out[d] /\ inbox'[d] = inbox[d]
    BY <2>1 DEF Disconnect, TypeOK, LinksTypeOK
  <2>3. ASSUME NEW l \in Link, NEW d \in Client, link'[d] = l PROVE inq'[l] = inq[l]
    <3>1. d # c /\ link[d] = l /\ l # NoLink
      BY <2>2, <2>3 DEF Link
    <3>2. l # link[c]
      BY <3>1 DEF LinkInv
    <3> QED
      BY <2>1, <3>2 DEF Disconnect, TypeOK, LinksTypeOK
  <2> QED
    BY <1>0, <2>1, <2>2, <2>3, AnswerUnchanged
<1>4. ASSUME NEW c \in Client, Interrupted(c) PROVE AnswerInv'
  BY <1>4 DEF Interrupted, Interrupt, WellBehaved
<1>5. ASSUME NEW c \in Client, Delivers(c) PROVE AnswerInv'
  BY <1>5, AnswerDeliver
<1>6. ASSUME NEW c \in Client, NEW m \in Method, Makes(c, m) PROVE AnswerInv'
  BY <1>6, AnswerSend
<1>7. ASSUME NEW l \in Link, NEW n \in Answers(Head(inq[l]).method), Runs(l, n)
      PROVE  AnswerInv'
  BY <1>7, AnswerRun
<1>8. CASE Restarts
  <2>1. UNCHANGED <<link, out, inbox, wait, executed>>
    BY <1>8 DEF Restarts, Unbind, Bind, clientVars
  <2>2. \A l \in Link : inq'[l] \in {inq[l], <<>>}
    BY <1>8 DEF Restarts, Unbind, Bind
  <2> QED
    BY <1>0, <2>1, <2>2, AnswerUnchanged
<1> QED
  BY <1>1, <1>2, <1>3, <1>4, <1>5, <1>6, <1>7, <1>8 DEF StepKind

-----------------------------------------------------------------------------
(* What the callers are promised.                                          *)

LEMMA RpcInvInit == ASSUME Init PROVE TypeOK /\ RpcInv
BY TypeInit, LinkInit, OrderInit, AnswerInit, CallInit DEF RpcInv

LEMMA RpcInvStep ==
  ASSUME WellBehaved, TypeOK, RpcInv, [Next]_vars
  PROVE  TypeOK' /\ RpcInv'
BY TypeStep, LinkStep, OrderStep, AnswerStep, CallStep DEF RpcInv

\* The inductive invariant holds in every reachable state of a well-behaved system.
THEOREM InvariantHolds == ASSUME WellBehaved PROVE Spec => [](TypeOK /\ RpcInv)
BY RpcInvInit, RpcInvStep, PTL DEF Spec

\* No step gives a call an answer but the step that reads its own.
LEMMA RepliesStep ==
  ASSUME WellBehaved, TypeOK, RpcInv, ReplyMatchesCall, [Next]_vars
  PROVE  ReplyMatchesCall'
<1> SUFFICES ASSUME StepKind PROVE ReplyMatchesCall'
  BY NextIsStepKind DEF vars, clientVars, ReplyMatchesCall
<1>1. ASSUME NEW c \in Client, Reads(c) PROVE ReplyMatchesCall'
  <2>1. /\ got' = [got EXCEPT ![wait[c]] = Head(inbox[c])]
        /\ status' = [status EXCEPT ![wait[c]] = "returned"]
    BY <1>1 DEF Reads, TakeReply
  <2>2. Head(inbox[c]) = wait[c]
    BY <1>1, AnswerRead DEF RpcInv
  <2> QED
    BY <2>1, <2>2 DEF ReplyMatchesCall, TypeOK, ClientTypeOK
<1>2. ASSUME NEW c \in Client, TimesOut(c) \/ Interrupted(c) \/ Misreads(c) PROVE ReplyMatchesCall'
  BY <1>2 DEF TimesOut, Misreads, Misread, Interrupted, Interrupt, RaiseCall, ReplyMatchesCall, TypeOK, ClientTypeOK
<1>3. ASSUME NEW c \in Client, NEW m \in Method, Makes(c, m) PROVE ReplyMatchesCall'
  BY <1>3 DEF Makes, SendCall, ReplyMatchesCall, TypeOK, ClientTypeOK
<1>4. ASSUME NEW c \in Client, Opens(c) \/ Closes(c) \/ Breaks(c) \/ Delivers(c)
      PROVE  ReplyMatchesCall'
  BY <1>4 DEF Opens, Closes, Breaks, Delivers, clientVars, ReplyMatchesCall
<1>5. ASSUME NEW l \in Link, NEW n \in Answers(Head(inq[l]).method), Runs(l, n)
      PROVE  ReplyMatchesCall'
  BY <1>5 DEF Runs, RunHandler, clientVars, ReplyMatchesCall
<1>6. CASE Restarts
  BY <1>6 DEF Restarts, clientVars, ReplyMatchesCall
<1> QED
  BY <1>1, <1>2, <1>3, <1>4, <1>5, <1>6 DEF StepKind

\* The late reply theorem: although requests carry no ids, a call that returns
\* returns its own answer, whatever times out, breaks, stops or raises.
THEOREM RepliesMatchCalls == ASSUME WellBehaved PROVE Spec => []ReplyMatchesCall
<1>1. Init => ReplyMatchesCall
  BY DEF Init, ClientInit, ReplyMatchesCall
<1>2. TypeOK /\ RpcInv /\ ReplyMatchesCall /\ [Next]_vars => ReplyMatchesCall'
  BY RepliesStep
<1>3. Spec => [](TypeOK /\ RpcInv)
  BY InvariantHolds
<1> QED
  BY <1>1, <1>2, <1>3, PTL DEF Spec


-----------------------------------------------------------------------------
(* The refinement of RpcContract.                                          *)

LEMMA RunOrderGrows ==
  ASSUME TypeOK, NEW l \in Link, NEW n, Runs(l, n)
  PROVE  RunOrder' = Append(RunOrder, Head(inq[l]).id)
<1> DEFINE h == Head(inq[l]).id
<1> DEFINE e == [id |-> h, link |-> l]
<1> DEFINE N == Len(executed)
<1>1. h \in CallId /\ executed' = Append(executed, e)
  BY RunsFacts DEF Runs, RunHandler
<1> HIDE DEF h
<1>2. e \in [id : CallId, link : Link] /\ e.id = h
  BY <1>1
<1> HIDE DEF e
<1>3. /\ DOMAIN executed' = 1..(N + 1) /\ DOMAIN executed = 1..N /\ N \in Nat
      /\ \A k \in 1..N : executed'[k] = executed[k]
      /\ executed'[N + 1] = e
  BY <1>1, <1>2, AppendFacts DEF TypeOK, ServerTypeOK
<1>4. \A k \in 1..N : executed[k].id \in CallId
  <2>1. \A k \in 1..N : executed[k] \in [id : CallId, link : Link]
    BY ElementOfSeq DEF TypeOK, ServerTypeOK
  <2> QED
    BY <2>1
<1> HIDE DEF N
<1>5. RunOrder = [k \in 1..N |-> executed[k].id]
  BY <1>3 DEF RunOrder
<1>6. RunOrder \in Seq(CallId) /\ Len(RunOrder) = N
  BY <1>3, <1>4, <1>5
<1>7. Append(RunOrder, h) \in Seq(CallId) /\ Len(Append(RunOrder, h)) = N + 1
      /\ (\A k \in 1..N : Append(RunOrder, h)[k] = RunOrder[k])
      /\ Append(RunOrder, h)[N + 1] = h
  BY <1>1, <1>6, AppendProperties
<1>8. RunOrder' = [k \in 1..(N + 1) |-> executed'[k].id]
  BY <1>3 DEF RunOrder
<1>9. \A k \in 1..(N + 1) : executed'[k].id \in CallId /\ executed'[k].id = Append(RunOrder, h)[k]
  BY <1>1, <1>2, <1>3, <1>4, <1>5, <1>7
<1>10. RunOrder' \in Seq(CallId) /\ Len(RunOrder') = N + 1
  BY <1>3, <1>8, <1>9
<1> QED
  BY <1>7, <1>8, <1>9, <1>10, SeqEqual DEF h

\* Every step of the system is a step of the contract, or none.
LEMMA ContractStep ==
  ASSUME WellBehaved, TypeOK, RpcInv, [Next]_vars
  PROVE  [Contract!Next]_Contract!vars
<1> USE DEF Contract!Next, Contract!vars
<1>0. CASE UNCHANGED <<status, got, executed>>
  BY <1>0 DEF RunOrder
<1>00. CallId \subseteq Nat /\ nextId \in Nat /\ NoCall \notin CallId
       /\ wait \in [Client -> {NoCall} \cup CallId]
  BY LinksAssumption DEF TypeOK, ClientTypeOK, CallId
<1> SUFFICES ASSUME StepKind PROVE [Contract!Next]_Contract!vars
  BY <1>0, NextIsStepKind DEF vars, clientVars, serverVars
<1>1. ASSUME NEW c \in Client, Reads(c) PROVE Contract!Next
  <2>1. /\ got' = [got EXCEPT ![wait[c]] = wait[c]]
        /\ status' = [status EXCEPT ![wait[c]] = "returned"]
        /\ wait[c] \in CallId /\ inbox[c] # <<>> /\ executed' = executed
    BY <1>00, <1>1, AnswerRead DEF Reads, TakeReply, RpcInv
  <2>2. status[wait[c]] = "waiting" /\ wait[c] \in Ran
    BY <1>00, <2>1 DEF RpcInv, CallInv, AnswerInv
  <2>3. \E k \in DOMAIN RunOrder : RunOrder[k] = wait[c]
    BY <2>2 DEF Ran, RunOrder
  <2> QED
    BY <2>1, <2>2, <2>3 DEF Contract!Return, RunOrder
<1>2. ASSUME NEW c \in Client, TimesOut(c) \/ Misreads(c) PROVE Contract!Next
  <2>1. /\ status' = [status EXCEPT ![wait[c]] = "raised"] /\ UNCHANGED <<got, executed>>
        /\ wait[c] \in CallId
    BY <1>00, <1>2 DEF TimesOut, Misreads, Misread, RaiseCall
  <2>2. status[wait[c]] = "waiting"
    BY <1>00, <2>1 DEF RpcInv, CallInv
  <2> QED
    BY <2>1, <2>2 DEF Contract!Raise, RunOrder
<1>3. ASSUME NEW c \in Client, NEW m \in Method, Makes(c, m) PROVE Contract!Next
  <2>1. PICK s \in {"waiting", "sent"} : status' = [status EXCEPT ![nextId] = s]
    BY <1>3 DEF Makes, SendCall
  <2>2. nextId \in CallId /\ UNCHANGED <<got, executed>>
    BY <1>3, LinksAssumption DEF Makes, SendCall, TypeOK, ClientTypeOK, CallId
  <2>3. status[nextId] = "none"
    BY <1>00, <2>2 DEF RpcInv, CallInv
  <2> QED
    BY <2>1, <2>2, <2>3 DEF Contract!Begin, RunOrder
<1>4. ASSUME NEW l \in Link, NEW n \in Answers(Head(inq[l]).method), Runs(l, n)
      PROVE  Contract!Next
  <2> DEFINE h == Head(inq[l]).id
  <2>1. h \in CallId /\ RunOrder' = Append(RunOrder, h) /\ UNCHANGED <<status, got>>
    BY <1>4, RunsFacts, RunOrderGrows DEF Runs, RunHandler, clientVars
  <2>2. h \in Ids(inq[l])
    BY <1>4, TailShrinks DEF Runs, TypeOK, LinksTypeOK
  <2>3. status[h] # "none"
    <3>1. h < nextId
      BY <2>2 DEF RpcInv, OrderInv, InOrder, Before
    <3>2. h \in Nat /\ nextId \in Nat /\ ~(h >= nextId)
      <4> HIDE DEF h
      <4> QED
        BY <1>00, <2>1, <3>1
    <3> HIDE DEF h
    <3> QED
      BY <2>1, <3>2 DEF RpcInv, CallInv
  <2>4. \A k \in DOMAIN RunOrder : RunOrder[k] # h
    <3>1. h \notin Ran
      BY <2>2 DEF RpcInv, OrderInv, OnePlace
    <3> QED
      BY <3>1 DEF Ran, RunOrder
  <2> HIDE DEF h
  <2> QED
    BY <2>1, <2>3, <2>4 DEF Contract!Run
<1>5. ASSUME NEW c \in Client, Opens(c) \/ Closes(c) \/ Breaks(c) \/ Delivers(c)
      PROVE  UNCHANGED <<status, got, executed>>
  BY <1>5 DEF Opens, Closes, Breaks, Delivers, clientVars
<1>6. ASSUME Restarts PROVE UNCHANGED <<status, got, executed>>
  BY <1>6 DEF Restarts, clientVars
<1>7. ASSUME NEW c \in Client PROVE ~Interrupted(c)
  BY DEF Interrupted, Interrupt, WellBehaved
<1> QED
  BY <1>0, <1>1, <1>2, <1>3, <1>4, <1>5, <1>6, <1>7 DEF StepKind

\* The system implements its contract: callers cannot tell it from one that
\* runs a call at most once and returns a call's own answer after running it.
THEOREM SystemImplementsContract == ASSUME WellBehaved PROVE Spec => ImplementsContract
<1>1. Init => Contract!Init
  BY DEF Init, ClientInit, ServerInit, Contract!Init, RunOrder
<1>2. TypeOK /\ RpcInv /\ [Next]_vars => [Contract!Next]_Contract!vars
  BY ContractStep
<1>3. Spec => [](TypeOK /\ RpcInv)
  BY InvariantHolds
<1> QED
  BY <1>1, <1>2, <1>3, PTL DEF Spec, ImplementsContract, Contract!Spec

-----------------------------------------------------------------------------
(***************************************************************************)
(* EarlierCallsRan: a connection that never breaks carries its calls in    *)
(* order, so whatever arrives was preceded by all that was sent before it. *)
(***************************************************************************)

\* Connections break only with a close or a timeout, and the server stays.
Steady == WellBehaved /\ Faults \cap {"stop", "break"} = {}

\* A call is where its connection can have brought it.
MadeOn ==
  /\ serverUp
  /\ \A i \in CallId : via[i] <= lastLink /\ (via[i] = NoLink <=> i >= nextId)
  /\ \A l \in Link : \A i \in Ids(inq[l]) \cup RanOn(l) : via[i] = l
  /\ \A c \in Client : \A i \in Ids(out[c]) : via[i] = link[c]

\* A connection in use has lost nothing, one given up has lost only what was
\* sent after everything that still arrives.
NothingLost ==
  \A c \in Client, j \in CallId :
    link[c] # NoLink /\ via[j] = link[c] =>
      j \in Ran \cup Ids(inq[link[c]]) \cup Ids(out[c])

RanInOrder ==
  \A i, j \in CallId : j < i /\ via[j] = via[i] /\ i \in Ran => j \in Ran

ArrivedInOrder ==
  \A l \in Link, i, j \in CallId :
    j < i /\ via[j] = via[i] /\ i \in Ids(inq[l]) => j \in Ran \cup Ids(inq[l])

ReturnedRan == \A i \in CallId : status[i] = "returned" => i \in Ran

SteadyInv == MadeOn /\ NothingLost /\ RanInOrder /\ ArrivedInOrder /\ ReturnedRan

\* A nonempty sequence holds its head and what its tail holds.
LEMMA HeadOrTail ==
  ASSUME NEW s \in Seq(Request), s # <<>>
  PROVE  Ids(s) = {Head(s).id} \cup Ids(Tail(s))
<1>1. /\ Len(s) \in Nat \ {0} /\ DOMAIN s = 1..Len(s)
      /\ Tail(s) \in Seq(Request) /\ Len(Tail(s)) = Len(s) - 1
      /\ \A k \in 1..Len(Tail(s)) : Tail(s)[k] = s[k + 1]
  BY HeadTailProperties, LenProperties, EmptySeq
<1>2. Head(s) = s[1] /\ DOMAIN Tail(s) = 1..(Len(s) - 1)
  BY <1>1, LenProperties
<1>3. ASSUME NEW k \in DOMAIN s, k # 1 PROVE s[k].id \in Ids(Tail(s))
  <2>1. k - 1 \in DOMAIN Tail(s) /\ Tail(s)[k - 1] = s[(k - 1) + 1] /\ (k - 1) + 1 = k
    BY <1>1, <1>2, <1>3
  <2> QED
    BY <2>1 DEF Ids
<1>4. Ids(Tail(s)) \subseteq Ids(s) /\ Head(s).id \in Ids(s)
  BY TailShrinks DEF Shrinks
<1> QED
  BY <1>2, <1>3, <1>4 DEF Ids

\* A prefix of calls in order holds every call before one it holds.
LEMMA PrefixClosed ==
  ASSUME NEW s \in Seq(Request), Increasing(s), NEW t \in Prefixes(s),
         NEW i \in Ids(t), NEW j \in Ids(s), j < i
  PROVE  j \in Ids(t)
<1>1. PICK n \in 0..Len(s) : t = SubSeq(s, 1, n)
  BY DEF Prefixes
<1>2. Len(s) \in Nat /\ DOMAIN s = 1..Len(s)
  BY LenProperties
<1>3. DOMAIN t = 1..n /\ \A k \in 1..n : t[k] = s[k]
  BY <1>1, <1>2
<1>4. PICK k \in 1..n : i = s[k].id
  BY <1>3 DEF Ids
<1>5. PICK m \in 1..Len(s) : j = s[m].id
  BY <1>2 DEF Ids
<1>6. \A a \in 1..Len(s) : s[a].id \in Nat
  <2>1. \A a \in 1..Len(s) : s[a] \in Request
    BY <1>2, ElementOfSeq
  <2> QED
    BY <2>1, LinksAssumption DEF Request, CallId
<1>7. m < k
  <2>1. CASE k < m
    <3>1. s[k].id < s[m].id
      BY <1>2, <1>4, <1>5, <2>1 DEF Increasing
    <3> QED
      BY <1>2, <1>4, <1>5, <1>6, <3>1
  <2>2. CASE k = m
    BY <1>4, <1>5, <1>6, <2>2
  <2> QED
    BY <1>2, <2>1, <2>2
<1> QED
  BY <1>3, <1>4, <1>5, <1>7 DEF Ids

\* The numbers and links the steps compare.
LEMMA SteadyTypes ==
  ASSUME TypeOK
  PROVE  /\ lastLink \in Nat /\ nextId \in Nat
         /\ \A c \in Client : link[c] \in {NoLink} \cup Link
         /\ \A i \in CallId : via[i] \in {NoLink} \cup Link
         /\ CallId \subseteq Nat /\ Link \subseteq Nat /\ NoLink \notin Link
         /\ \A c \in Client : out[c] \in Seq(Request)
         /\ \A l \in Link : inq[l] \in Seq(Request)
BY LinksAssumption DEF TypeOK, LinksTypeOK, ClientTypeOK, CallId, Link

\* A call is the latest: it is behind everything its connection carries.
LEMMA SteadyMakes ==
  ASSUME TypeOK, RpcInv, SteadyInv, NEW c \in Client, NEW m \in Method, Makes(c, m)
  PROVE  SteadyInv'
<1> DEFINE r == [id |-> nextId, method |-> m]
<1> USE SteadyTypes
<1>1. nextId \in CallId /\ nextId' = nextId + 1 /\ link[c] \in Link
  BY LinksAssumption DEF Makes, SendCall, Send, TypeOK, ClientTypeOK, CallId
<1>2. r \in Request /\ r.id = nextId
  BY <1>1 DEF Request
<1>3. /\ out' = [out EXCEPT ![c] = Append(out[c], r)]
      /\ via' = [via EXCEPT ![nextId] = link[c]]
      /\ \E s \in {"waiting", "sent"} : status' = [status EXCEPT ![nextId] = s]
      /\ UNCHANGED <<link, inq, executed, lastLink, serverUp>>
  BY DEF Makes, SendCall, Send
<1> HIDE DEF r
<1>4. /\ Ids(out'[c]) = Ids(out[c]) \cup {nextId}
      /\ \A d \in Client : d # c => out'[d] = out[d]
  BY <1>2, <1>3, AppendGrows DEF TypeOK, LinksTypeOK
<1>5. \A i \in CallId : via'[i] = IF i = nextId THEN link[c] ELSE via[i]
  BY <1>1, <1>3 DEF TypeOK, ClientTypeOK
<1>6. Ran' = Ran /\ \A l \in Link : RanOn(l)' = RanOn(l)
  BY <1>3 DEF Ran, RanOn
<1>7. /\ \A d \in Client : Ids(out[d]) \subseteq CallId /\ \A i \in Ids(out[d]) : i < nextId
      /\ \A l \in Link : Ids(inq[l]) \subseteq CallId /\ \A i \in Ids(inq[l]) : i < nextId
      /\ Ran \subseteq CallId /\ \A i \in Ran : i < nextId
      /\ \A l \in Link : RanOn(l) \subseteq Ran
  BY IdsAreCalls DEF RpcInv, OrderInv, InOrder, Before
<1>8. MadeOn'
  <2>1. \A i \in CallId : via'[i] <= lastLink /\ (via'[i] = NoLink <=> i >= nextId')
    BY <1>1, <1>5 DEF RpcInv, LinkInv, SteadyInv, MadeOn
  <2>2. \A l \in Link : \A i \in Ids(inq[l]) \cup RanOn(l) : via'[i] = l
    BY <1>5, <1>7 DEF SteadyInv, MadeOn
  <2>3. \A d \in Client : \A i \in Ids(out'[d]) : via'[i] = link[d]
    BY <1>1, <1>4, <1>5, <1>7 DEF SteadyInv, MadeOn
  <2> QED
    BY <1>3, <1>6, <2>1, <2>2, <2>3 DEF SteadyInv, MadeOn
<1>9. NothingLost'
  <2>1. ASSUME NEW d \in Client, NEW j \in CallId, link[d] # NoLink, via'[j] = link[d]
        PROVE  j \in Ran \cup Ids(inq[link[d]]) \cup Ids(out'[d])
    <3>1. CASE j = nextId
      BY <1>1, <1>4, <1>5, <2>1, <3>1 DEF RpcInv, LinkInv
    <3>2. CASE j # nextId
      <4>1. j \in Ran \cup Ids(inq[link[d]]) \cup Ids(out[d])
        BY <1>5, <2>1, <3>2 DEF SteadyInv, NothingLost
      <4> QED
        BY <1>4, <4>1
    <3> QED
      BY <3>1, <3>2
  <2> QED
    BY <1>3, <1>6, <2>1 DEF NothingLost, Ids
<1>10. RanInOrder' /\ ArrivedInOrder'
  <2>1. \A i, j \in CallId : i < nextId /\ j < i => via'[i] = via[i] /\ via'[j] = via[j]
    BY <1>1, <1>5
  <2>2. RanInOrder'
    BY <1>6, <1>7, <2>1 DEF SteadyInv, RanInOrder
  <2>3. ArrivedInOrder'
    BY <1>3, <1>6, <1>7, <2>1 DEF SteadyInv, ArrivedInOrder, Ids
  <2> QED
    BY <2>2, <2>3
<1>11. ReturnedRan'
  BY <1>1, <1>3, <1>6 DEF SteadyInv, ReturnedRan, TypeOK, ClientTypeOK
<1> QED
  BY <1>8, <1>9, <1>10, <1>11 DEF SteadyInv

\* Delivery brings the oldest call of a pipe, after all the earlier ones.
LEMMA SteadyDelivers ==
  ASSUME TypeOK, RpcInv, SteadyInv, NEW c \in Client, Delivers(c)
  PROVE  SteadyInv'
<1> DEFINE r == Head(out[c])
<1> DEFINE l == link[c]
<1> USE SteadyTypes
<1>1. out[c] \in Seq(Request) /\ out[c] # <<>> /\ l \in Link /\ inq[l] \in Seq(Request)
  BY DEF Delivers, Deliver
<1>2. r \in Request
  BY <1>1, TailFacts
<1>3. /\ out' = [out EXCEPT ![c] = Tail(out[c])]
      /\ inq' = [inq EXCEPT ![l] = Append(inq[l], r)]
      /\ UNCHANGED <<link, executed, nextId, via, status, lastLink, serverUp>>
  BY DEF Delivers, Deliver, clientVars
<1>4. /\ Ids(out[c]) = {r.id} \cup Ids(Tail(out[c]))
      /\ \A i \in Ids(Tail(out[c])) : r.id < i
  BY <1>1, HeadOrTail, TailShrinks DEF RpcInv, OrderInv, InOrder, Before
<1> HIDE DEF r
<1>5. /\ \A d \in Client : Ids(out'[d]) = IF d = c THEN Ids(Tail(out[c])) ELSE Ids(out[d])
      /\ \A k \in Link : Ids(inq'[k]) = IF k = l THEN Ids(inq[l]) \cup {r.id} ELSE Ids(inq[k])
  BY <1>1, <1>2, <1>3, AppendGrows DEF TypeOK, LinksTypeOK
<1>6. Ran' = Ran /\ \A k \in Link : RanOn(k)' = RanOn(k)
  BY <1>3 DEF Ran, RanOn
<1>7. via[r.id] = l /\ r.id \in CallId
  BY <1>2, <1>4 DEF SteadyInv, MadeOn, Request
<1> HIDE DEF l
<1>8. MadeOn'
  <2>1. \A k \in Link : \A i \in Ids(inq'[k]) \cup RanOn(k) : via[i] = k
    BY <1>5, <1>7 DEF SteadyInv, MadeOn
  <2>2. \A d \in Client : \A i \in Ids(out'[d]) : via[i] = link[d]
    BY <1>4, <1>5 DEF SteadyInv, MadeOn
  <2> QED
    BY <1>3, <1>6, <2>1, <2>2 DEF SteadyInv, MadeOn
<1>9. NothingLost'
  <2>1. ASSUME NEW d \in Client, NEW k \in Link, k = link[d], NEW j \in CallId, via[j] = k
        PROVE  j \in Ran \cup Ids(inq'[k]) \cup Ids(out'[d])
    <3>1. j \in Ran \cup Ids(inq[k]) \cup Ids(out[d])
      BY <2>1 DEF SteadyInv, NothingLost
    <3>2. d = c => k = l
      BY <2>1 DEF l
    <3> QED
      BY <1>4, <1>5, <3>1, <3>2
  <2>2. \A d \in Client, j \in CallId : link[d] # NoLink /\ via[j] = link[d] =>
          j \in Ran \cup Ids(inq'[link[d]]) \cup Ids(out'[d])
    BY <2>1
  <2> QED
    BY <1>3, <1>6, <2>2 DEF NothingLost, Ids
<1>10. ArrivedInOrder'
  <2>1. ASSUME NEW k \in Link, NEW i \in CallId, NEW j \in CallId,
               j < i, via[j] = via[i], i \in Ids(inq'[k])
        PROVE  j \in Ran \cup Ids(inq'[k])
    <3>1. CASE i \in Ids(inq[k])
      <4>1. j \in Ran \cup Ids(inq[k])
        BY <2>1, <3>1 DEF SteadyInv, ArrivedInOrder
      <4> QED
        BY <1>5, <4>1
    <3>2. CASE i = r.id /\ k = l
      <4>1. j \in Ran \cup Ids(inq[l]) \cup Ids(out[c])
        BY <1>1, <1>7, <2>1, <3>2 DEF SteadyInv, NothingLost, l
      <4>2. j # r.id /\ ~(r.id < j)
        BY <1>7, <2>1, <3>2
      <4> QED
        BY <1>4, <1>5, <3>2, <4>1, <4>2
    <3> QED
      BY <1>5, <2>1, <3>1, <3>2
  <2> QED
    BY <1>3, <1>6, <2>1 DEF ArrivedInOrder, Ids
<1>11. RanInOrder' /\ ReturnedRan'
  BY <1>3, <1>6 DEF SteadyInv, RanInOrder, ReturnedRan
<1> QED
  BY <1>8, <1>9, <1>10, <1>11 DEF SteadyInv

\* A handler runs the oldest call that arrived, after all the earlier ones.
LEMMA SteadyRuns ==
  ASSUME TypeOK, RpcInv, SteadyInv,
         NEW l \in Link, NEW n \in Answers(Head(inq[l]).method), Runs(l, n)
  PROVE  SteadyInv'
<1> DEFINE h == Head(inq[l]).id
<1> USE SteadyTypes
<1>1. inq[l] \in Seq(Request) /\ inq[l] # <<>> /\ h \in CallId
  BY RunsFacts DEF Runs
<1>2. /\ inq' = [inq EXCEPT ![l] = Tail(inq[l])]
      /\ UNCHANGED <<out, link, nextId, via, status, lastLink, serverUp>>
  BY DEF Runs, RunHandler, TakeAndReply, clientVars
<1>3. /\ Ids(inq[l]) = {h} \cup Ids(Tail(inq[l]))
      /\ \A i \in Ids(Tail(inq[l])) : h < i
  BY <1>1, HeadOrTail, TailShrinks DEF RpcInv, OrderInv, InOrder, Before
<1>4. /\ Ran' = Ran \cup {h}
      /\ \A k \in Link : RanOn(k)' = IF k = l THEN RanOn(l) \cup {h} ELSE RanOn(k)
  BY RunRecorded
<1> HIDE DEF h
<1>5. \A k \in Link : Ids(inq'[k]) = IF k = l THEN Ids(Tail(inq[l])) ELSE Ids(inq[k])
  BY <1>2 DEF TypeOK, LinksTypeOK
<1>6. MadeOn'
  <2>1. \A k \in Link : \A i \in Ids(inq'[k]) \cup RanOn(k)' : via[i] = k
    BY <1>3, <1>4, <1>5 DEF SteadyInv, MadeOn
  <2> QED
    BY <1>2, <2>1 DEF SteadyInv, MadeOn
<1>7. NothingLost'
  <2>1. ASSUME NEW d \in Client, NEW k \in Link, k = link[d], NEW j \in CallId, via[j] = k
        PROVE  j \in Ran' \cup Ids(inq'[k]) \cup Ids(out[d])
    <3>1. j \in Ran \cup Ids(inq[k]) \cup Ids(out[d])
      BY <2>1 DEF SteadyInv, NothingLost
    <3> QED
      BY <1>3, <1>4, <1>5, <3>1
  <2>2. \A d \in Client, j \in CallId : link[d] # NoLink /\ via[j] = link[d] =>
          j \in Ran' \cup Ids(inq'[link[d]]) \cup Ids(out[d])
    BY <2>1
  <2> QED
    BY <1>2, <2>2 DEF NothingLost, Ids
<1>8. RanInOrder'
  <2>1. ASSUME NEW i \in CallId, NEW j \in CallId, j < i, via[j] = via[i], i \in Ran'
        PROVE  j \in Ran'
    <3>1. CASE i \in Ran
      BY <1>4, <2>1, <3>1 DEF SteadyInv, RanInOrder
    <3>2. CASE i = h
      <4>1. j \in Ran \cup Ids(inq[l])
        BY <1>3, <2>1, <3>2 DEF SteadyInv, ArrivedInOrder
      <4>2. ~(h < j)
        BY <1>1, <2>1, <3>2
      <4> QED
        BY <1>3, <1>4, <4>1, <4>2
    <3> QED
      BY <1>4, <2>1, <3>1, <3>2
  <2> QED
    BY <1>2, <2>1 DEF RanInOrder
<1>9. ArrivedInOrder'
  <2>1. ASSUME NEW k \in Link, NEW i \in CallId, NEW j \in CallId,
               j < i, via[j] = via[i], i \in Ids(inq'[k])
        PROVE  j \in Ran' \cup Ids(inq'[k])
    <3>1. i \in Ids(inq[k])
      BY <1>3, <1>5, <2>1
    <3>2. j \in Ran \cup Ids(inq[k])
      BY <2>1, <3>1 DEF SteadyInv, ArrivedInOrder
    <3> QED
      BY <1>3, <1>4, <1>5, <3>2
  <2> QED
    BY <1>2, <2>1 DEF ArrivedInOrder, Ids
<1>10. ReturnedRan'
  BY <1>2, <1>4 DEF SteadyInv, ReturnedRan
<1> QED
  BY <1>6, <1>7, <1>8, <1>9, <1>10 DEF SteadyInv

\* A client that gives its connection up cuts off its latest calls.
LEMMA SteadyDisconnects ==
  ASSUME TypeOK, RpcInv, SteadyInv, NEW c \in Client, Disconnect(c),
         UNCHANGED <<executed, nextId, via>>,
         \A i \in CallId : status'[i] = "returned" => status[i] = "returned"
  PROVE  SteadyInv'
<1> DEFINE l == link[c]
<1> USE SteadyTypes
<1>1. l \in Link /\ inq[l] \in Seq(Request)
  BY DEF Disconnect
<1>2. PICK arrives \in Prefixes(inq[l]) : inq' = [inq EXCEPT ![l] = arrives]
  BY DEF Disconnect
<1>3. UNCHANGED <<lastLink, serverUp>>
  BY DEF Disconnect
<1>4. /\ \A k \in Link : Ids(inq'[k]) = IF k = l THEN Ids(arrives) ELSE Ids(inq[k])
      /\ Ids(arrives) \subseteq Ids(inq[l])
  BY <1>1, <1>2, PrefixShrinks DEF TypeOK, LinksTypeOK, Shrinks
<1>5. /\ \A d \in Client : link'[d] = IF d = c THEN NoLink ELSE link[d]
      /\ \A d \in Client : d # c => out'[d] = out[d]
      /\ Ids(out'[c]) = {}
  BY EmptyShrinks DEF Disconnect, TypeOK, LinksTypeOK
<1>6. Ran' = Ran /\ \A k \in Link : RanOn(k)' = RanOn(k)
  BY DEF Ran, RanOn
<1>7. \A d \in Client : d # c => link[d] # l
  BY <1>1 DEF RpcInv, LinkInv
<1> HIDE DEF l
<1>8. MadeOn'
  <2>1. \A k \in Link : \A i \in Ids(inq'[k]) \cup RanOn(k) : via[i] = k
    BY <1>4 DEF SteadyInv, MadeOn
  <2>2. \A d \in Client : \A i \in Ids(out'[d]) : via[i] = link'[d]
    BY <1>5 DEF SteadyInv, MadeOn
  <2> QED
    BY <1>3, <1>6, <2>1, <2>2 DEF SteadyInv, MadeOn
<1>9. NothingLost'
  <2>1. ASSUME NEW d \in Client, NEW k \in Link, k = link'[d], NEW j \in CallId, via[j] = k
        PROVE  j \in Ran \cup Ids(inq'[k]) \cup Ids(out'[d])
    <3>1. d # c /\ k = link[d] /\ k # l
      BY <1>5, <1>7, <2>1
    <3>2. j \in Ran \cup Ids(inq[k]) \cup Ids(out[d])
      BY <2>1, <3>1 DEF SteadyInv, NothingLost
    <3> QED
      BY <1>4, <1>5, <3>1, <3>2
  <2> QED
    BY <1>5, <1>6, <2>1 DEF NothingLost, Ids
<1>10. ArrivedInOrder'
  <2>1. ASSUME NEW k \in Link, NEW i \in CallId, NEW j \in CallId,
               j < i, via[j] = via[i], i \in Ids(inq'[k])
        PROVE  j \in Ran \cup Ids(inq'[k])
    <3>1. i \in Ids(inq[k])
      BY <1>4, <2>1
    <3>2. j \in Ran \cup Ids(inq[k])
      BY <2>1, <3>1 DEF SteadyInv, ArrivedInOrder
    <3>3. CASE k = l /\ j \in Ids(inq[l])
      <4>1. Increasing(inq[l])
        BY <1>1 DEF RpcInv, OrderInv, InOrder
      <4>2. j \in Ids(arrives)
        BY <1>1, <1>2, <1>4, <2>1, <3>3, <4>1, PrefixClosed
      <4> QED
        BY <1>4, <3>3, <4>2
    <3> QED
      BY <1>4, <3>2, <3>3
  <2> QED
    BY <1>6, <2>1 DEF ArrivedInOrder, Ids
<1>11. RanInOrder' /\ ReturnedRan'
  BY <1>6 DEF SteadyInv, RanInOrder, ReturnedRan
<1> QED
  BY <1>8, <1>9, <1>10, <1>11 DEF SteadyInv

\* A new connection has carried nothing, and its client has nothing to send.
LEMMA SteadyOpens ==
  ASSUME TypeOK, RpcInv, SteadyInv, NEW c \in Client, Opens(c)
  PROVE  SteadyInv'
<1> USE SteadyTypes
<1>1. /\ lastLink' = lastLink + 1 /\ link[c] = NoLink
      /\ UNCHANGED <<serverUp, out, inq, nextId, via, status, executed>>
  BY DEF Opens, Connect, clientVars
<1>2. \A d \in Client : link'[d] = IF d = c THEN lastLink + 1 ELSE link[d]
  BY DEF Opens, Connect, TypeOK, LinksTypeOK
<1>3. Ids(out[c]) = {}
  BY <1>1, EmptyShrinks DEF RpcInv, LinkInv
<1>4. Ran' = Ran /\ \A k \in Link : RanOn(k)' = RanOn(k)
  BY <1>1 DEF Ran, RanOn
<1>5. MadeOn'
  <2>1. \A i \in CallId : via[i] <= lastLink + 1
    BY DEF SteadyInv, MadeOn
  <2>2. \A d \in Client : \A i \in Ids(out[d]) : via[i] = link'[d]
    BY <1>2, <1>3 DEF SteadyInv, MadeOn
  <2> QED
    BY <1>1, <1>4, <2>1, <2>2 DEF SteadyInv, MadeOn
<1>6. NothingLost'
  <2>1. ASSUME NEW d \in Client, NEW j \in CallId, link'[d] # NoLink, via[j] = link'[d]
        PROVE  link[d] = link'[d]
    BY <1>2, <2>1 DEF SteadyInv, MadeOn
  <2> QED
    BY <1>1, <1>4, <2>1 DEF SteadyInv, NothingLost, Ids
<1>7. RanInOrder' /\ ArrivedInOrder' /\ ReturnedRan'
  BY <1>1, <1>4 DEF SteadyInv, RanInOrder, ArrivedInOrder, ReturnedRan, Ids
<1> QED
  BY <1>5, <1>6, <1>7 DEF SteadyInv

\* A call returns after it was run.
LEMMA SteadyReads ==
  ASSUME TypeOK, RpcInv, SteadyInv, NEW c \in Client, Reads(c) \/ Misreads(c)
  PROVE  SteadyInv'
<1>1. /\ wait[c] \in CallId /\ wait[c] \in Ran
      /\ \E s \in {"returned", "raised"} : status' = [status EXCEPT ![wait[c]] = s]
      /\ UNCHANGED <<nextId, via, serverUp, link, lastLink, out, inq, executed>>
  BY DEF Reads, TakeReply, Misreads, Misread, RaiseCall, TypeOK, ClientTypeOK, RpcInv, AnswerInv
<1>2. Ran' = Ran /\ \A k \in Link : RanOn(k)' = RanOn(k)
  BY <1>1 DEF Ran, RanOn
<1>3. MadeOn'
  BY <1>1, <1>2 DEF SteadyInv, MadeOn, Ids
<1>4. NothingLost'
  BY <1>1, <1>2 DEF SteadyInv, NothingLost, Ids
<1>5. RanInOrder' /\ ArrivedInOrder'
  BY <1>1, <1>2 DEF SteadyInv, RanInOrder, ArrivedInOrder, Ids
<1>6. ReturnedRan'
  BY <1>1, <1>2 DEF SteadyInv, ReturnedRan, TypeOK, ClientTypeOK
<1> QED
  BY <1>3, <1>4, <1>5, <1>6 DEF SteadyInv

LEMMA SteadyInit == ASSUME Init PROVE SteadyInv
<1> USE DEF Init, LinksInit, ClientInit, ServerInit
<1>1. Ran = {} /\ \A l \in Link : RanOn(l) = {}
  BY DEF Ran, RanOn
<1>2. /\ \A c \in Client : Ids(out[c]) = {}
      /\ \A l \in Link : Ids(inq[l]) = {}
  BY EmptyShrinks
<1>3. MadeOn
  BY <1>1, <1>2, LinksAssumption DEF MadeOn, CallId
<1>4. NothingLost /\ RanInOrder /\ ArrivedInOrder /\ ReturnedRan
  BY <1>1, <1>2 DEF NothingLost, RanInOrder, ArrivedInOrder, ReturnedRan
<1> QED
  BY <1>3, <1>4 DEF SteadyInv

\* In a steady system a connection ends only with its client's leave.
LEMMA SteadyStep ==
  ASSUME Steady, TypeOK, RpcInv, SteadyInv, [Next]_vars
  PROVE  SteadyInv'
<1>1. CASE UNCHANGED vars
  <2>1. UNCHANGED <<serverUp, link, lastLink, out, inq, nextId, via, status, executed>>
    BY <1>1 DEF vars, linkVars, clientVars, serverVars
  <2>2. Ran' = Ran /\ \A k \in Link : RanOn(k)' = RanOn(k)
    BY <2>1 DEF Ran, RanOn
  <2>3. MadeOn' /\ NothingLost'
    BY <2>1, <2>2 DEF SteadyInv, MadeOn, NothingLost, Ids
  <2> QED
    BY <2>1, <2>2, <2>3
       DEF SteadyInv, RanInOrder, ArrivedInOrder, ReturnedRan, Ids
<1>2. ASSUME NEW c \in Client, ClientStep(c) PROVE SteadyInv'
  <2>1. ~LinkBreak(c) /\ ~Interrupt(c)
    BY DEF LinkBreak, Interrupt, Steady, WellBehaved, SteadyInv, MadeOn
  <2>2. UNCHANGED executed
    BY <1>2 DEF ClientStep, serverVars
  <2>3. CASE PyOpen(c) \/ CppOpen(c)
    BY <2>2, <2>3, SteadyOpens DEF PyOpen, CppOpen, Opens
  <2>4. CASE \E m \in Method : PyCall(c, m) \/ CppCall(c, m)
    BY <2>2, <2>4, SteadyMakes DEF PyCall, CppCall, Makes
  <2>5. CASE PyReturn(c) \/ CppReturn(c) \/ Misread(c)
    BY <2>2, <2>5, SteadyReads DEF PyReturn, CppReturn, Reads, Misreads
  <2>6. CASE PyTimeout(c)
    <3>1. Disconnect(c) /\ UNCHANGED <<executed, nextId, via>>
      BY <2>2, <2>6 DEF PyTimeout, RaiseCall
    <3>2. \A i \in CallId : status'[i] = "returned" => status[i] = "returned"
      BY <2>6 DEF PyTimeout, RaiseCall, TypeOK, ClientTypeOK
    <3> QED
      BY <3>1, <3>2, SteadyDisconnects
  <2>7. CASE PyClose(c) \/ CppClose(c)
    <3>1. Closes(c)
      BY <2>2, <2>7, CppCloseCloses DEF PyClose, Closes
    <3> QED
      BY <3>1, SteadyDisconnects DEF Closes, clientVars
  <2>8. CASE DeliverRequest(c)
    BY <2>2, <2>8, SteadyDelivers DEF DeliverRequest, Delivers
  <2> QED
    BY <1>2, <2>1, <2>3, <2>4, <2>5, <2>6, <2>7, <2>8 DEF ClientStep
<1>3. ASSUME NEW l \in Link, PyServe(l) \/ CppServe(l) PROVE SteadyInv'
  <2>1. PICK n \in Answers(Head(inq[l]).method) : RunHandler(l, n) /\ inq[l] # <<>>
    BY <1>3 DEF PyServe, CppServe, Raises, Answers
  <2> QED
    BY <2>1, SteadyRuns DEF Runs
<1>4. ~StopServer /\ ~StartServer
  BY DEF StopServer, StartServer, Bind, Steady, SteadyInv, MadeOn
<1> QED
  BY <1>1, <1>2, <1>3, <1>4 DEF Next

\* Where no connection breaks by itself and the server stays, a call that
\* returned came after the runs of all earlier calls made on its connection,
\* one-way calls included, whatever handlers raise and clients give up.
THEOREM EarlierCallsHaveRun == ASSUME Steady PROVE Spec => []EarlierCallsRan
<1>1. Init => SteadyInv
  BY SteadyInit
<1>2. TypeOK /\ RpcInv /\ SteadyInv /\ [Next]_vars => SteadyInv'
  BY SteadyStep
<1>3. Spec => [](TypeOK /\ RpcInv)
  BY InvariantHolds DEF Steady
<1>4. SteadyInv => EarlierCallsRan
  BY DEF SteadyInv, ReturnedRan, RanInOrder, EarlierCallsRan
<1> QED
  BY <1>1, <1>2, <1>3, <1>4, PTL DEF Spec

=============================================================================
