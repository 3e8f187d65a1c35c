-------------------------- MODULE EventLoopProofs --------------------------
(***************************************************************************)
(* No request is forgotten by the event loop, for any sockets and whatever *)
(* the handlers send; and no subscription that a send has not overtaken.   *)
(***************************************************************************)
EXTENDS EventLoop, TLAPS

\* The names of the loop's places are not sockets.
LEMMA PlacesAreNotSockets == \A s \in Socket : s # "select" /\ s # "dispatch" /\ s # "timer"
  BY EventLoopAssumption

\* What a send leaves is what it found, or it took notice of all the XPUB was told of.
LEMMA EmissionTypes ==
  ASSUME TypeOK, NEW after \in Emission
  PROVE  /\ after.told \in [Socket -> Nat] /\ after.ready \in [Socket -> Nat]
         /\ after.overtaken \in BOOLEAN
         /\ \A s \in Socket : after.told[s] + after.ready[s] = told[s] + ready[s]
<1> USE EventLoopAssumption DEF TypeOK
<1>1. CASE after = NoEmission
  <2>1. after.told = told /\ after.ready = ready /\ after.overtaken = overtaken
    BY <1>1 DEF NoEmission
  <2> QED  BY <2>1
<1>2. CASE after # NoEmission
  <2>1. /\ after.told = [told EXCEPT ![Xpub] = 0]
        /\ after.ready = [ready EXCEPT ![Xpub] = @ + told[Xpub]]
        /\ after.overtaken = (overtaken \/ told[Xpub] > 0)
    <3>1. after = Notice
      BY <1>2 DEF Emission
    <3> QED  BY <3>1 DEF Notice
  <2>2. told[Xpub] \in Nat /\ ready[Xpub] \in Nat
    OBVIOUS
  <2>3. after.told \in [Socket -> Nat] /\ after.ready \in [Socket -> Nat]
    BY <2>1, <2>2
  <2>4. ASSUME NEW s \in Socket PROVE after.told[s] + after.ready[s] = told[s] + ready[s]
    <3>1. CASE s = Xpub
      BY <2>1, <2>2, <3>1
    <3>2. CASE s # Xpub
      BY <2>1, <3>2
    <3> QED  BY <3>1, <3>2
  <2> QED  BY <2>1, <2>3, <2>4
<1> QED  BY <1>1, <1>2

\* Every variable keeps its type, however messages arrive.
THEOREM TypeCorrect == Spec => []TypeOK
<1>1. Init => TypeOK
  <2> SUFFICES ASSUME Init PROVE TypeOK
    OBVIOUS
  <2>1. told \in [Socket -> Nat] /\ ready \in [Socket -> Nat] /\ handled \in [Socket -> Nat]
    BY DEF Init
  <2>2. expired \in BOOLEAN /\ events \subseteq Socket \cup {"timer"}
    BY DEF Init
  <2>5. overtaken \in BOOLEAN
    BY DEF Init
  <2>3. at \in Socket \cup {"select", "dispatch"}
    BY DEF Init
  <2>4. emitting \subseteq {"timer", "request"}
    BY EventLoopAssumption DEF Init
  <2> QED BY <2>1, <2>2, <2>3, <2>4, <2>5 DEF TypeOK
<1>2. TypeOK /\ [Next]_vars => TypeOK'
  <2> SUFFICES ASSUME TypeOK, [Next]_vars PROVE TypeOK'
    OBVIOUS
  <2> USE EventLoopAssumption DEF TypeOK
  <2>1. ASSUME NEW s \in Socket, Arrive(s) PROVE TypeOK'
    BY <2>1 DEF Arrive
  <2>2. CASE Expire
    BY <2>2 DEF Expire
  <2>3. CASE Select
    BY <2>3 DEF Select, Readable
  <2>4. CASE DispatchTimer
    <3>1. PICK after \in Emission :
            told' = after.told /\ ready' = after.ready /\ overtaken' = after.overtaken
      BY <2>4 DEF DispatchTimer, Emissions, Emission
    <3>2. told' \in [Socket -> Nat] /\ ready' \in [Socket -> Nat] /\ overtaken' \in BOOLEAN
      BY <3>1, EmissionTypes
    <3> QED BY <2>4, <3>2 DEF DispatchTimer
  <2>5. ASSUME NEW s \in Socket, DispatchSocket(s) PROVE TypeOK'
    BY <2>5 DEF DispatchSocket
  <2>6. ASSUME NEW s \in Socket, Handle(s) PROVE TypeOK'
    <3>1. PICK after \in Emission :
            /\ told' = [after.told EXCEPT ![s] = 0]
            /\ ready' = [after.ready EXCEPT ![s] = @ + after.told[s] - 1]
            /\ overtaken' = after.overtaken
      BY <2>6 DEF Handle, Emissions, Emission
    <3>2. after.told \in [Socket -> Nat] /\ after.ready \in [Socket -> Nat] /\ after.overtaken \in BOOLEAN
      BY <3>1, EmissionTypes
    <3>3. after.told[s] + after.ready[s] > 0
      BY <2>6, <3>1, EmissionTypes DEF Handle
    <3>4. told' \in [Socket -> Nat] /\ ready' \in [Socket -> Nat] /\ overtaken' \in BOOLEAN
      BY <3>1, <3>2, <3>3
    <3> QED BY <2>6, <3>4 DEF Handle
  <2>7. ASSUME NEW s \in Socket, Drained(s) PROVE TypeOK'
    BY <2>7 DEF Drained
  <2>8. CASE Again
    BY <2>8 DEF Again
  <2>9. CASE UNCHANGED vars
    BY <2>9 DEF vars
  <2> QED BY <2>1, <2>2, <2>3, <2>4, <2>5, <2>6, <2>7, <2>8, <2>9 DEF Next, Loop
<1> QED BY <1>1, <1>2, PTL DEF Spec

\* What a step may leave of a socket that is not being drained: nothing, unless it is the
\* XPUB and a handler sends.
Remembered(s) == HeldIsDrained(s) \/ (s = Xpub /\ overtaken)

\* What a handler's send does to a socket that is not being drained.
LEMMA EmissionIsRemembered ==
  ASSUME TypeOK, NEW handler, NEW after \in Emissions(handler), NEW s \in Socket
  PROVE  /\ after.overtaken \in BOOLEAN /\ (overtaken => after.overtaken)
         /\ after.ready[s] = ready[s] \/ (s = Xpub /\ after.overtaken)
         /\ after.overtaken => overtaken \/ emitting # {}
<1> USE EventLoopAssumption DEF TypeOK
<1>1. CASE after = NoEmission
  BY <1>1 DEF NoEmission
<1>2. CASE after # NoEmission
  <2>1. /\ handler \in emitting
        /\ after.ready = [ready EXCEPT ![Xpub] = @ + told[Xpub]]
        /\ after.overtaken = (overtaken \/ told[Xpub] > 0)
    <3>1. handler \in emitting /\ after = Notice
      BY <1>2 DEF Emissions, Emission
    <3> QED  BY <3>1 DEF Notice
  <2>2. CASE s # Xpub
    BY <2>1, <2>2
  <2>3. CASE s = Xpub
    <3>1. told[Xpub] \in Nat /\ ready[Xpub] \in Nat /\ after.ready[Xpub] = ready[Xpub] + told[Xpub]
      BY <2>1
    <3>2. CASE told[Xpub] = 0
      BY <2>1, <2>3, <3>1, <3>2
    <3>3. CASE told[Xpub] > 0
      BY <2>1, <2>3, <3>3
    <3> QED
      BY <3>1, <3>2, <3>3
  <2> QED
    BY <2>2, <2>3
<1> QED
  BY <1>1, <1>2

LEMMA StepRemembers ==
  ASSUME TypeOK, [Next]_vars, NEW s \in Socket, Remembered(s)
  PROVE  Remembered(s)'
<1> USE EventLoopAssumption, PlacesAreNotSockets DEF TypeOK, HeldIsDrained, Remembered
<1>1. ASSUME NEW r \in Socket, Arrive(r) PROVE Remembered(s)'
  BY <1>1 DEF Arrive
<1>2. CASE Expire
  BY <1>2 DEF Expire
<1>3. CASE Select
  BY <1>3 DEF Select
<1>4. CASE DispatchTimer
  <2>1. PICK after \in Emissions("timer") : ready' = after.ready /\ overtaken' = after.overtaken
    BY <1>4 DEF DispatchTimer
  <2>2. (overtaken => overtaken') /\ (ready'[s] = ready[s] \/ (s = Xpub /\ overtaken'))
    BY <2>1, EmissionIsRemembered
  <2> QED BY <1>4, <2>2 DEF DispatchTimer
<1>5. ASSUME NEW r \in Socket, DispatchSocket(r) PROVE Remembered(s)'
  BY <1>5 DEF DispatchSocket
<1>6. ASSUME NEW r \in Socket, Handle(r) PROVE Remembered(s)'
  <2>1. CASE r = s
    BY <1>6, <2>1 DEF Handle
  <2>2. CASE r # s
    <3>1. PICK after \in Emissions("request") \cup {NoEmission} :
            /\ ready' = [after.ready EXCEPT ![r] = @ + after.told[r] - 1]
            /\ overtaken' = after.overtaken
      BY <1>6 DEF Handle
    <3>2. after \in Emissions("request")
      BY <3>1 DEF Emissions, Emission
    <3>3. /\ overtaken => after.overtaken
          /\ after.ready[s] = ready[s] \/ (s = Xpub /\ after.overtaken)
      BY <3>2, EmissionIsRemembered
    <3>4. s \in DOMAIN after.ready
      BY <3>2 DEF Emissions, Emission, Notice, NoEmission
    <3>5. ready'[s] = after.ready[s]
      BY <2>2, <3>1, <3>4
    <3> QED BY <1>6, <3>1, <3>3, <3>5 DEF Handle
  <2> QED BY <2>1, <2>2
<1>7. ASSUME NEW r \in Socket, Drained(r) PROVE Remembered(s)'
  BY <1>7 DEF Drained
<1>8. CASE Again
  BY <1>8 DEF Again
<1>9. CASE UNCHANGED vars
  BY <1>9 DEF vars
<1> QED BY <1>1, <1>2, <1>3, <1>4, <1>5, <1>6, <1>7, <1>8, <1>9 DEF Next, Loop

LEMMA SendersOvertake ==
  ASSUME TypeOK, [Next]_vars, overtaken => emitting # {}
  PROVE  overtaken' => emitting' # {}
<1>1. emitting' = emitting
  BY DEF Next, Loop, Arrive, Expire, Select, DispatchTimer, DispatchSocket, Handle, Drained, Again, vars
<1>2. overtaken' => overtaken \/ emitting # {}
  <2>1. CASE DispatchTimer
    BY <2>1, EmissionIsRemembered, EventLoopAssumption DEF DispatchTimer
  <2>2. ASSUME NEW r \in Socket, Handle(r) PROVE overtaken' => overtaken \/ emitting # {}
    <3>1. PICK after \in Emissions("request") \cup {NoEmission} : overtaken' = after.overtaken
      BY <2>2 DEF Handle
    <3>2. after \in Emissions("request")
      BY <3>1 DEF Emissions, Emission
    <3> QED
      BY <3>1, <3>2, EmissionIsRemembered, EventLoopAssumption
  <2>3. ASSUME NEW r \in Socket, Drained(r) PROVE overtaken' => overtaken
    BY <2>3 DEF Drained
  <2>4. CASE UNCHANGED overtaken
    BY <2>4
  <2> QED
    BY <2>1, <2>2, <2>3, <2>4 DEF Next, Loop, Arrive, Expire, Select, DispatchSocket, Again, vars
<1> QED
  BY <1>1, <1>2

\* Whatever the handlers of the loop send, it does not sleep, or go on to the next
\* descriptor, on a message, but on subscriptions that a send has overtaken; and those
\* there are only if handlers send.
THEOREM NoMessageForgotten == Spec => []NothingForgotten
<1>1. Init => NothingForgotten
  BY EventLoopAssumption DEF Init, NothingForgotten, HeldIsDrained
<1>2. TypeOK /\ NothingForgotten /\ [Next]_vars => NothingForgotten'
  <2> SUFFICES ASSUME TypeOK, NothingForgotten, [Next]_vars PROVE NothingForgotten'
    OBVIOUS
  <2>1. ASSUME NEW s \in Socket PROVE Remembered(s)'
    BY StepRemembers DEF NothingForgotten, Remembered
  <2>2. overtaken' => emitting' # {}
    BY SendersOvertake DEF NothingForgotten
  <2> QED
    BY <2>1, <2>2 DEF NothingForgotten, Remembered
<1> QED BY <1>1, <1>2, TypeCorrect, PTL DEF Spec

\* The loop never sleeps on a request.
THEOREM NoRequestForgotten == Spec => []RequestsNotForgotten
<1>1. NothingForgotten => RequestsNotForgotten
  BY EventLoopAssumption DEF NothingForgotten, RequestsNotForgotten
<1> QED BY <1>1, NoMessageForgotten, PTL

=============================================================================
