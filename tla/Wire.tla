-------------------------------- MODULE Wire --------------------------------
(***************************************************************************)
(* The two sockets between generated peers: requests go from DEALER to     *)
(* ROUTER (Framing), signals from XPUB to SUB (SignalFraming).  They share *)
(* nothing but the idea that each side counts frames by its own interface, *)
(* so a behaviour uses one of them.                                        *)
(***************************************************************************)
EXTENDS Framing

CONSTANTS
  Topic, Matches,   \* the keys of signals, and what subscriptions let through
  SignalPairings,   \* the senders and clients in question
  MaxSignals        \* bound on the signals of a behaviour

VARIABLES
  socket,   \* "rpc" or "signal"
  clients, callbacks, sent, arrived, frames, running, calls   \* of the signals

signalVars == <<clients, callbacks, sent, arrived, frames, running, calls>>

Signals == INSTANCE SignalFraming WITH Pairings <- SignalPairings, peers <- clients, stream <- frames

ASSUME WireAssumption ==
  /\ Matches \in [Topic -> SUBSET Topic] /\ \A t \in Topic : t \in Matches[t]
  /\ SignalPairings \subseteq [lang : {"python", "cpp", "threaded", "qt"}, sends : Signals!Interface, knows : Signals!Interface]
  /\ MaxSignals \in Nat
  /\ Pairings # {} /\ SignalPairings # {}

\* A socket that is not used.
NoRequests ==
  /\ peers = CHOOSE p \in Pairings : TRUE
  /\ asked = <<>> /\ stream = <<>> /\ ran = <<>>

NoSignals ==
  /\ clients = CHOOSE p \in SignalPairings : TRUE
  /\ callbacks = {} /\ sent = <<>> /\ arrived = <<>> /\ frames = <<>> /\ running = TRUE /\ calls = <<>>

WireInit ==
  \/ socket = "rpc" /\ Init /\ NoSignals
  \/ socket = "signal" /\ Signals!Init /\ NoRequests

RpcSocket == socket = "rpc" /\ Next /\ UNCHANGED <<socket, signalVars>>
SignalSocket == socket = "signal" /\ Signals!Next /\ UNCHANGED <<socket, vars>>

WireSpec == WireInit /\ [][RpcSocket \/ SignalSocket]_<<socket, vars, signalVars>>

-----------------------------------------------------------------------------
\* Both sockets' variables have their types; what the ROUTER holds is whole messages,
\* in the order of the requests and behind those that were handled; what a SUB holds
\* is the signals that arrived and were not handled, but perhaps for its first key.
WireInv == FramingInv /\ Signals!SignalInv

\* A callback gets the payload of the signal it is called for, in the order of the
\* signals and once.
CallbacksMatch == Signals!CallbacksMatch

\* Whatever the versions of the peers, a client loses no signal it understands but one
\* that follows a signal it misunderstands, and only those end it.
LossIsLocal == Signals!LossIsLocal

=============================================================================
