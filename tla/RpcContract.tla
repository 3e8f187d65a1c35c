---------------------------- MODULE RpcContract ----------------------------
(***************************************************************************)
(* What the RPC layer promises its callers, with no wire, no sockets and  *)
(* no connections: a call begins, the server may run it, once; a blocked   *)
(* call returns its own answer, and only after the server ran it, or ends  *)
(* in an exception, after which the server may still run it.               *)
(***************************************************************************)
EXTENDS Sequences

CONSTANTS
  Call,      \* the calls that can be made
  NoAnswer   \* what a call holds that has no answer, not a call

VARIABLES
  status,   \* how far each call has come
  got,      \* the call whose answer each call was given
  ran       \* the calls the server has run, in the order it ran them

vars == <<status, got, ran>>

Init ==
  /\ status = [i \in Call |-> "none"]
  /\ got = [i \in Call |-> NoAnswer]
  /\ ran = <<>>

\* A value call begins and blocks, a one-way call is sent and over.
Begin(i) ==
  /\ status[i] = "none"
  /\ \E s \in {"waiting", "sent"} : status' = [status EXCEPT ![i] = s]
  /\ UNCHANGED <<got, ran>>

Run(i) ==
  /\ status[i] # "none"
  /\ \A k \in DOMAIN ran : ran[k] # i
  /\ ran' = Append(ran, i)
  /\ UNCHANGED <<status, got>>

Return(i) ==
  /\ status[i] = "waiting"
  /\ \E k \in DOMAIN ran : ran[k] = i
  /\ status' = [status EXCEPT ![i] = "returned"]
  /\ got' = [got EXCEPT ![i] = i]
  /\ UNCHANGED ran

Raise(i) ==
  /\ status[i] = "waiting"
  /\ status' = [status EXCEPT ![i] = "raised"]
  /\ UNCHANGED <<got, ran>>

Next == \E i \in Call : Begin(i) \/ Run(i) \/ Return(i) \/ Raise(i)

Spec == Init /\ [][Next]_vars

=============================================================================
