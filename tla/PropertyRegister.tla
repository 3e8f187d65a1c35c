-------------------------- MODULE PropertyRegister --------------------------
(***************************************************************************)
(* What the clients of a property may rely on: the server has a present    *)
(* value, and what a client knows of it is never ahead of the server and   *)
(* never goes back to an older value.  Changes may be missed, the client   *)
(* learns a value whenever one reaches it.                                 *)
(***************************************************************************)
EXTENDS Naturals

CONSTANTS Client, Property

\* A value stands for the number of values the property had, itself included;
\* who was told of none knows none.
NoValue == 0

VARIABLES
  current,   \* the present value of each property at the server
  known      \* the value each client knows of each property

vars == <<current, known>>

Init ==
  /\ current = [p \in Property |-> 1]
  /\ known = [c \in Client |-> [p \in Property |-> NoValue]]

\* One property changes, or all at once when another server takes over.
Change(P) ==
  /\ current' = [p \in Property |-> IF p \in P THEN current[p] + 1 ELSE current[p]]
  /\ UNCHANGED known

\* A client learns the present value, or a past one it does not know yet.
Learn(c, p) ==
  /\ \E v \in known[c][p]..current[p] :
       known' = [known EXCEPT ![c][p] = v]
  /\ UNCHANGED current

Next ==
  \/ \E P \in SUBSET Property : Change(P)
  \/ \E c \in Client, p \in Property : Learn(c, p)

Spec == Init /\ [][Next]_vars

=============================================================================
