-------------------------------- MODULE Idl --------------------------------
(***************************************************************************)
(* What the generator knows of the methods of an interface description:   *)
(* the payload kind of each method's return, which decides whether a call *)
(* is answered at all and how often the generated C++ dispatcher answers. *)
(* Names, parameter types and Cap'n Proto encodings are left out.         *)
(***************************************************************************)
EXTENDS Naturals

CONSTANTS
  Method,        \* the methods of the protocol
  Returns,       \* the return payload kind of each method
  NativeWrites   \* how often a C++ handler of a native return may call write

\* The kinds of model.PayloadKind a "returns" entry is parsed into.
ReturnKind == {"void", "fields", "direct", "native"}

ASSUME IdlAssumption ==
  /\ Returns \in [Method -> ReturnKind]
  /\ NativeWrites \subseteq Nat

\* A method without a "returns" entry gets no reply frame from either backend.
IsOneWay(m) == Returns[m] = "void"

\* How many replies a handler that runs to its end makes the server send.
PyReplies(m) == IF IsOneWay(m) THEN {0} ELSE {1}
\* Mutants of CppReplies: the dispatcher answers only through the native writer,
\* or it answers one-way methods as well.
CppReplies_NativeOnly(m) == IF Returns[m] = "native" THEN NativeWrites ELSE {0}
CppReplies_AnswersOneWay(m) == {1}
CppReplies(m) ==
  CASE Returns[m] = "void"   -> {0}
    [] Returns[m] = "native" -> NativeWrites
    [] OTHER                 -> {1}

=============================================================================
