---------------------------- MODULE MCLowering -----------------------------
(***************************************************************************)
(* Two words; methods and signals are declared by plain names and by names *)
(* that properties derive, in every order.                                 *)
(***************************************************************************)
EXTENDS Lowering

CONSTANTS active, level, bool, float

Stems == {active, level}
Types == {bool, float}

Orders(names, n) == {s \in UNION {[1..k -> names] : k \in 0..n} : IsInjective(s)}

PlainActive == [form |-> "plain", stem |-> active, upper |-> FALSE]
SomeMethods == Orders({PlainActive, [form |-> "set", stem |-> active], [form |-> "toggle", stem |-> active]}, 2)
SomeSignals == Orders({PlainActive, [form |-> "changed", stem |-> active], [form |-> "set", stem |-> active]}, 2)
SomeKeys == Orders([form : {"plain"}, stem : {active}, upper : BOOLEAN]
                     \cup {[form |-> "plain", stem |-> level, upper |-> FALSE]}, 2)

=============================================================================
