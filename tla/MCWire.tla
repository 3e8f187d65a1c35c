------------------------------- MODULE MCWire -------------------------------
(***************************************************************************)
(* Senders of the server's own interface and of later versions: one has a  *)
(* method without parameters more; one has a method with parameters more,  *)
(* and parameters added to one method and removed from another.  Signals   *)
(* of which one's key is the beginning of another one's, and clients of    *)
(* the same, an older and a disagreeing version.                           *)
(***************************************************************************)
EXTENDS Wire, TLC

CONSTANTS add, notify, count, reset

Methods == {add, notify, count, reset}
Served == (add :> "payload") @@ (notify :> "void") @@ (count :> "payload")
OneMore == Served @@ (reset :> "void")
Later == (add :> "void") @@ (notify :> "payload") @@ (count :> "payload") @@ (reset :> "payload")

SomePairings == [lang : {"python", "cpp"}, sends : {Served, OneMore, Later}, serves : {Served}]

-----------------------------------------------------------------------------
CONSTANTS temp, temperature, alarm

AllTopics == {temp, temperature, alarm}
Beginnings == [t \in AllTopics |-> IF t = temp THEN {temp, temperature} ELSE {t}]

Same == (temp :> "payload" @@ temperature :> "payload" @@ alarm :> "void")
Older == (temp :> "payload" @@ alarm :> "void")
Disagreeing == (temp :> "void" @@ temperature :> "payload" @@ alarm :> "payload")

ManyPairings == [lang : {"python", "cpp", "threaded", "qt"}, sends : {Same}, knows : {Same, Older, Disagreeing}]

=============================================================================
