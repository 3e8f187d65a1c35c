--------------------------- MODULE MCPropertySync ---------------------------
(***************************************************************************)
(* A Qt and a Python client, two properties of which one's topic is the    *)
(* beginning of the other's.                                               *)
(***************************************************************************)
EXTENDS PropertySync

CONSTANTS qt, py, level, levelMax

QtAndPy == {qt, py}
OneQt == {qt}
LevelSignals == <<level, levelMax>>
LevelMatches == [t \in {level, levelMax} |-> IF t = level THEN {level, levelMax} ELSE {levelMax}]
OnlyLevel == {level}

=============================================================================
