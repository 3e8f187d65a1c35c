--------------------------- MODULE MCSignalThread ---------------------------
(***************************************************************************)
(* Three signals, the topic of one of them the beginning of another; or    *)
(* two with unrelated topics.                                              *)
(***************************************************************************)
EXTENDS SignalThread

CONSTANTS mode, modeChanged, reset

ThreeTopics == {mode, modeChanged, reset}
OnePrefix == [t \in ThreeTopics |-> IF t = mode THEN {mode, modeChanged} ELSE {t}]
TwoTopics == {mode, reset}
OwnOnly == [t \in TwoTopics |-> {t}]

=============================================================================
