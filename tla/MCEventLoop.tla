---------------------------- MODULE MCEventLoop ----------------------------
(***************************************************************************)
(* The loop of the Qt examples' servers.                                   *)
(***************************************************************************)
EXTENDS EventLoop

CONSTANTS router, xpub

BothSockets == {router, xpub}
AnyProgram == SUBSET {"timer", "request"}

=============================================================================
