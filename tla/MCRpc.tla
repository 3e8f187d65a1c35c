------------------------------- MODULE MCRpc -------------------------------
(***************************************************************************)
(* Small instances of RpcSystem: a Python and a C++ client, a method of    *)
(* each way of answering.                                                  *)
(***************************************************************************)
EXTENDS RpcSystem

CONSTANTS py, cpp, ask, tell, nat

TwoClients == {py, cpp}
OneCpp == {cpp}
AllMethods == {ask, tell, nat}
Kinds == (ask :> "fields") @@ (tell :> "void") @@ (nat :> "native")

AskTell == {ask, tell}
AskTellKinds == (ask :> "fields") @@ (tell :> "void")

=============================================================================
