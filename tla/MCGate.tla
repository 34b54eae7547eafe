-------------------------------- MODULE MCGate --------------------------------
(***************************************************************************)
(* The two checks of a signature that may be used once, side by side: the  *)
(* payment that the offline facilitator settles and the challenge that a   *)
(* wallet signs to sign in.  They share no state: each behaviour is a      *)
(* behaviour of one of them, the other stays at its initial state.         *)
(* Nothing of the code is modelled here.                                   *)
(***************************************************************************)
(* The payments of MCFacilitator.  Two servers that keep one challenge each,
   two challenges that live for one tick and two attempts to sign in, over
   three ticks: an entry can expire between two steps, be evicted, be in two
   stores or be asked for twice.                                           *)
EXTENDS MCFacilitator, SignIn, TLC

CONSTANTS s1, s2

MCServers  == {s1, s2}
MCAccounts == {alice}
Symmetry   == Permutations(MCServers)

-----------------------------------------------------------------------------
VARIABLE part

gateVars == <<part, facilitatorVars, signInVars>>

GateInit == part \in {"payment", "signin"} /\ Init /\ SignInInit

GateNext ==
  /\ UNCHANGED part
  /\ \/ part = "payment" /\ Next /\ UNCHANGED signInVars
     \/ part = "signin" /\ SignInNext /\ UNCHANGED facilitatorVars

GateSpec == GateInit /\ [][GateNext]_gateVars
=============================================================================
