--------------------------- MODULE MCCasperPayment ---------------------------
(* Two authorizations and three requests: one authorization presented twice at
   once, next to another of its payer's.                                    *)
EXTENDS CasperPayment, TLC

CONSTANTS first, second

MCAuths  == {first, second}
Symmetry == Permutations(MCAuths)
=============================================================================
