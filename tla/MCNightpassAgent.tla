-------------------------- MODULE MCNightpassAgent --------------------------
(* Two visitors of a tool listed with a quota of two or three calls, of which
   the route grants two; a publisher and one other holder.  Three requests let
   a visitor buy, redeem, lose the answer and redeem or attest, or two
   visitors overlap.                                                        *)
EXTENDS NightpassAgent, TLC

CONSTANTS tool, v1, v2, auditor, pub, out, k1, k2, k3

MCTools     == {tool}
MCSecrets   == {pub, out, k1, k2, k3}
MCNonces    == {out, k1, k2, k3}
MCAuditors  == {auditor}
MCPrices    == {10}
MCQuotas    == {2, 3}
MCFreshKeys == <<k1, k2, k3>>
MCVisitors  == {v1, v2}

Symmetry == Permutations(MCVisitors)
=============================================================================
