---------------------------- MODULE MCNightpass ----------------------------
(* Two tools, two agents, one nonce each: passes of different tools and of
   different agents, a quota of zero that must be refused, quotas one and
   two, and a tree with room for two leaves.                               *)
EXTENDS NightpassAudit, TLC

CONSTANTS t1, t2, a1, a2, n1, regulator

MCTools    == {t1, t2}
MCSecrets  == {a1, a2}
MCNonces   == {n1}
MCAuditors == {regulator}
MCPrices   == {10}
MCQuotas   == {0, 1, 2}

Symmetry == Permutations(MCTools) \cup Permutations(MCSecrets)
=============================================================================
