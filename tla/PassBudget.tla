----------------------------- MODULE PassBudget -----------------------------
(***************************************************************************)
(* What a Nightpass pass promises, with no tools, hashes, proofs or        *)
(* Merkle tree: a pass is granted a number of calls once, and every use    *)
(* takes exactly one of them.  Nightpass implements it (the property       *)
(* ImplementsPassBudget there gives the refinement mapping).               *)
(***************************************************************************)
EXTENDS Naturals

CONSTANTS
  Passes,
  MaxQuota  \* largest number of calls one pass is sold with

VARIABLES
  granted,  \* pass -> calls it was sold with
  used      \* pass -> calls made with it

TypeOK ==
  /\ DOMAIN granted \subseteq Passes
  /\ granted \in [DOMAIN granted -> 0 .. MaxQuota]
  /\ used \in [DOMAIN granted -> 0 .. MaxQuota]

Init ==
  /\ granted = [p \in {} |-> 0]
  /\ used = [p \in {} |-> 0]

Grant(p, quota) ==
  /\ p \notin DOMAIN granted
  /\ granted' = [q \in DOMAIN granted \cup {p} |->
                   IF q = p THEN quota ELSE granted[q]]
  /\ used' = [q \in DOMAIN granted \cup {p} |-> IF q = p THEN 0 ELSE used[q]]

Use(p) ==
  /\ p \in DOMAIN granted
  /\ used[p] < granted[p]
  /\ used' = [used EXCEPT ![p] = @ + 1]
  /\ UNCHANGED granted

Next == \E p \in Passes : (\E quota \in 1 .. MaxQuota : Grant(p, quota)) \/ Use(p)

Spec == Init /\ [][Next]_<<granted, used>>
=============================================================================
