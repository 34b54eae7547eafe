----------------------------- MODULE PassService -----------------------------
(***************************************************************************)
(* What the live agent promises its visitors, whatever happens to wallets, *)
(* queues, transactions and restarts: the pass a visitor is shown exists   *)
(* on chain, and the calls it is said to have made are there, with at most *)
(* one more that is on its way to being counted or never will be.          *)
(* NightpassAgent implements it; the page of the website is built on it.   *)
(***************************************************************************)
EXTENDS Naturals

CONSTANTS
  Visitors,  \* browser sessions
  Keys,      \* passes that can be bought, by the secret behind each
  Quota      \* calls a pass allows

ASSUME ServiceAssumption == Quota \in Nat \ {0}

VARIABLES
  held,      \* visitor -> set with the pass held and its counter, or empty
  onRecord   \* key of an issued pass -> calls on the public record

serviceVars == <<held, onRecord>>

HeldPass == [key : Keys, calls : 0 .. Quota]

ServiceInit ==
  /\ held = [v \in Visitors |-> {}]
  /\ onRecord = [k \in {} |-> 0]

\* A purchase becomes final.
Issue(k) ==
  /\ k \notin DOMAIN onRecord
  /\ onRecord' = [x \in DOMAIN onRecord \cup {k} |->
                    IF x = k THEN 0 ELSE onRecord[x]]
  /\ UNCHANGED held

\* The visitor who made it is told, and holds the pass from then on.
Grant(v, k) ==
  /\ k \in DOMAIN onRecord /\ onRecord[k] = 0
  /\ held' = [held EXCEPT ![v] = {[key |-> k, calls |-> 0]}]
  /\ UNCHANGED onRecord

\* A call becomes final.  Nothing is spent beyond what the holder has been
\* told of plus one.
Record(k) ==
  /\ k \in DOMAIN onRecord /\ onRecord[k] < Quota
  /\ \A v \in Visitors : \A p \in held[v] :
       p.key = k => p.calls = onRecord[k]
  /\ onRecord' = [onRecord EXCEPT ![k] = @ + 1]
  /\ UNCHANGED held

\* The visitor is told.
Count(v) ==
  /\ \E p \in held[v] :
       /\ p.calls < onRecord[p.key]
       /\ held' = [held EXCEPT ![v] = {[p EXCEPT !.calls = @ + 1]}]
  /\ UNCHANGED onRecord

\* The process restarts and every session is gone.
Forget ==
  /\ held' = [v \in Visitors |-> {}]
  /\ UNCHANGED onRecord

ServiceNext ==
  \/ \E k \in Keys : Issue(k)
  \/ \E k \in Keys : Record(k)
  \/ \E v \in Visitors, k \in Keys : Grant(v, k)
  \/ \E v \in Visitors : Count(v)
  \/ Forget

ServiceSpec == ServiceInit /\ [][ServiceNext]_serviceVars
=============================================================================
