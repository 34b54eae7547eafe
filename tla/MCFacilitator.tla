---------------------------- MODULE MCFacilitator ----------------------------
(* A payment that two tools would accept, a forged copy of it, and a payment
   for a tool of another publisher whose window is still closed at the start;
   two ticks to a second, up to four seconds, three requests.               *)
EXTENDS Facilitator

CONSTANTS n1, n2, alice, bob

good   == [nonce |-> n1, to |-> alice, value |-> 5, validAfter |-> 0,
           validBefore |-> 1, signed |-> TRUE]
forged == [good EXCEPT !.value = 3, !.signed = FALSE]
later  == [nonce |-> n2, to |-> bob, value |-> 5, validAfter |-> 1,
           validBefore |-> 2, signed |-> TRUE]

MCPayments == {good, forged, later}
MCTools    == {[name |-> 1, payTo |-> alice, amount |-> 5],
               [name |-> 2, payTo |-> alice, amount |-> 5],
               [name |-> 3, payTo |-> bob, amount |-> 5],
               [name |-> 4, payTo |-> alice, amount |-> 3]}
=============================================================================
