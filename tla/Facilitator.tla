----------------------------- MODULE Facilitator -----------------------------
(***************************************************************************)
(* Payments in the offline mode: the in-process facilitator                *)
(* (apps/web/src/lib/x402/facilitator.ts) as the paid endpoint drives it   *)
(* (app/api/t/[slug]/route.ts: verify, settle, run the tool, record).      *)
(*                                                                         *)
(* Each request is a process; it yields to the others wherever the route   *)
(* awaits.  Whoever holds a signed payment can present it any number of    *)
(* times, for any tool, at once.  Time is counted in ticks: the replay     *)
(* guard compares ticks, the window of a payment is checked in whole       *)
(* seconds.                                                                *)
(***************************************************************************)
EXTENDS Integers, FiniteSets

CONSTANTS
  Payments,        \* payment headers in circulation, see PaymentAssumption
  Tools,           \* tools, each with [payTo, amount]
  TicksPerSecond,  \* resolution of Date.now()
  MaxTime,         \* bound: last tick
  MaxRequests      \* bound: requests made in one behaviour

\* A header carries an authorization [nonce, to, value, validAfter,
\* validBefore], times in seconds, and whether its signature verifies against
\* it.  A nonce is 32 random bytes, so a payer signs one authorization with it.
ASSUME PaymentAssumption ==
  /\ TicksPerSecond \in Nat \ {0} /\ MaxTime \in Nat /\ MaxRequests \in Nat
  /\ \A p \in Payments : /\ p.validAfter \in Nat /\ p.validBefore \in Nat \ {0}
                         /\ p.signed \in BOOLEAN
  /\ \A p, q \in Payments :
       p.signed /\ q.signed /\ p.nonce = q.nonce => p = q

VARIABLES
  usedNonces,   \* Map: nonce -> tick at which the entry may be swept
  clock,        \* Date.now()
  requests,     \* request number -> what it presented and how far it got
  settlements   \* every successful settle so far: [request, payment, at]

facilitatorVars == <<usedNonces, clock, requests, settlements>>

Stages  == {"received", "verified", "settled", "served", "refused"}
Request == [payment : Payments, tool : Tools, stage : Stages]

Init ==
  /\ usedNonces = [n \in {} |-> 0]
  /\ clock = 0
  /\ requests = <<>>
  /\ settlements = {}

-----------------------------------------------------------------------------
(***************************************************************************)
(* The facilitator.                                                        *)
(***************************************************************************)
seconds == clock \div TicksPerSecond

checks(p, tool) ==
  /\ p.signed
  /\ p.to = tool.payTo
  /\ p.value = tool.amount
  /\ p.validAfter <= seconds /\ seconds <= p.validBefore

\* What settle checks again after the verdict of verify.
recheck_Trusted(p, tool) == p.signed
recheck(p, tool)         == checks(p, tool)

\* The key of the replay guard; keying on the resource too was a past bug.
claimKey_PerResource(p, tool) == <<p.nonce, tool>>
claimKey(p, tool)             == p.nonce

expiry(p) == p.validBefore * TicksPerSecond

swept(claims) ==
  [n \in {m \in DOMAIN claims : claims[m] > clock} |-> claims[n]]

claim(claims, key, exp) ==
  [n \in DOMAIN claims \cup {key} |-> IF n = key THEN exp ELSE claims[n]]

\* The claim is provisional until the checks are through.
released(claims, key, exp) == claims

-----------------------------------------------------------------------------
(***************************************************************************)
(* A request through the route.                                            *)
(***************************************************************************)
Arrive(p, tool) ==
  /\ Cardinality(DOMAIN requests) < MaxRequests
  /\ requests' = [i \in 1 .. Cardinality(DOMAIN requests) + 1 |->
                    IF i \in DOMAIN requests THEN requests[i]
                    ELSE [payment |-> p, tool |-> tool, stage |-> "received"]]
  /\ UNCHANGED <<usedNonces, clock, settlements>>

advance(i, stage) == requests' = [requests EXCEPT ![i].stage = stage]

Verify(i) ==
  LET p == requests[i].payment  tool == requests[i].tool
  IN  /\ requests[i].stage = "received"
      /\ IF checks(p, tool) /\ claimKey(p, tool) \notin DOMAIN usedNonces
         THEN advance(i, "verified")
         ELSE advance(i, "refused")
      /\ UNCHANGED <<usedNonces, clock, settlements>>

\* Sweep, test, claim and check happen without an await in between.
Settle(i) ==
  LET p == requests[i].payment  tool == requests[i].tool
      key == claimKey(p, tool)  claims == swept(usedNonces)
  IN  /\ requests[i].stage = "verified"
      /\ \/ /\ key \in DOMAIN claims
            /\ usedNonces' = claims
            /\ advance(i, "refused")
            /\ UNCHANGED settlements
         \/ /\ key \notin DOMAIN claims
            /\ ~recheck(p, tool)
            /\ usedNonces' = released(claims, key, expiry(p))
            /\ advance(i, "refused")
            /\ UNCHANGED settlements
         \/ /\ key \notin DOMAIN claims
            /\ recheck(p, tool)
            /\ usedNonces' = claim(claims, key, expiry(p))
            /\ advance(i, "settled")
            /\ settlements' = settlements \cup
                                {[request |-> i, payment |-> p, at |-> clock]}
      /\ UNCHANGED clock

\* The tool runs, the settlement is recorded, the caller gets its result.
Serve(i) ==
  /\ requests[i].stage = "settled"
  /\ advance(i, "served")
  /\ UNCHANGED <<usedNonces, clock, settlements>>

Tick ==
  /\ clock < MaxTime
  /\ clock' = clock + 1
  /\ UNCHANGED <<usedNonces, requests, settlements>>

Next ==
  \/ \E p \in Payments, tool \in Tools : Arrive(p, tool)
  \/ \E i \in DOMAIN requests : Verify(i)
  \/ \E i \in DOMAIN requests : Settle(i)
  \/ \E i \in DOMAIN requests : Serve(i)
  \/ Tick

Spec == Init /\ [][Next]_facilitatorVars

-----------------------------------------------------------------------------
(***************************************************************************)
(* Properties.                                                             *)
(***************************************************************************)
NonceOf(s) == s.payment.nonce

\* Every field has its type; the claims are those of payments.
TypeOK ==
  /\ DOMAIN usedNonces \subseteq {p.nonce : p \in Payments}
  /\ \A n \in DOMAIN usedNonces : usedNonces[n] \in Nat
  /\ clock \in 0 .. MaxTime
  /\ DOMAIN requests \in {1 .. k : k \in 0 .. MaxRequests}
  /\ \A i \in DOMAIN requests : requests[i] \in Request
  /\ settlements \subseteq [request : DOMAIN requests, payment : Payments,
                            at : 0 .. MaxTime]

\* Before its deadline a payment settles at most once, however many requests
\* present it, concurrently or one after the other, and for whichever tools.
SettledOnceBeforeDeadline ==
  \A s, u \in settlements :
    /\ NonceOf(s) = NonceOf(u)
    /\ s.at < expiry(s.payment) /\ u.at < expiry(u.payment)
    => s = u

\* What settles is what the payer signed, for a tool with that payee and that
\* price, inside the window, although the route awaited between verifying and
\* settling.
SettledAsAuthorized ==
  \A s \in settlements :
    /\ s.payment.signed
    /\ s.payment.to = requests[s.request].tool.payTo
    /\ s.payment.value = requests[s.request].tool.amount
    /\ s.payment.validAfter * TicksPerSecond <= s.at
    /\ s.at < (s.payment.validBefore + 1) * TicksPerSecond

\* The guard holds exactly the payments that settled: until its deadline a
\* settled payment stays claimed, and an attempt that failed leaves no claim
\* behind to block the payer's own.
ClaimsAreSettlements ==
  /\ \A s \in settlements :
       clock < expiry(s.payment) => NonceOf(s) \in DOMAIN usedNonces
  /\ DOMAIN usedNonces \subseteq {NonceOf(s) : s \in settlements}

\* "a payment nonce may settle at most once".
NonceSettlesAtMostOnce ==
  \A s, u \in settlements : NonceOf(s) = NonceOf(u) => s = u
=============================================================================
