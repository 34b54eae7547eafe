----------------------------- MODULE GateProofs -----------------------------
(***************************************************************************)
(* Theorems about what stands at the gates of the paid endpoints: the      *)
(* offline facilitator, for every set of payments and tools, every         *)
(* resolution of the clock and every bound, and signing in, for any        *)
(* servers, accounts and number of challenges.                             *)
(***************************************************************************)
EXTENDS Facilitator, SignIn, FiniteSetTheorems, TLAPS

-----------------------------------------------------------------------------
(***************************************************************************)
(* Facilitator.                                                            *)
(***************************************************************************)
(***************************************************************************)
(* The inductive invariant.  What makes settling once hold is the expiry   *)
(* stored with a claim: it is the deadline of the payment that made the    *)
(* claim, so a sweep cannot drop the claim of a payment that is still      *)
(* before its deadline.  A signed payment is determined by its nonce, so   *)
(* no other payment can have stored another expiry under it.               *)
(***************************************************************************)
ClaimsExpireAtDeadline ==
  \A s \in settlements :
    NonceOf(s) \in DOMAIN usedNonces =>
      usedNonces[NonceOf(s)] = expiry(s.payment)

FacilitatorIInv ==
  /\ TypeOK
  /\ SettledOnceBeforeDeadline
  /\ SettledAsAuthorized
  /\ ClaimsAreSettlements
  /\ ClaimsExpireAtDeadline

-----------------------------------------------------------------------------
(***************************************************************************)
(* Arithmetic of ticks and seconds.                                        *)
(***************************************************************************)
\* A tick whose second is at most b comes before second b + 1 begins.
LEMMA WithinSecond ==
  ASSUME NEW c \in Nat, NEW T \in Nat \ {0}, NEW b \in Nat, c \div T <= b
  PROVE  c < (b + 1) * T
<1> DEFINE q == c \div T
           m == c % T
<1>1. q \in Nat /\ m \in Nat /\ c = T * q + m /\ m < T /\ q <= b
  BY SMT
<1> HIDE DEF q, m
<1>2. T * q <= T * b
  BY <1>1, SMT
<1>3. (b + 1) * T = T * b + T
  BY SMT
<1> QED
  BY <1>1, <1>2, <1>3, SMT

\* A tick whose second is at least b is not before second b begins.
LEMMA NotBeforeSecond ==
  ASSUME NEW c \in Nat, NEW T \in Nat \ {0}, NEW b \in Nat, b <= c \div T
  PROVE  b * T <= c
<1> DEFINE q == c \div T
           m == c % T
<1>1. q \in Nat /\ m \in Nat /\ c = T * q + m /\ b <= q
  BY SMT
<1> HIDE DEF q, m
<1>2. b * T <= T * q
  BY <1>1, SMT
<1> QED
  BY <1>1, <1>2, SMT

\* A deadline is a number of ticks.
LEMMA ExpiryType == \A p \in Payments : expiry(p) \in Nat
BY PaymentAssumption, SMT DEF expiry

\* Payments that verify and share a nonce are the same payment.
LEMMA NonceNamesPayment ==
  ASSUME TypeOK, SettledAsAuthorized,
         NEW s \in settlements, NEW p \in Payments, p.signed,
         p.nonce = NonceOf(s)
  PROVE  s.payment = p
BY PaymentAssumption DEF TypeOK, SettledAsAuthorized, NonceOf

-----------------------------------------------------------------------------
\* At the start nothing is claimed or settled.
LEMMA FacilitatorInitially == Init => FacilitatorIInv
<1> SUFFICES ASSUME Init PROVE FacilitatorIInv
  OBVIOUS
<1>1. DOMAIN requests = 1 .. 0
  BY DEF Init
<1>2. TypeOK
  BY <1>1, PaymentAssumption DEF Init, TypeOK
<1> QED
  BY <1>2 DEF Init, FacilitatorIInv, SettledOnceBeforeDeadline,
     SettledAsAuthorized,
              ClaimsAreSettlements, ClaimsExpireAtDeadline

-----------------------------------------------------------------------------
(***************************************************************************)
(* Steps that leave kept and settlements alone.                          *)
(***************************************************************************)
\* A request that arrives is appended; the ones before it are unchanged.
LEMMA ArriveStep ==
  ASSUME FacilitatorIInv, NEW p \in Payments, NEW tool \in Tools, Arrive(p, tool)
  PROVE  FacilitatorIInv'
<1>1. PICK k \in 0 .. MaxRequests : DOMAIN requests = 1 .. k
  BY DEF FacilitatorIInv, TypeOK
<1>2. Cardinality(DOMAIN requests) = k
  BY <1>1, FS_Interval
<1>3. /\ k + 1 \in 0 .. MaxRequests
      /\ DOMAIN requests' = 1 .. k + 1
      /\ \A i \in 1 .. k : requests'[i] = requests[i]
      /\ requests'[k + 1] = [payment |-> p, tool |-> tool, stage |-> "received"]
      /\ UNCHANGED <<usedNonces, clock, settlements>>
  BY <1>1, <1>2, PaymentAssumption DEF Arrive
<1>4. TypeOK'
  <2>1. \A i \in DOMAIN requests' : requests'[i] \in Request
    BY <1>1, <1>3 DEF FacilitatorIInv, TypeOK, Request, Stages
  <2>2. settlements' \subseteq [request : DOMAIN requests', payment : Payments,
                                at : 0 .. MaxTime]
    BY <1>1, <1>3 DEF FacilitatorIInv, TypeOK
  <2> QED
    BY <1>3, <2>1, <2>2 DEF FacilitatorIInv, TypeOK
<1>5. SettledAsAuthorized'
  <2>1. \A s \in settlements : requests'[s.request] = requests[s.request]
    BY <1>1, <1>3 DEF FacilitatorIInv, TypeOK
  <2> QED
    BY <1>3, <2>1 DEF FacilitatorIInv, SettledAsAuthorized
<1> QED
  BY <1>3, <1>4, <1>5
  DEF FacilitatorIInv, SettledOnceBeforeDeadline, ClaimsAreSettlements,
      ClaimsExpireAtDeadline, NonceOf, expiry

\* Moving a request on changes neither its payment nor its tool.
LEMMA AdvanceRequests ==
  ASSUME TypeOK, NEW i \in DOMAIN requests, NEW stage \in Stages,
         advance(i, stage)
  PROVE  /\ DOMAIN requests' = DOMAIN requests
         /\ \A j \in DOMAIN requests : /\ requests'[j] \in Request
                                       /\ requests'[j].tool = requests[j].tool
                                       /\ requests'[j].payment = requests[j].payment
BY DEF TypeOK, advance, Request

\* A step that only moves a request on keeps the invariant.
LEMMA AdvanceStep ==
  ASSUME FacilitatorIInv, NEW i \in DOMAIN requests, NEW stage \in Stages,
         advance(i, stage), UNCHANGED <<usedNonces, clock, settlements>>
  PROVE  FacilitatorIInv'
<1>1. /\ DOMAIN requests' = DOMAIN requests
      /\ \A j \in DOMAIN requests : /\ requests'[j] \in Request
                                    /\ requests'[j].tool = requests[j].tool
  BY AdvanceRequests DEF FacilitatorIInv
<1>2. TypeOK'
  BY <1>1 DEF FacilitatorIInv, TypeOK
<1>3. SettledAsAuthorized'
  BY <1>1 DEF FacilitatorIInv, TypeOK, SettledAsAuthorized
<1> QED
  BY <1>2, <1>3
  DEF FacilitatorIInv, SettledOnceBeforeDeadline, ClaimsAreSettlements,
      ClaimsExpireAtDeadline, NonceOf, expiry

\* Time passing can only make a deadline pass.
LEMMA TickStep == ASSUME FacilitatorIInv, Tick PROVE FacilitatorIInv'
<1>1. clock' = clock + 1 /\ clock' \in 0 .. MaxTime /\ clock \in Nat
  BY PaymentAssumption DEF Tick, FacilitatorIInv, TypeOK
<1>2. UNCHANGED <<usedNonces, requests, settlements>>
  BY DEF Tick
<1>3. TypeOK'
  BY <1>1, <1>2 DEF FacilitatorIInv, TypeOK
<1>4. ClaimsAreSettlements'
  <2>1. \A s \in settlements : s.payment \in Payments /\ expiry(s.payment) \in Nat
    BY ExpiryType DEF FacilitatorIInv, TypeOK
  <2>2. \A s \in settlements : clock' < expiry(s.payment) => clock < expiry(s.payment)
    BY <1>1, <2>1
  <2> QED
    BY <1>2, <2>2 DEF FacilitatorIInv, ClaimsAreSettlements, NonceOf, expiry
<1> QED
  BY <1>2, <1>3, <1>4
  DEF FacilitatorIInv, SettledOnceBeforeDeadline, SettledAsAuthorized,
      ClaimsExpireAtDeadline, NonceOf, expiry

-----------------------------------------------------------------------------
(***************************************************************************)
(* Settling.                                                               *)
(***************************************************************************)
\* A sweep keeps the kept that have not expired, as they are.
LEMMA SweptClaims ==
  /\ DOMAIN swept(usedNonces) = {m \in DOMAIN usedNonces : usedNonces[m] > clock}
  /\ \A n \in DOMAIN swept(usedNonces) : swept(usedNonces)[n] = usedNonces[n]
BY DEF swept

\* An attempt that fails leaves the swept kept and settles nothing.
LEMMA RefusedStep ==
  ASSUME FacilitatorIInv, NEW i \in DOMAIN requests, advance(i, "refused"),
         usedNonces' = swept(usedNonces), UNCHANGED <<clock, settlements>>
  PROVE  FacilitatorIInv'
<1>1. /\ DOMAIN requests' = DOMAIN requests
      /\ \A j \in DOMAIN requests : /\ requests'[j] \in Request
                                    /\ requests'[j].tool = requests[j].tool
  BY AdvanceRequests DEF FacilitatorIInv, Stages
<1>2. TypeOK'
  BY <1>1, SweptClaims DEF FacilitatorIInv, TypeOK
<1>3. SettledAsAuthorized'
  BY <1>1 DEF FacilitatorIInv, TypeOK, SettledAsAuthorized
<1>4. ClaimsAreSettlements'
  <2>1. ASSUME NEW s \in settlements, clock < expiry(s.payment)
        PROVE  NonceOf(s) \in DOMAIN swept(usedNonces)
    <3>1. NonceOf(s) \in DOMAIN usedNonces
      BY <2>1 DEF FacilitatorIInv, ClaimsAreSettlements
    <3>2. usedNonces[NonceOf(s)] = expiry(s.payment)
      BY <3>1 DEF FacilitatorIInv, ClaimsExpireAtDeadline
    <3>3. expiry(s.payment) \in Nat /\ clock \in Nat
      BY ExpiryType DEF FacilitatorIInv, TypeOK
    <3> QED
      BY <2>1, <3>1, <3>2, <3>3, SweptClaims
  <2> QED
    BY <2>1, SweptClaims DEF FacilitatorIInv, ClaimsAreSettlements, NonceOf,
       expiry
<1>5. ClaimsExpireAtDeadline'
  BY SweptClaims DEF FacilitatorIInv, ClaimsExpireAtDeadline, NonceOf, expiry
<1> QED
  BY <1>2, <1>3, <1>4, <1>5 DEF FacilitatorIInv, SettledOnceBeforeDeadline,
     NonceOf, expiry

\* What settles has passed the checks at this tick, and nothing with its nonce
\* has settled before unless its deadline has passed.
LEMMA SettledStep ==
  ASSUME FacilitatorIInv, NEW i \in DOMAIN requests,
         NEW p, p = requests[i].payment,
         p.nonce \notin DOMAIN swept(usedNonces),
         checks(p, requests[i].tool),
         usedNonces' = claim(swept(usedNonces), p.nonce, expiry(p)),
         advance(i, "settled"),
         settlements' = settlements \cup
                          {[request |-> i, payment |-> p, at |-> clock]},
         UNCHANGED clock
  PROVE  FacilitatorIInv'
<1> DEFINE z == [request |-> i, payment |-> p, at |-> clock]
<1>1. /\ DOMAIN requests' = DOMAIN requests
      /\ \A j \in DOMAIN requests : /\ requests'[j] \in Request
                                    /\ requests'[j].tool = requests[j].tool
  BY AdvanceRequests DEF FacilitatorIInv, Stages
<1>2. p \in Payments /\ clock \in 0 .. MaxTime /\ expiry(p) \in Nat
  BY ExpiryType DEF FacilitatorIInv, TypeOK, Request
<1>3. /\ DOMAIN usedNonces' = DOMAIN swept(usedNonces) \cup {p.nonce}
      /\ usedNonces'[p.nonce] = expiry(p)
      /\ \A n \in DOMAIN swept(usedNonces) :
           n # p.nonce /\ usedNonces'[n] = usedNonces[n]
  BY SweptClaims DEF claim
<1>4. p.signed
  BY DEF checks
\* A settled payment before its deadline still has its claim.
<1>5. ASSUME NEW s \in settlements, clock < expiry(s.payment)
      PROVE  NonceOf(s) \in DOMAIN swept(usedNonces)
  <2>1. NonceOf(s) \in DOMAIN usedNonces
    BY <1>5 DEF FacilitatorIInv, ClaimsAreSettlements
  <2>2. usedNonces[NonceOf(s)] = expiry(s.payment)
    BY <2>1 DEF FacilitatorIInv, ClaimsExpireAtDeadline
  <2>3. expiry(s.payment) \in Nat /\ clock \in Nat
    BY ExpiryType DEF FacilitatorIInv, TypeOK
  <2> QED
    BY <1>5, <2>1, <2>2, <2>3, SweptClaims
<1>6. ASSUME NEW s \in settlements, NonceOf(s) = p.nonce
      PROVE  s.payment = p /\ ~(clock < expiry(p))
  <2>1. s.payment = p
    BY <1>2, <1>4, <1>6, NonceNamesPayment DEF FacilitatorIInv
  <2> QED
    BY <1>5, <1>6, <2>1
<1>7. TypeOK'
  <2>1. DOMAIN usedNonces' \subseteq {q.nonce : q \in Payments}
    BY <1>2, <1>3, SweptClaims DEF FacilitatorIInv, TypeOK
  <2>2. \A n \in DOMAIN usedNonces' : usedNonces'[n] \in Nat
    BY <1>2, <1>3, SweptClaims DEF FacilitatorIInv, TypeOK
  <2>3. settlements' \subseteq [request : DOMAIN requests', payment : Payments,
                                at : 0 .. MaxTime]
    BY <1>1, <1>2 DEF FacilitatorIInv, TypeOK
  <2> QED
    BY <1>1, <2>1, <2>2, <2>3 DEF FacilitatorIInv, TypeOK
<1>8. SettledOnceBeforeDeadline'
  <2>1. ASSUME NEW s \in settlements, NonceOf(s) = NonceOf(z)
        PROVE  ~(z.at < expiry(z.payment))
    BY <1>6, <2>1 DEF NonceOf
  <2> QED
    BY <2>1 DEF FacilitatorIInv, SettledOnceBeforeDeadline, NonceOf, expiry
<1>9. SettledAsAuthorized'
  <2>1. /\ p.validAfter * TicksPerSecond <= clock
        /\ clock < (p.validBefore + 1) * TicksPerSecond
    BY <1>2, PaymentAssumption, WithinSecond, NotBeforeSecond DEF checks,
       seconds
  <2>2. /\ p.to = requests[i].tool.payTo
        /\ p.value = requests[i].tool.amount
    BY DEF checks
  <2>3. \A s \in settlements : requests'[s.request].tool = requests[s.request].tool
    BY <1>1 DEF FacilitatorIInv, TypeOK
  <2> QED
    BY <1>1, <1>4, <2>1, <2>2, <2>3 DEF FacilitatorIInv, SettledAsAuthorized
<1>10. ClaimsAreSettlements'
  <2>1. \A s \in settlements' : clock < expiry(s.payment) =>
          NonceOf(s) \in DOMAIN usedNonces'
    BY <1>3, <1>5 DEF NonceOf
  <2>2. DOMAIN usedNonces' \subseteq {NonceOf(s) : s \in settlements'}
    <3>1. NonceOf(z) = p.nonce /\ z \in settlements'
      BY DEF NonceOf
    <3>2. DOMAIN swept(usedNonces) \subseteq {NonceOf(s) : s \in settlements}
      BY SweptClaims DEF FacilitatorIInv, ClaimsAreSettlements
    <3> QED
      BY <1>3, <3>1, <3>2
  <2> QED
    BY <2>1, <2>2 DEF ClaimsAreSettlements, NonceOf, expiry
<1>11. ClaimsExpireAtDeadline'
  <2>1. ASSUME NEW s \in settlements', NonceOf(s) \in DOMAIN usedNonces'
        PROVE  usedNonces'[NonceOf(s)] = expiry(s.payment)
    <3>1. CASE NonceOf(s) = p.nonce
      <4>1. s.payment = p
        BY <1>6, <3>1
      <4> QED
        BY <1>3, <3>1, <4>1
    <3>2. CASE NonceOf(s) # p.nonce
      <4>1. s \in settlements /\ NonceOf(s) \in DOMAIN swept(usedNonces)
        BY <1>3, <2>1, <3>2 DEF NonceOf
      <4> QED
        BY <1>3, <4>1, SweptClaims DEF FacilitatorIInv, ClaimsExpireAtDeadline
    <3> QED
      BY <3>1, <3>2
  <2> QED
    BY <2>1 DEF ClaimsExpireAtDeadline, NonceOf, expiry
<1> QED
  BY <1>7, <1>8, <1>9, <1>10, <1>11 DEF FacilitatorIInv

\* The three ways settle ends.
LEMMA SettleStep ==
  ASSUME FacilitatorIInv, NEW i \in DOMAIN requests, Settle(i)
  PROVE  FacilitatorIInv'
<1> DEFINE p == requests[i].payment
           kept == swept(usedNonces)
<1>1. CASE p.nonce \in DOMAIN kept
  BY <1>1, RefusedStep DEF Settle, claimKey
<1>2. CASE p.nonce \notin DOMAIN kept /\ ~checks(p, requests[i].tool)
  BY <1>2, RefusedStep DEF Settle, claimKey, recheck, released
<1>3. CASE p.nonce \notin DOMAIN kept /\ checks(p, requests[i].tool)
  BY <1>3, SettledStep DEF Settle, claimKey, recheck
<1> QED
  BY <1>1, <1>2, <1>3

-----------------------------------------------------------------------------
(***************************************************************************)
(* The theorems.                                                           *)
(***************************************************************************)
\* Every step keeps the invariant.
LEMMA FacilitatorStep == FacilitatorIInv /\ [Next]_facilitatorVars => FacilitatorIInv'
<1> SUFFICES ASSUME FacilitatorIInv, [Next]_facilitatorVars PROVE FacilitatorIInv'
  OBVIOUS
<1>1. ASSUME NEW p \in Payments, NEW tool \in Tools, Arrive(p, tool) PROVE FacilitatorIInv'
  BY <1>1, ArriveStep
<1>2. ASSUME NEW i \in DOMAIN requests, Verify(i) PROVE FacilitatorIInv'
  BY <1>2, AdvanceStep DEF Verify, Stages
<1>3. ASSUME NEW i \in DOMAIN requests, Settle(i) PROVE FacilitatorIInv'
  BY <1>3, SettleStep
<1>4. ASSUME NEW i \in DOMAIN requests, Serve(i) PROVE FacilitatorIInv'
  BY <1>4, AdvanceStep DEF Serve, Stages
<1>5. CASE Tick
  BY <1>5, TickStep
<1>6. CASE UNCHANGED facilitatorVars
  BY <1>6 DEF facilitatorVars, FacilitatorIInv, TypeOK,
     SettledOnceBeforeDeadline,
              SettledAsAuthorized, ClaimsAreSettlements, ClaimsExpireAtDeadline,
              NonceOf, expiry
<1> QED
  BY <1>1, <1>2, <1>3, <1>4, <1>5, <1>6 DEF Next

\* The invariant holds throughout.
THEOREM FacilitatorInvariant == Spec => []FacilitatorIInv
<1> QED
  BY FacilitatorInitially, FacilitatorStep, PTL DEF Spec

\* Claims, requests and settlements keep their types (facilitator.ts).
THEOREM TypeCorrect == Spec => []TypeOK
<1>1. FacilitatorIInv => TypeOK
  BY DEF FacilitatorIInv
<1> QED
  BY <1>1, FacilitatorInvariant, PTL

\* Whatever is presented, concurrently or for other tools, a payment settles at
\* most once before its deadline (settle, the test-and-set and the sweep).
THEOREM SettledOnce == Spec => []SettledOnceBeforeDeadline
<1>1. FacilitatorIInv => SettledOnceBeforeDeadline
  BY DEF FacilitatorIInv
<1> QED
  BY <1>1, FacilitatorInvariant, PTL

\* What settles is what was signed, to the payee and at the price of the tool
\* and inside the window (settle checks again after its claim).
THEOREM AsAuthorized == Spec => []SettledAsAuthorized
<1>1. FacilitatorIInv => SettledAsAuthorized
  BY DEF FacilitatorIInv
<1> QED
  BY <1>1, FacilitatorInvariant, PTL

\* Claims belong to settlements, and a settlement keeps its claim until its
\* deadline (settle releases the claim of an attempt that fails).
THEOREM ClaimsBacked == Spec => []ClaimsAreSettlements
<1>1. FacilitatorIInv => ClaimsAreSettlements
  BY DEF FacilitatorIInv
<1> QED
  BY <1>1, FacilitatorInvariant, PTL

-----------------------------------------------------------------------------
(***************************************************************************)
(* SignIn.                                                                 *)
(*                                                                         *)
(* Beside the promises the invariant says where a challenge can be: only   *)
(* in the stores it was written to, so that each attempt that burnt it     *)
(* took it from another one; and what each attempt has seen of it.         *)
(***************************************************************************)
\* The attempts that burnt a challenge, and the stores that still hold it.
Taken == {"claimed", "signedIn", "burnt"}

Burnt(n) == {v \in DOMAIN verifies : /\ verifies[v].nonce = n
                                     /\ verifies[v].stage \in Taken}

Left(n) == {store \in {"redis", "memory"} :
              IF store = "redis" THEN n \in redis
              ELSE \E s \in Servers : n \in issued[s]}

\* A challenge is in the memory of the server that minted it only, and in no
\* store it was not written to.
HeldWhereWritten ==
  /\ \A n \in Nonces : Left(n) \subseteq minted[n].stores
  /\ \A s, r \in Servers : \A n \in issued[s] \cap issued[r] : s = r

\* To burn a challenge is to take it from a store.
BurntFromStores ==
  \A n \in Nonces :
    Cardinality(Burnt(n)) + Cardinality(Left(n)) <= Cardinality(minted[n].stores)

\* Whatever got past the look-up was the challenge itself, in time.
FoundInTime ==
  \A v \in DOMAIN verifies :
    /\ verifies[v].nonce \in Nonces
    /\ verifies[v].stage \in Taken \cup {"found"}
         => /\ verifies[v].ours
            /\ verifies[v].checkedAt <= exp(verifies[v].nonce)
            /\ verifies[v].checkedAt <= now

\* A token stays as its sign-in left it.
TokensAreEarned ==
  \A t \in sessions :
    /\ t.verify \in DOMAIN verifies
    /\ verifies[t.verify].stage = "signedIn"
    /\ verifies[t.verify].signed
    /\ verifies[t.verify].account = t.account
    /\ verifies[t.verify].checkedAt <= t.iat
    /\ t.iat <= now

\* The inductive invariant.
SignInIInv ==
  /\ SignInTypeOK
  /\ HeldWhereWritten
  /\ BurntFromStores
  /\ FoundInTime
  /\ TokensAreEarned
  /\ ForgeryBurnsNothing
  /\ SignedOutStaysOut

VerifyStages == {"asked", "found", "claimed", "signedIn", "burnt", "refused"}

\* What attempt v is after a step that moves it to a stage.
Moved(v, stage, at) ==
  /\ verifies' \in Seq(Attempt)
  /\ DOMAIN verifies' = DOMAIN verifies
  /\ \A u \in DOMAIN verifies : u # v => verifies'[u] = verifies[u]
  /\ verifies'[v].nonce = verifies[v].nonce
  /\ verifies'[v].ours = verifies[v].ours
  /\ verifies'[v].account = verifies[v].account
  /\ verifies'[v].signed = verifies[v].signed
  /\ verifies'[v].stage = stage
  /\ verifies'[v].checkedAt = at

\* Another element in a sequence's place i.
LEMMA Replaced ==
  ASSUME NEW S, NEW q \in Seq(S), NEW i \in DOMAIN q, NEW x \in S,
         NEW r, r = [q EXCEPT ![i] = x]
  PROVE  /\ r \in Seq(S) /\ DOMAIN r = DOMAIN q /\ Len(r) = Len(q)
         /\ r[i] = x /\ \A j \in DOMAIN q : j # i => r[j] = q[j]
  OBVIOUS

\* An attempt that goes on changes its own stage and no other.
LEMMA AdvanceMoves ==
  ASSUME verifies \in Seq(Attempt), NEW v \in DOMAIN verifies,
         NEW stage \in VerifyStages, advanceTo(v, stage)
  PROVE  Moved(v, stage, verifies[v].checkedAt)
<1> DEFINE x == [verifies[v] EXCEPT !.stage = stage]
<1>1. verifies[v] \in Attempt
  OBVIOUS
<1>2. /\ x \in Attempt
      /\ x.nonce = verifies[v].nonce /\ x.ours = verifies[v].ours
      /\ x.account = verifies[v].account /\ x.signed = verifies[v].signed
      /\ x.stage = stage /\ x.checkedAt = verifies[v].checkedAt
  BY <1>1 DEF Attempt, VerifyStages
<1>3. verifies' = [verifies EXCEPT ![v] = x]
  BY DEF advanceTo
<1> HIDE DEF x
<1>. QED
  BY <1>2, <1>3, Replaced DEF Moved

\* The same of an attempt whose challenge was looked at.
LEMMA CheckMoves ==
  ASSUME verifies \in Seq(Attempt), now \in 0 .. LastTick,
         NEW v \in DOMAIN verifies, NEW stage \in VerifyStages, check(v, stage)
  PROVE  Moved(v, stage, now)
<1> DEFINE x == [verifies[v] EXCEPT !.stage = stage, !.checkedAt = now]
<1>1. verifies[v] \in Attempt
  OBVIOUS
<1>2. /\ x \in Attempt
      /\ x.nonce = verifies[v].nonce /\ x.ours = verifies[v].ours
      /\ x.account = verifies[v].account /\ x.signed = verifies[v].signed
      /\ x.stage = stage /\ x.checkedAt = now
  BY <1>1 DEF Attempt, VerifyStages
<1>3. verifies' = [verifies EXCEPT ![v] = x]
  BY <1>1 DEF check
<1> HIDE DEF x
<1>. QED
  BY <1>2, <1>3, Replaced DEF Moved

-----------------------------------------------------------------------------
\* Finitely many attempts have burnt a challenge ...
LEMMA BurntFinite ==
  ASSUME verifies \in Seq(Attempt), NEW n
  PROVE  IsFiniteSet(Burnt(n))
<1>1. DOMAIN verifies = 1 .. Len(verifies) /\ Len(verifies) \in Nat
  OBVIOUS
<1>2. IsFiniteSet(DOMAIN verifies)
  BY <1>1, FS_Interval
<1>. QED
  BY <1>2, FS_Subset DEF Burnt

\* ... and it is left in finitely many stores.
LEMMA TwoStores ==
  /\ IsFiniteSet({"redis", "memory"})
  /\ \A S \in SUBSET {"redis", "memory"} : IsFiniteSet(S) /\ Cardinality(S) \in Nat
<1>1. IsFiniteSet({"redis", "memory"})
  <2>1. IsFiniteSet({"redis"} \cup {"memory"})
    BY FS_Singleton, FS_AddElement
  <2>2. {"redis"} \cup {"memory"} = {"redis", "memory"}
    OBVIOUS
  <2>. QED BY <2>1, <2>2
<1>. QED
  BY <1>1, FS_Subset, FS_CardinalityType

\* One more burnt for one store less.
LEMMA BurntForStore ==
  ASSUME NEW B, IsFiniteSet(B), NEW B2, NEW v, v \notin B,
         NEW L, IsFiniteSet(L), NEW L2 \in SUBSET L,
         \/ B2 = B
         \/ B2 = B \cup {v} /\ L2 # L,
         NEW c \in Nat, Cardinality(B) + Cardinality(L) <= c
  PROVE  Cardinality(B2) + Cardinality(L2) <= c
<1>1. /\ Cardinality(B) \in Nat /\ Cardinality(L) \in Nat
      /\ Cardinality(L2) \in Nat
      /\ Cardinality(L2) <= Cardinality(L)
      /\ L2 # L => Cardinality(L2) # Cardinality(L)
  BY FS_Subset, FS_CardinalityType
<1>2. CASE B2 = B
  BY <1>1, <1>2
<1>3. CASE B2 = B \cup {v} /\ L2 # L
  <2>1. Cardinality(B2) = Cardinality(B) + 1
    BY <1>3, FS_AddElement
  <2>. QED BY <1>1, <1>3, <2>1
<1>. QED
  BY <1>2, <1>3

LEMMA MintedType ==
  ASSUME SignInTypeOK, NEW n \in Nonces
  PROVE  exp(n) \in Nat /\ minted[n].stores \in SUBSET {"redis", "memory"}
<1> DEFINE C == [exp : Nat, stores : SUBSET {"redis", "memory"}]
<1>1. minted \in Seq(C)
  BY DEF SignInTypeOK
<1>2. minted[n] \in C
  <2> HIDE DEF C
  <2>. QED BY <1>1 DEF Nonces
<1>. QED
  BY <1>2 DEF exp

LEMMA IssuedFinite ==
  ASSUME SignInTypeOK, NEW s \in Servers
  PROVE  IsFiniteSet(issued[s]) /\ IsFiniteSet(Nonces)
<1>1. Len(minted) \in Nat /\ Nonces = 1 .. Len(minted)
  BY DEF SignInTypeOK, Nonces
<1>2. IsFiniteSet(1 .. Len(minted))
  BY <1>1, FS_Interval
<1>. QED
  BY <1>1, <1>2, FS_Subset DEF SignInTypeOK

-----------------------------------------------------------------------------
\* The three commands of consumeNonce: attempt v moves on, at most its own
\* challenge is taken, and only by the challenge itself.
LEMMA ConsumeStep ==
  ASSUME SignInIInv, NEW v \in DOMAIN verifies,
         NEW own, own = verifies[v].nonce,
         NEW stage \in {"found", "claimed", "refused"}, NEW at \in 0 .. LastTick,
         Moved(v, stage, at),
         verifies[v].stage \in {"asked", "found"},
         UNCHANGED <<now, minted, sessions, revokedAt, signedOut>>,
         redis' \subseteq redis,
         issued' \in [Servers -> SUBSET Nonces],
         \A s \in Servers : issued'[s] \subseteq issued[s],
         stage # "refused" => /\ verifies[v].ours
                              /\ at <= exp(verifies[v].nonce) /\ at <= now,
         stage = "claimed" => Left(own)' # Left(own),
         \A n \in redis \ redis' :
           \/ now >= exp(n)
           \/ n = verifies[v].nonce /\ verifies[v].ours
  PROVE  SignInIInv'
<1>. USE DEF SignInIInv
<1>0. /\ verifies \in Seq(Attempt) /\ DOMAIN verifies' = DOMAIN verifies
      /\ Nonces' = Nonces /\ \A n : exp(n)' = exp(n)
      /\ minted \in Seq([exp : Nat, stores : SUBSET {"redis", "memory"}])
  BY DEF SignInTypeOK, Moved, Nonces, exp
<1>1. SignInTypeOK'
  <2>1. \A s \in Servers : Cardinality(issued'[s]) <= MaxIssued
    <3> SUFFICES ASSUME NEW s \in Servers
                 PROVE  Cardinality(issued'[s]) <= MaxIssued
      OBVIOUS
    <3>2. IsFiniteSet(issued[s])
      BY IssuedFinite
    <3>3. /\ Cardinality(issued[s]) \in Nat /\ Cardinality(issued'[s]) \in Nat
          /\ Cardinality(issued'[s]) <= Cardinality(issued[s])
      BY <3>2, FS_Subset, FS_CardinalityType
    <3>. QED BY <3>3, SignInAssumption DEF SignInTypeOK
  <2>. QED BY <1>0, <2>1 DEF SignInTypeOK, Moved
<1>2. \A n : Left(n)' \subseteq Left(n)
  BY DEF Left
<1>3. HeldWhereWritten'
  <2>1. \A n \in Nonces' : Left(n)' \subseteq minted'[n].stores
    BY <1>0, <1>2 DEF HeldWhereWritten
  <2>. QED BY <2>1 DEF HeldWhereWritten
<1>4. BurntFromStores'
  <2> SUFFICES ASSUME NEW n \in Nonces
               PROVE  Cardinality(Burnt(n)') + Cardinality(Left(n)')
                        <= Cardinality(minted[n].stores)
    BY <1>0 DEF BurntFromStores
  <2>1. \/ Burnt(n)' = Burnt(n)
        \/ /\ Burnt(n)' = Burnt(n) \cup {v}
           /\ stage = "claimed" /\ n = verifies[v].nonce
    <3>1. \A u : u # v => (u \in Burnt(n)' <=> u \in Burnt(n))
      BY DEF Burnt, Moved
    <3>2. v \in Burnt(n)' => stage = "claimed" /\ n = verifies[v].nonce
      BY DEF Burnt, Moved, Taken
    <3>3. v \notin Burnt(n)
      BY DEF Burnt, Taken
    <3>. QED BY <3>1, <3>2, <3>3
  <2>2. v \notin Burnt(n)
    BY DEF Burnt, Taken
  <2>3. minted[n].stores \in SUBSET {"redis", "memory"}
    BY MintedType
  <2>4. Left(n) \in SUBSET {"redis", "memory"}
    BY DEF Left
  <2>5. /\ IsFiniteSet(Burnt(n)) /\ IsFiniteSet(Left(n))
        /\ Cardinality(minted[n].stores) \in Nat
    BY <1>0, <2>3, <2>4, TwoStores, BurntFinite
  <2>6. Cardinality(Burnt(n)) + Cardinality(Left(n)) <= Cardinality(minted[n].stores)
    BY DEF BurntFromStores
  <2>7. \/ Burnt(n)' = Burnt(n)
        \/ Burnt(n)' = Burnt(n) \cup {v} /\ Left(n)' # Left(n)
    BY <2>1
  <2>8. Left(n)' \in SUBSET Left(n)
    BY <1>2
  <2> HIDE DEF SignInIInv
  <2>. QED
    BY <2>2, <2>5, <2>6, <2>7, <2>8, BurntForStore
<1>5. FoundInTime'
  <2> SUFFICES ASSUME NEW u \in DOMAIN verifies
               PROVE  /\ verifies'[u].nonce \in Nonces
                      /\ verifies'[u].stage \in Taken \cup {"found"}
                           => /\ verifies'[u].ours
                              /\ verifies'[u].checkedAt <= exp(verifies'[u].nonce)
                              /\ verifies'[u].checkedAt <= now
    BY <1>0 DEF FoundInTime
  <2>1. CASE u = v
    BY <2>1 DEF FoundInTime, Moved, Taken
  <2>2. CASE u # v
    BY <2>2 DEF FoundInTime, Moved
  <2>. QED BY <2>1, <2>2
<1>6. TokensAreEarned'
  BY <1>0 DEF TokensAreEarned, Moved
<1>7. ForgeryBurnsNothing'
  <2> SUFFICES ASSUME NEW n \in Nonces, "redis" \in minted[n].stores, now < exp(n),
                      \A u \in DOMAIN verifies' :
                         verifies'[u].nonce = n => ~verifies'[u].ours
               PROVE  n \in redis'
    BY <1>0 DEF ForgeryBurnsNothing
  <2>1. \A u \in DOMAIN verifies : verifies[u].nonce = n => ~verifies[u].ours
    BY <1>0 DEF Moved
  <2>2. n \in redis
    BY <2>1 DEF ForgeryBurnsNothing
  <2>3. exp(n) \in Nat /\ now \in Nat
    BY MintedType DEF SignInTypeOK
  <2>. QED BY <2>1, <2>2, <2>3
<1>8. SignedOutStaysOut'
  BY DEF SignedOutStaysOut, accepts, revoked
<1>. QED
  BY <1>1, <1>3, <1>4, <1>5, <1>6, <1>7, <1>8

\* Looking a challenge up, by stage of the attempt.
LEMMA ReadStep ==
  ASSUME SignInIInv, NEW v \in DOMAIN verifies, ReadChallenge(v)
  PROVE  SignInIInv'
<1> DEFINE n == verifies[v].nonce
<1>1. /\ verifies \in Seq(Attempt) /\ now \in 0 .. LastTick
      /\ verifies[v].checkedAt \in 0 .. LastTick
      /\ n \in Nonces /\ exp(n) \in Nat
  <2>1. verifies \in Seq(Attempt) /\ now \in 0 .. LastTick /\ n \in Nonces
    BY DEF SignInIInv, SignInTypeOK, FoundInTime
  <2>2. verifies[v] \in Attempt
    BY <2>1
  <2>. QED BY <2>1, <2>2, MintedType DEF SignInIInv, Attempt
<1>2. /\ verifies[v].stage = "asked"
      /\ UNCHANGED <<now, minted, issued, sessions, revokedAt, signedOut>>
      /\ redis' \subseteq redis
      /\ \A m \in redis \ redis' : now >= exp(m)
      /\ \/ advanceTo(v, "refused")
         \/ check(v, "found") /\ verifies[v].ours /\ now <= exp(n)
  BY <1>1 DEF ReadChallenge, sameMessage, afterMismatch
<1>3. issued' \in [Servers -> SUBSET Nonces]
  BY <1>2 DEF SignInIInv, SignInTypeOK
<1>4. CASE advanceTo(v, "refused")
  <2>1. Moved(v, "refused", verifies[v].checkedAt)
    BY <1>1, <1>4, AdvanceMoves DEF VerifyStages
  <2>. QED BY <1>1, <1>2, <1>3, <2>1, ConsumeStep
<1>5. CASE check(v, "found") /\ verifies[v].ours /\ now <= exp(n)
  <2>1. Moved(v, "found", now)
    BY <1>1, <1>5, CheckMoves DEF VerifyStages
  <2>. QED BY <1>1, <1>2, <1>3, <1>5, <2>1, ConsumeStep
<1>. QED
  BY <1>2, <1>4, <1>5

LEMMA ClaimStep ==
  ASSUME SignInIInv, NEW v \in DOMAIN verifies, ClaimChallenge(v)
  PROVE  SignInIInv'
<1> DEFINE n == verifies[v].nonce
<1>1. /\ verifies \in Seq(Attempt)
      /\ verifies[v].checkedAt \in 0 .. LastTick
  <2>1. verifies \in Seq(Attempt)
    BY DEF SignInIInv, SignInTypeOK
  <2>2. verifies[v] \in Attempt
    BY <2>1
  <2>. QED BY <2>1, <2>2 DEF Attempt
<1>2. /\ verifies[v].stage = "found" /\ redis' = redis \ {n}
      /\ UNCHANGED <<now, minted, issued, sessions, revokedAt, signedOut>>
      /\ \/ n \in redis /\ advanceTo(v, "claimed")
         \/ advanceTo(v, "refused")
  BY DEF ClaimChallenge, claims
<1>3. /\ verifies[v].ours /\ verifies[v].checkedAt <= exp(n)
      /\ verifies[v].checkedAt <= now
  BY <1>2 DEF SignInIInv, FoundInTime
<1>4. issued' \in [Servers -> SUBSET Nonces]
  BY <1>2 DEF SignInIInv, SignInTypeOK
<1>5. CASE n \in redis /\ advanceTo(v, "claimed")
  <2>1. Moved(v, "claimed", verifies[v].checkedAt)
    BY <1>1, <1>5, AdvanceMoves DEF VerifyStages
  <2>2. PICK own : own = n
    OBVIOUS
  <2>3. "redis" \in Left(own) /\ "redis" \notin Left(own)'
    BY <1>2, <1>5, <2>2 DEF Left
  <2>4. Left(own)' # Left(own)
    BY <2>3
  <2>. QED BY <1>1, <1>2, <1>3, <1>4, <2>1, <2>2, <2>4, ConsumeStep
<1>6. CASE advanceTo(v, "refused")
  <2>1. Moved(v, "refused", verifies[v].checkedAt)
    BY <1>1, <1>6, AdvanceMoves DEF VerifyStages
  <2>. QED BY <1>1, <1>2, <1>3, <1>4, <2>1, ConsumeStep
<1>. QED
  BY <1>2, <1>5, <1>6

LEMMA ClaimInMemoryStep ==
  ASSUME SignInIInv, NEW v \in DOMAIN verifies, ClaimInMemory(v)
  PROVE  SignInIInv'
<1> DEFINE n == verifies[v].nonce
           s == verifies[v].server
           live == unexpired(s)
<1>1. /\ verifies \in Seq(Attempt) /\ now \in 0 .. LastTick
      /\ verifies[v].checkedAt \in 0 .. LastTick /\ s \in Servers
      /\ issued \in [Servers -> SUBSET Nonces]
  <2>1. /\ verifies \in Seq(Attempt) /\ now \in 0 .. LastTick
        /\ issued \in [Servers -> SUBSET Nonces]
    BY DEF SignInIInv, SignInTypeOK
  <2>2. verifies[v] \in Attempt
    BY <2>1
  <2>. QED BY <2>1, <2>2 DEF Attempt
<1>2. /\ verifies[v].stage \in {"asked", "found"}
      /\ UNCHANGED <<now, minted, sessions, revokedAt, signedOut>>
      /\ redis' \subseteq redis
      /\ \A m \in redis \ redis' : m = n /\ verifies[v].stage = "found"
      /\ \/ /\ n \in live /\ verifies[v].ours
            /\ issued' = [issued EXCEPT ![s] = live \ {n}]
            /\ check(v, "claimed")
         \/ /\ issued' = [issued EXCEPT ![s] = live]
            /\ advanceTo(v, "refused")
  BY DEF ClaimInMemory, sameMessage
<1>3. \A m \in redis \ redis' : m = n /\ verifies[v].ours
  BY <1>2 DEF SignInIInv, FoundInTime
<1>4. live \subseteq issued[s] /\ \A m \in live : exp(m) >= now
  BY DEF unexpired
<1>5. CASE /\ n \in live /\ verifies[v].ours
           /\ issued' = [issued EXCEPT ![s] = live \ {n}]
           /\ check(v, "claimed")
  <2>1. Moved(v, "claimed", now)
    BY <1>1, <1>5, CheckMoves DEF VerifyStages
  <2>2. /\ issued' \in [Servers -> SUBSET Nonces]
        /\ \A r \in Servers : issued'[r] \subseteq issued[r]
        /\ n \notin issued'[s] /\ n \in issued[s]
    BY <1>1, <1>4, <1>5
  <2>3. PICK own : own = n
    OBVIOUS
  <2>4. "memory" \in Left(own) /\ "memory" \notin Left(own)'
    BY <1>1, <2>2, <2>3 DEF Left, SignInIInv, HeldWhereWritten
  <2>5. Left(own)' # Left(own)
    BY <2>4
  <2>6. now <= exp(n)
    <3>1. n \in Nonces
      BY DEF SignInIInv, FoundInTime
    <3>. QED BY <1>1, <1>4, <1>5, <3>1, MintedType DEF SignInIInv
  <2>. QED BY <1>1, <1>2, <1>3, <1>5, <2>1, <2>2, <2>3, <2>5, <2>6, ConsumeStep
<1>6. CASE issued' = [issued EXCEPT ![s] = live] /\ advanceTo(v, "refused")
  <2>1. Moved(v, "refused", verifies[v].checkedAt)
    BY <1>1, <1>6, AdvanceMoves DEF VerifyStages
  <2>2. /\ issued' \in [Servers -> SUBSET Nonces]
        /\ \A r \in Servers : issued'[r] \subseteq issued[r]
    BY <1>1, <1>4, <1>6
  <2>. QED BY <1>1, <1>2, <1>3, <2>1, <2>2, ConsumeStep
<1>. QED
  BY <1>2, <1>5, <1>6

\* A new challenge is in no store before, and in those it is written to after.
LEMMA MintStep ==
  ASSUME SignInIInv, MintInRedis \/ \E s \in Servers : MintInMemory(s)
  PROVE  SignInIInv'
<1>. USE DEF SignInIInv
<1> DEFINE Challenge == [exp : Nat, stores : SUBSET {"redis", "memory"}]
<1>0. PICK k \in Nat : k = Len(minted) + 1
  BY DEF SignInTypeOK
<1>1. PICK stores \in {{"redis"}, {"memory"}, {"redis", "memory"}} :
        /\ mint(stores)
        /\ redis' = redis \cup (IF "redis" \in stores THEN {k} ELSE {})
        /\ \/ "memory" \notin stores /\ issued' = issued
           \/ /\ "memory" \in stores
              /\ \E s \in Servers : \E kept \in roomIn(unexpired(s)) :
                   issued' = [issued EXCEPT ![s] = kept \cup {k}]
  <2>1. CASE MintInRedis
    BY <1>0, <2>1 DEF MintInRedis
  <2>2. CASE \E s \in Servers : MintInMemory(s)
    <3>1. PICK s \in Servers : MintInMemory(s)
      BY <2>2
    <3>2. CASE mint({"memory"}) /\ UNCHANGED redis
      BY <1>0, <3>1, <3>2 DEF MintInMemory
    <3>3. CASE mint({"redis", "memory"}) /\ redis' = redis \cup {k}
      BY <1>0, <3>1, <3>3 DEF MintInMemory
    <3>. QED BY <1>0, <3>1, <3>2, <3>3 DEF MintInMemory
  <2>. QED BY <2>1, <2>2
<1>2. /\ minted \in Seq(Challenge) /\ Len(minted) \in Nat /\ now \in Nat
      /\ Nonces = 1 .. Len(minted)
      /\ minted' = Append(minted, [exp |-> now + ChallengeTTL, stores |-> stores])
      /\ UNCHANGED <<now, verifies, sessions, revokedAt, signedOut>>
      /\ Len(minted) < MaxMinted
  BY <1>1 DEF SignInTypeOK, mint, Nonces
<1>3. [exp |-> now + ChallengeTTL, stores |-> stores] \in Challenge
  BY <1>2, SignInAssumption
<1>4. /\ minted' \in Seq(Challenge)
      /\ Nonces' = Nonces \cup {k} /\ k \notin Nonces /\ k \in Nat
      /\ minted'[k].stores = stores
      /\ \A n \in Nonces : minted'[n] = minted[n]
  <2>1. minted' \in Seq(Challenge) /\ Len(minted') = k
    <3> HIDE DEF Challenge
    <3>. QED BY <1>0, <1>2, <1>3
  <2>2. \A n \in Nonces : minted'[n] = minted[n]
    BY <1>0, <1>2
  <2>3. minted'[k] = [exp |-> now + ChallengeTTL, stores |-> stores]
    BY <1>0, <1>2
  <2>4. Nonces' = 1 .. k
    BY <2>1 DEF Nonces
  <2>. QED BY <1>0, <1>2, <2>1, <2>2, <2>3, <2>4
<1>5. \A n \in Nonces : exp(n)' = exp(n)
  BY <1>4 DEF exp
<1>6. /\ issued' \in [Servers -> SUBSET Nonces']
      /\ \A s \in Servers : Cardinality(issued'[s]) <= MaxIssued
      /\ \A s \in Servers : issued'[s] \subseteq issued[s] \cup {k}
      /\ "memory" \notin stores => issued' = issued
      /\ \A s, r \in Servers : k \in issued'[s] /\ k \in issued'[r] => s = r
  <2>1. issued \in [Servers -> SUBSET Nonces]
    BY DEF SignInTypeOK
  <2>2. CASE "memory" \notin stores /\ issued' = issued
    BY <1>4, <2>1, <2>2 DEF SignInTypeOK
  <2>3. CASE "memory" \in stores /\ issued' # issued
    <3>0. PICK s \in Servers : \E kept \in roomIn(unexpired(s)) :
            issued' = [issued EXCEPT ![s] = kept \cup {k}]
      BY <1>1, <2>3
    <3>1. PICK kept \in roomIn(unexpired(s)) :
            issued' = [issued EXCEPT ![s] = kept \cup {k}]
      BY <3>0
    <3>2. /\ kept \subseteq unexpired(s) /\ unexpired(s) \subseteq issued[s]
          /\ Cardinality(kept) =
               IF Cardinality(unexpired(s)) < MaxIssued
               THEN Cardinality(unexpired(s)) ELSE MaxIssued - 1
      BY <3>1 DEF roomIn, unexpired
    <3>3. kept \subseteq issued[s] /\ IsFiniteSet(issued[s])
      BY <3>2, IssuedFinite
    <3>4. IsFiniteSet(kept) /\ Cardinality(unexpired(s)) \in Nat
      BY <3>2, <3>3, FS_Subset, FS_CardinalityType
    <3>5. Cardinality(kept) <= MaxIssued - 1
      BY <3>2, <3>4, SignInAssumption
    <3>6. Cardinality(kept \cup {k}) <= MaxIssued
      <4>1. Cardinality(kept) \in Nat
        BY <3>4, FS_CardinalityType
      <4>2. Cardinality(kept \cup {k}) \in {Cardinality(kept), Cardinality(kept) + 1}
        BY <3>4, FS_AddElement
      <4>. QED BY <3>5, <4>1, <4>2, SignInAssumption
    <3>7. /\ issued'[s] = kept \cup {k}
          /\ \A r \in Servers : r # s => issued'[r] = issued[r]
          /\ kept \cup {k} \in SUBSET Nonces'
          /\ DOMAIN issued' = Servers
      BY <1>4, <2>1, <3>1, <3>3
    <3>8. issued' \in [Servers -> SUBSET Nonces']
      BY <1>4, <2>1, <3>1, <3>7
    <3>9. \A r \in Servers : Cardinality(issued'[r]) <= MaxIssued
      BY <3>6, <3>7 DEF SignInTypeOK
    <3>10. \A r \in Servers : k \notin issued[r]
      BY <1>4, <2>1
    <3>. QED BY <2>3, <3>3, <3>7, <3>8, <3>9, <3>10
  <2>4. CASE "memory" \in stores /\ issued' = issued
    BY <1>4, <2>1, <2>4 DEF SignInTypeOK
  <2>. QED BY <1>1, <2>2, <2>3, <2>4
<1>7. SignInTypeOK'
  <2>1. Len(minted') <= MaxMinted
    BY <1>2, SignInAssumption
  <2>. QED BY <1>1, <1>2, <1>4, <1>6, <2>1 DEF SignInTypeOK
<1>8. \A n \in Nonces : Left(n)' \subseteq Left(n)
  BY <1>1, <1>4, <1>6 DEF Left
<1>9. Left(k)' \subseteq stores
  <2>1. k \notin redis /\ \A s \in Servers : k \notin issued[s]
    BY <1>4 DEF SignInTypeOK
  <2>. QED BY <1>1, <1>6, <2>1 DEF Left
<1>10. HeldWhereWritten'
  <2>1. \A n \in Nonces' : Left(n)' \subseteq minted'[n].stores
    BY <1>4, <1>8, <1>9 DEF HeldWhereWritten
  <2>2. ASSUME NEW s \in Servers, NEW r \in Servers,
               NEW n \in issued'[s] \cap issued'[r]
        PROVE  s = r
    BY <1>4, <1>6, <2>2 DEF HeldWhereWritten
  <2>. QED BY <2>1, <2>2 DEF HeldWhereWritten
<1>11. BurntFromStores'
  <2> SUFFICES ASSUME NEW n \in Nonces'
               PROVE  Cardinality(Burnt(n)') + Cardinality(Left(n)')
                        <= Cardinality(minted'[n].stores)
    BY DEF BurntFromStores
  <2>1. Burnt(n)' = Burnt(n)
    BY <1>2 DEF Burnt
  <2>2. CASE n \in Nonces
    <3>1. /\ IsFiniteSet(Burnt(n)) /\ IsFiniteSet(Left(n))
          /\ minted[n].stores \in SUBSET {"redis", "memory"}
          /\ Left(n)' \in SUBSET Left(n)
      BY <1>8, <2>2, TwoStores, BurntFinite, MintedType DEF Left, SignInTypeOK
    <3>2. /\ Cardinality(Burnt(n)) \in Nat /\ Cardinality(Left(n)) \in Nat
          /\ Cardinality(Left(n)') \in Nat
          /\ Cardinality(Left(n)') <= Cardinality(Left(n))
          /\ Cardinality(minted[n].stores) \in Nat
      BY <3>1, FS_Subset, FS_CardinalityType, TwoStores
    <3>3. Cardinality(Burnt(n)) + Cardinality(Left(n)) <= Cardinality(minted[n].stores)
      BY <2>2 DEF BurntFromStores
    <3>. QED BY <1>4, <2>1, <2>2, <3>2, <3>3
  <2>3. CASE n = k
    <3>1. Burnt(n) = {}
      BY <1>4, <2>3 DEF Burnt, FoundInTime
    <3>2. stores \in SUBSET {"redis", "memory"}
      OBVIOUS
    <3>3. /\ Cardinality(Left(n)') <= Cardinality(stores)
          /\ Cardinality(Left(n)') \in Nat /\ Cardinality(stores) \in Nat
      BY <1>9, <2>3, <3>2, TwoStores, FS_Subset, FS_CardinalityType
    <3>. QED BY <1>4, <2>1, <2>3, <3>1, <3>3, FS_EmptySet
  <2>. QED BY <1>4, <2>2, <2>3
<1>12. FoundInTime'
  BY <1>2, <1>4, <1>5 DEF FoundInTime
<1>13. TokensAreEarned'
  BY <1>2 DEF TokensAreEarned
<1>14. ForgeryBurnsNothing'
  BY <1>1, <1>2, <1>4, <1>5 DEF ForgeryBurnsNothing
<1>15. SignedOutStaysOut'
  BY <1>2 DEF SignedOutStaysOut, accepts
<1>. QED
  BY <1>7, <1>10, <1>11, <1>12, <1>13, <1>14, <1>15

LEMMA ExpireStep ==
  ASSUME SignInIInv, NEW n \in Nonces, ExpireInRedis(n)
  PROVE  SignInIInv'
<1>. USE DEF SignInIInv
<1>1. /\ redis' = redis \ {n} /\ now >= exp(n)
      /\ UNCHANGED <<now, minted, issued, verifies, sessions, revokedAt,
                     signedOut>>
  BY DEF ExpireInRedis
<1>2. SignInTypeOK' /\ FoundInTime' /\ TokensAreEarned' /\ SignedOutStaysOut'
  BY <1>1 DEF SignInTypeOK, FoundInTime, TokensAreEarned, SignedOutStaysOut,
              accepts, Nonces, exp
<1>3. \A m : Left(m)' \subseteq Left(m)
  BY <1>1 DEF Left
<1>4. HeldWhereWritten'
  BY <1>1, <1>3 DEF HeldWhereWritten, Nonces
<1>5. BurntFromStores'
  <2> SUFFICES ASSUME NEW m \in Nonces
               PROVE  Cardinality(Burnt(m)') + Cardinality(Left(m)')
                        <= Cardinality(minted[m].stores)
    BY <1>1 DEF BurntFromStores, Nonces
  <2>1. Burnt(m)' = Burnt(m)
    BY <1>1 DEF Burnt
  <2>2. /\ IsFiniteSet(Burnt(m)) /\ IsFiniteSet(Left(m))
        /\ minted[m].stores \in SUBSET {"redis", "memory"}
        /\ Left(m)' \in SUBSET Left(m)
    BY <1>3, TwoStores, BurntFinite, MintedType DEF Left, SignInTypeOK
  <2>3. /\ Cardinality(Burnt(m)) \in Nat /\ Cardinality(Left(m)) \in Nat
        /\ Cardinality(Left(m)') \in Nat
        /\ Cardinality(Left(m)') <= Cardinality(Left(m))
        /\ Cardinality(minted[m].stores) \in Nat
    BY <2>2, FS_Subset, FS_CardinalityType, TwoStores
  <2>. QED BY <2>1, <2>3 DEF BurntFromStores
<1>6. ForgeryBurnsNothing'
  <2> SUFFICES ASSUME NEW m \in Nonces, "redis" \in minted[m].stores, now < exp(m),
                      \A u \in DOMAIN verifies :
                         verifies[u].nonce = m => ~verifies[u].ours
               PROVE  m \in redis'
    BY <1>1 DEF ForgeryBurnsNothing, Nonces, exp
  <2>1. m \in redis
    BY DEF ForgeryBurnsNothing
  <2>2. exp(m) \in Nat /\ now \in Nat
    BY MintedType DEF SignInTypeOK
  <2>. QED BY <1>1, <2>1, <2>2
<1>. QED
  BY <1>2, <1>4, <1>5, <1>6

LEMMA AskStep ==
  ASSUME SignInIInv, NEW s \in Servers, NEW n \in Nonces, NEW ours \in BOOLEAN,
         NEW account \in Accounts, NEW signedBy \in BOOLEAN,
         Ask(s, n, ours, account, signedBy)
  PROVE  SignInIInv'
<1>. USE DEF SignInIInv
<1> DEFINE x == [server |-> s, nonce |-> n, ours |-> ours, account |-> account,
                 signed |-> signedBy, checkedAt |-> 0, stage |-> "asked"]
<1>1. /\ verifies' = Append(verifies, x)
      /\ Len(verifies) < MaxVerifies
      /\ UNCHANGED <<now, minted, redis, issued, sessions, revokedAt, signedOut>>
  BY DEF Ask
<1>2. x \in Attempt /\ x.nonce = n /\ x.stage = "asked"
  <2>1. n \in 1 .. MaxMinted
    <3>1. Len(minted) <= MaxMinted /\ MaxMinted \in Nat /\ Len(minted) \in Nat
      BY SignInAssumption DEF SignInTypeOK
    <3>2. n \in 1 .. Len(minted)
      BY DEF Nonces, SignInTypeOK
    <3> HIDE DEF SignInIInv
    <3>. QED BY <3>1, <3>2
  <2>2. 0 \in 0 .. LastTick
    BY SignInAssumption
  <2>. QED BY <2>1, <2>2 DEF Attempt
<1> HIDE DEF x
<1>3. /\ verifies \in Seq(Attempt) /\ Len(verifies) \in Nat
      /\ DOMAIN verifies = 1 .. Len(verifies)
      /\ verifies' \in Seq(Attempt)
      /\ DOMAIN verifies' = 1 .. Len(verifies) + 1
      /\ verifies'[Len(verifies) + 1] = x
      /\ \A u \in DOMAIN verifies : verifies'[u] = verifies[u]
  BY <1>1, <1>2 DEF SignInTypeOK
<1>4. /\ DOMAIN verifies \subseteq DOMAIN verifies'
      /\ \A u \in DOMAIN verifies' : u \notin DOMAIN verifies => verifies'[u] = x
  BY <1>3
<1>5. SignInTypeOK'
  <2>1. Len(verifies') <= MaxVerifies
    BY <1>1, <1>3, SignInAssumption
  <2>. QED BY <1>1, <1>3, <2>1 DEF SignInTypeOK, Nonces
<1>6. HeldWhereWritten' /\ SignedOutStaysOut'
  BY <1>1 DEF HeldWhereWritten, Left, Nonces, SignedOutStaysOut, accepts
<1>7. BurntFromStores'
  <2>1. \A m : Burnt(m)' = Burnt(m)
    BY <1>2, <1>3, <1>4 DEF Burnt, Taken
  <2>. QED BY <1>1, <2>1 DEF BurntFromStores, Left, Nonces
<1>8. FoundInTime'
  <2>1. n \in Nonces'
    BY <1>1 DEF Nonces
  <2>. QED BY <1>1, <1>2, <1>3, <1>4, <2>1 DEF FoundInTime, Taken, Nonces, exp
<1>9. TokensAreEarned'
  BY <1>1, <1>3, <1>4 DEF TokensAreEarned
<1>10. ForgeryBurnsNothing'
  <2> SUFFICES ASSUME NEW m \in Nonces, "redis" \in minted[m].stores, now < exp(m),
                      \A u \in DOMAIN verifies' :
                         verifies'[u].nonce = m => ~verifies'[u].ours
               PROVE  m \in redis
    BY <1>1 DEF ForgeryBurnsNothing, Nonces, exp
  <2>1. \A u \in DOMAIN verifies : verifies[u].nonce = m => ~verifies[u].ours
    BY <1>3, <1>4
  <2>. QED BY <2>1 DEF ForgeryBurnsNothing
<1>. QED
  BY <1>5, <1>6, <1>7, <1>8, <1>9, <1>10

LEMMA IssueStep ==
  ASSUME SignInIInv, NEW v \in DOMAIN verifies, IssueSession(v)
  PROVE  SignInIInv'
<1>. USE DEF SignInIInv
<1> DEFINE token == [account |-> verifies[v].account, iat |-> now,
                     exp |-> now + SessionTTL, verify |-> v]
<1>1. /\ verifies[v].stage = "claimed"
      /\ UNCHANGED <<now, minted, redis, issued, revokedAt, signedOut>>
      /\ \/ /\ verifies[v].signed /\ sessions' = sessions \cup {token}
            /\ advanceTo(v, "signedIn")
         \/ advanceTo(v, "burnt") /\ sessions' = sessions
  BY DEF IssueSession
<1>2. /\ verifies \in Seq(Attempt) /\ verifies[v] \in Attempt
      /\ now \in 0 .. LastTick /\ now \in Nat /\ Len(verifies) \in Nat
      /\ v \in 1 .. Len(verifies)
  <2>1. verifies \in Seq(Attempt) /\ now \in 0 .. LastTick /\ now \in Nat
    BY DEF SignInTypeOK
  <2>. QED BY <2>1
<1>3. PICK stage \in {"signedIn", "burnt"} :
        /\ Moved(v, stage, verifies[v].checkedAt)
        /\ \/ /\ verifies[v].signed /\ sessions' = sessions \cup {token}
              /\ stage = "signedIn"
           \/ sessions' = sessions
  <2>1. CASE /\ verifies[v].signed /\ sessions' = sessions \cup {token}
             /\ advanceTo(v, "signedIn")
    BY <1>2, <2>1, AdvanceMoves DEF VerifyStages
  <2>2. CASE advanceTo(v, "burnt") /\ sessions' = sessions
    BY <1>2, <2>2, AdvanceMoves DEF VerifyStages
  <2>. QED BY <1>1, <2>1, <2>2
<1>4. token \in Session
  <2>1. v \in 1 .. MaxVerifies
    <3>1. Len(verifies) <= MaxVerifies /\ MaxVerifies \in Nat
      BY SignInAssumption DEF SignInTypeOK
    <3> HIDE DEF SignInIInv
    <3>. QED BY <1>2, <3>1
  <2>. QED BY <1>2, <2>1, SignInAssumption DEF Session, Attempt
<1>5. SignInTypeOK'
  <2>1. sessions' \subseteq Session /\ sessions \subseteq sessions'
    BY <1>3, <1>4 DEF SignInTypeOK
  <2>2. Len(verifies') <= MaxVerifies /\ verifies' \in Seq(Attempt)
    BY <1>2, <1>3 DEF Moved, SignInTypeOK
  <2>. QED BY <1>1, <2>1, <2>2 DEF SignInTypeOK, Nonces
<1>6. HeldWhereWritten'
  BY <1>1 DEF HeldWhereWritten, Left, Nonces
<1>7. BurntFromStores'
  <2>1. \A m : Burnt(m)' = Burnt(m)
    <3> SUFFICES ASSUME NEW m PROVE Burnt(m)' = Burnt(m)
      OBVIOUS
    <3>1. \A u : u # v => (u \in Burnt(m)' <=> u \in Burnt(m))
      BY <1>3 DEF Burnt, Moved
    <3>2. v \in Burnt(m)' <=> v \in Burnt(m)
      BY <1>1, <1>3 DEF Burnt, Moved, Taken
    <3>. QED BY <3>1, <3>2
  <2>. QED BY <1>1, <2>1 DEF BurntFromStores, Left, Nonces
<1>8. FoundInTime'
  <2>1. \A u \in DOMAIN verifies : /\ verifies'[u].nonce = verifies[u].nonce
                                   /\ verifies'[u].ours = verifies[u].ours
                                   /\ verifies'[u].checkedAt = verifies[u].checkedAt
                                   /\ u # v => verifies'[u].stage = verifies[u].stage
    BY <1>3 DEF Moved
  <2>2. DOMAIN verifies' = DOMAIN verifies /\ verifies[v].stage \in Taken
    BY <1>1, <1>3 DEF Moved, Taken
  <2>. QED BY <1>1, <2>1, <2>2 DEF FoundInTime, Nonces, exp
<1>9. TokensAreEarned'
  <2>1. ASSUME NEW t \in sessions
        PROVE  /\ t.verify # v /\ verifies'[t.verify] = verifies[t.verify]
               /\ t.verify \in DOMAIN verifies'
    BY <1>1, <1>3 DEF TokensAreEarned, Moved
  <2>2. CASE sessions' = sessions
    BY <1>1, <2>1, <2>2 DEF TokensAreEarned
  <2>3. CASE verifies[v].signed /\ sessions' = sessions \cup {token} /\ stage = "signedIn"
    <3>1. /\ v \in DOMAIN verifies' /\ verifies'[v].stage = "signedIn"
          /\ verifies'[v].signed /\ verifies'[v].account = token.account
          /\ verifies'[v].checkedAt <= token.iat /\ token.iat <= now
          /\ token.verify = v
      BY <1>1, <1>2, <1>3, <2>3 DEF Moved, FoundInTime, Taken
    <3> HIDE DEF token
    <3>. QED BY <1>1, <2>1, <2>3, <3>1 DEF TokensAreEarned
  <2>. QED BY <1>3, <2>2, <2>3
<1>10. ForgeryBurnsNothing'
  <2>1. \A u \in DOMAIN verifies : /\ verifies'[u].nonce = verifies[u].nonce
                                   /\ verifies'[u].ours = verifies[u].ours
    BY <1>3 DEF Moved
  <2>2. DOMAIN verifies' = DOMAIN verifies
    BY <1>3 DEF Moved
  <2>. QED BY <1>1, <2>1, <2>2 DEF ForgeryBurnsNothing, Nonces, exp
<1>11. SignedOutStaysOut'
  BY <1>1 DEF SignedOutStaysOut, accepts
<1>. QED
  BY <1>5, <1>6, <1>7, <1>8, <1>9, <1>10, <1>11

LEMMA SignOutStep ==
  ASSUME SignInIInv, NEW s \in Servers, NEW token \in sessions, SignOut(s, token)
  PROVE  SignInIInv'
<1>. USE DEF SignInIInv
<1> DEFINE cut == [account |-> token.account, at |-> now]
<1>1. /\ revokedAt' = [revokedAt EXCEPT ![s] =
                          {r \in @ : r.account # token.account} \cup {cut}]
      /\ signedOut' = [signedOut EXCEPT ![s] =
                          @ \cup {t \in sessions : t.account = token.account}]
      /\ UNCHANGED <<now, minted, redis, issued, verifies, sessions>>
  BY DEF SignOut
<1>2. /\ token.account \in Accounts /\ now \in 0 .. LastTick
      /\ revokedAt \in [Servers -> SUBSET [account : Accounts, at : 0 .. LastTick]]
      /\ signedOut \in [Servers -> SUBSET sessions]
  BY DEF SignInTypeOK, Session
<1>3. cut \in [account : Accounts, at : 0 .. LastTick]
  BY <1>2
<1>4. /\ revokedAt' \in [Servers -> SUBSET [account : Accounts, at : 0 .. LastTick]]
      /\ signedOut' \in [Servers -> SUBSET sessions]
  <2> HIDE DEF cut
  <2>. QED BY <1>1, <1>2, <1>3
<1>5. SignInTypeOK'
  BY <1>1, <1>4 DEF SignInTypeOK, Nonces
<1>6. /\ HeldWhereWritten' /\ BurntFromStores' /\ FoundInTime'
      /\ TokensAreEarned' /\ ForgeryBurnsNothing'
  BY <1>1 DEF HeldWhereWritten, BurntFromStores, FoundInTime, TokensAreEarned,
              ForgeryBurnsNothing, Left, Burnt, Nonces, exp
<1>7. SignedOutStaysOut'
  <2> SUFFICES ASSUME NEW r \in Servers, NEW t \in signedOut'[r], t.exp > now
               PROVE  \E c \in revokedAt'[r] : c.account = t.account /\ t.iat <= c.at
    BY <1>1 DEF SignedOutStaysOut, accepts, revoked
  <2>1. t.iat <= now
    BY <1>4 DEF TokensAreEarned
  <2>2. CASE r = s /\ t.account = token.account
    <3>1. cut \in revokedAt'[s] /\ cut.account = token.account /\ cut.at = now
      BY <1>1, <1>2
    <3>. QED BY <2>1, <2>2, <3>1
  <2>3. CASE ~(r = s /\ t.account = token.account)
    <3>1. t \in signedOut[r]
      BY <1>1, <1>2, <2>3
    <3>2. PICK c \in revokedAt[r] : c.account = t.account /\ t.iat <= c.at
      BY <3>1 DEF SignedOutStaysOut, accepts, revoked
    <3>3. c \in revokedAt'[r]
      BY <1>1, <1>2, <2>3, <3>2
    <3>. QED BY <3>2, <3>3
  <2>. QED BY <2>2, <2>3
<1>. QED
  BY <1>5, <1>6, <1>7

LEMMA RestartStep ==
  ASSUME SignInIInv, NEW s \in Servers, Restart(s)
  PROVE  SignInIInv'
<1>. USE DEF SignInIInv
<1> DEFINE after(stage) == CASE stage \in {"asked", "found"} -> "refused"
                             [] stage = "claimed" -> "burnt"
                             [] OTHER -> stage
           cut(v) == IF verifies[v].server # s THEN verifies[v]
                     ELSE [verifies[v] EXCEPT !.stage = after(verifies[v].stage)]
<1>1. /\ issued' = [issued EXCEPT ![s] = {}]
      /\ revokedAt' = [revokedAt EXCEPT ![s] = {}]
      /\ signedOut' = [signedOut EXCEPT ![s] = {}]
      /\ verifies' = [v \in DOMAIN verifies |-> cut(v)]
      /\ UNCHANGED <<now, minted, redis, sessions>>
  BY DEF Restart
<1>2. verifies \in Seq(Attempt) /\ \A v \in DOMAIN verifies : verifies[v] \in Attempt
  <2>1. verifies \in Seq(Attempt)
    BY DEF SignInTypeOK
  <2>. QED BY <2>1
<1>3. ASSUME NEW v \in DOMAIN verifies
      PROVE  /\ cut(v) \in Attempt
             /\ cut(v).nonce = verifies[v].nonce /\ cut(v).ours = verifies[v].ours
             /\ cut(v).account = verifies[v].account
             /\ cut(v).signed = verifies[v].signed
             /\ cut(v).checkedAt = verifies[v].checkedAt
             /\ \/ cut(v).stage = verifies[v].stage
                \/ verifies[v].stage \in {"asked", "found"} /\ cut(v).stage = "refused"
                \/ verifies[v].stage = "claimed" /\ cut(v).stage = "burnt"
  <2>1. verifies[v] \in Attempt
    BY <1>2
  <2>2. /\ after(verifies[v].stage) \in VerifyStages
        /\ \/ after(verifies[v].stage) = verifies[v].stage
           \/ /\ verifies[v].stage \in {"asked", "found"}
              /\ after(verifies[v].stage) = "refused"
           \/ verifies[v].stage = "claimed" /\ after(verifies[v].stage) = "burnt"
    BY <2>1 DEF Attempt, VerifyStages
  <2> HIDE DEF after
  <2>. QED BY <2>1, <2>2 DEF Attempt, VerifyStages
<1> HIDE DEF cut
<1>4. /\ DOMAIN verifies' = DOMAIN verifies
      /\ verifies' \in Seq(Attempt)
      /\ \A v \in DOMAIN verifies :
           /\ verifies'[v].nonce = verifies[v].nonce
           /\ verifies'[v].ours = verifies[v].ours
           /\ verifies'[v].account = verifies[v].account
           /\ verifies'[v].signed = verifies[v].signed
           /\ verifies'[v].checkedAt = verifies[v].checkedAt
           /\ verifies[v].stage \in Taken <=> verifies'[v].stage \in Taken
           /\ verifies'[v].stage = "found" => verifies[v].stage = "found"
           /\ verifies[v].stage = "signedIn" => verifies'[v].stage = "signedIn"
  <2>1. DOMAIN verifies = 1 .. Len(verifies) /\ Len(verifies) \in Nat
    BY <1>2
  <2>2. \A v \in DOMAIN verifies : verifies'[v] = cut(v) /\ cut(v) \in Attempt
    BY <1>1, <1>3
  <2>3. verifies' \in Seq(Attempt) /\ DOMAIN verifies' = DOMAIN verifies
    BY <1>1, <2>1, <2>2
  <2>. QED BY <1>3, <2>2, <2>3 DEF Taken
<1>5. /\ issued' \in [Servers -> SUBSET Nonces]
      /\ \A r \in Servers : issued'[r] \subseteq issued[r]
      /\ \A r \in Servers : issued'[r] = issued[r] \/ issued'[r] = {}
  BY <1>1 DEF SignInTypeOK
<1>6. SignInTypeOK'
  <2>1. \A r \in Servers : Cardinality(issued'[r]) <= MaxIssued
    <3> SUFFICES ASSUME NEW r \in Servers PROVE Cardinality(issued'[r]) <= MaxIssued
      OBVIOUS
    <3>1. CASE issued'[r] = {}
      <4>1. Cardinality(issued'[r]) = 0
        BY <3>1, FS_EmptySet
      <4>. QED BY <4>1, SignInAssumption
    <3>2. CASE issued'[r] = issued[r]
      BY <3>2 DEF SignInTypeOK
    <3>. QED BY <1>5, <3>1, <3>2
  <2>2. /\ revokedAt' \in [Servers -> SUBSET [account : Accounts, at : 0 .. LastTick]]
        /\ signedOut' \in [Servers -> SUBSET sessions']
    BY <1>1 DEF SignInTypeOK
  <2>3. Len(verifies') <= MaxVerifies
    BY <1>2, <1>4 DEF SignInTypeOK
  <2>. QED BY <1>1, <1>4, <1>5, <2>1, <2>2, <2>3 DEF SignInTypeOK, Nonces
<1>7. \A n : Left(n)' \subseteq Left(n)
  BY <1>1, <1>5 DEF Left
<1>8. HeldWhereWritten'
  BY <1>1, <1>5, <1>7 DEF HeldWhereWritten, Nonces
<1>9. BurntFromStores'
  <2> SUFFICES ASSUME NEW m \in Nonces
               PROVE  Cardinality(Burnt(m)') + Cardinality(Left(m)')
                        <= Cardinality(minted[m].stores)
    BY <1>1 DEF BurntFromStores, Nonces
  <2>1. Burnt(m)' = Burnt(m)
    BY <1>4 DEF Burnt
  <2>2. /\ IsFiniteSet(Burnt(m)) /\ IsFiniteSet(Left(m))
        /\ minted[m].stores \in SUBSET {"redis", "memory"}
        /\ Left(m)' \in SUBSET Left(m)
    BY <1>2, <1>7, TwoStores, BurntFinite, MintedType DEF Left
  <2>3. /\ Cardinality(Burnt(m)) \in Nat /\ Cardinality(Left(m)) \in Nat
        /\ Cardinality(Left(m)') \in Nat
        /\ Cardinality(Left(m)') <= Cardinality(Left(m))
        /\ Cardinality(minted[m].stores) \in Nat
    BY <2>2, FS_Subset, FS_CardinalityType, TwoStores
  <2>. QED BY <2>1, <2>3 DEF BurntFromStores
<1>10. FoundInTime'
  BY <1>1, <1>4 DEF FoundInTime, Nonces, exp
<1>11. TokensAreEarned'
  BY <1>1, <1>4 DEF TokensAreEarned
<1>12. ForgeryBurnsNothing'
  BY SMTT(30), <1>1, <1>4 DEF ForgeryBurnsNothing, Nonces, exp
<1>13. SignedOutStaysOut'
  <2>1. \A r \in Servers : \/ signedOut'[r] = {}
                           \/ signedOut'[r] = signedOut[r] /\ revokedAt'[r] = revokedAt[r]
    BY <1>1 DEF SignInTypeOK
  <2>. QED BY <1>1, <2>1 DEF SignedOutStaysOut, accepts
<1>. QED
  BY <1>6, <1>8, <1>9, <1>10, <1>11, <1>12, <1>13

LEMMA SignInTickStep == ASSUME SignInIInv, SignInTick PROVE SignInIInv'
<1>. USE DEF SignInIInv
<1>1. /\ now \in 0 .. LastTick /\ now' = now + 1 /\ now' \in 0 .. LastTick
      /\ UNCHANGED <<minted, redis, issued, verifies, sessions, revokedAt, signedOut>>
      /\ LastTick \in Nat
  BY SignInAssumption DEF SignInTick, SignInTypeOK
<1>2. SignInTypeOK'
  BY <1>1 DEF SignInTypeOK, Nonces
<1>3. HeldWhereWritten' /\ BurntFromStores'
  BY <1>1 DEF HeldWhereWritten, BurntFromStores, Left, Burnt, Nonces
<1>4. FoundInTime'
  <2>1. \A v \in DOMAIN verifies : verifies[v].checkedAt \in 0 .. LastTick
    <3>1. verifies \in Seq(Attempt)
      BY DEF SignInTypeOK
    <3>2. \A v \in DOMAIN verifies : verifies[v] \in Attempt
      BY <3>1
    <3>. QED BY <3>2 DEF Attempt
  <2>2. \A v \in DOMAIN verifies : verifies[v].checkedAt <= now => verifies[v].checkedAt <= now'
    BY <1>1, <2>1
  <2>. QED BY <1>1, <2>2 DEF FoundInTime, Nonces, exp
<1>5. TokensAreEarned'
  <2>1. \A t \in sessions : t.iat \in 0 .. LastTick
    BY DEF SignInTypeOK, Session
  <2>2. \A t \in sessions : t.iat <= now => t.iat <= now'
    BY <1>1, <2>1
  <2>. QED BY <1>1, <2>2 DEF TokensAreEarned
<1>6. ForgeryBurnsNothing'
  <2>1. \A n \in Nonces : exp(n) \in Nat
    BY MintedType
  <2>2. \A n \in Nonces : now' < exp(n) => now < exp(n)
    BY <1>1, <2>1
  <2>. QED BY <1>1, <2>2 DEF ForgeryBurnsNothing, Nonces, exp
<1>7. SignedOutStaysOut'
  <2>1. \A t \in sessions : t.exp \in Nat
    BY DEF SignInTypeOK, Session
  <2>2. \A t \in sessions : t.exp > now' => t.exp > now
    BY <1>1, <2>1
  <2>3. \A s \in Servers : signedOut[s] \subseteq sessions
    BY DEF SignInTypeOK
  <2>. QED BY <1>1, <2>2, <2>3 DEF SignedOutStaysOut, accepts
<1>. QED
  BY <1>2, <1>3, <1>4, <1>5, <1>6, <1>7

LEMMA SignInInitially == SignInInit => SignInIInv
<1> SUFFICES ASSUME SignInInit PROVE SignInIInv
  OBVIOUS
<1>. USE DEF SignInInit
<1>1. Nonces = {} /\ DOMAIN verifies = {}
  BY DEF Nonces
<1>2. SignInTypeOK
  BY <1>1, FS_EmptySet, SignInAssumption DEF SignInTypeOK
<1>. QED
  BY <1>1, <1>2 DEF SignInIInv, HeldWhereWritten, BurntFromStores, FoundInTime,
     TokensAreEarned, ForgeryBurnsNothing, SignedOutStaysOut

LEMMA SignInStep == SignInIInv /\ [SignInNext]_signInVars => SignInIInv'
<1> SUFFICES ASSUME SignInIInv, [SignInNext]_signInVars PROVE SignInIInv'
  OBVIOUS
<1>1. CASE UNCHANGED signInVars
  BY <1>1 DEF signInVars, SignInIInv, SignInTypeOK, HeldWhereWritten,
     BurntFromStores, FoundInTime, TokensAreEarned, ForgeryBurnsNothing,
     SignedOutStaysOut, accepts, Left, Burnt, Nonces, exp
<1>. QED
  BY <1>1, MintStep, ExpireStep, AskStep, ReadStep, ClaimStep,
     ClaimInMemoryStep,
     IssueStep, SignOutStep, RestartStep, SignInTickStep DEF SignInNext

\* SignIn.  A sign-in challenge is burnt at most once per store it was written
\* to, however many servers are asked at once, fail, restart or lose replies.
THEOREM ChallengesBurnOncePerStore == SignInSpec => []BurntOncePerStore
<1>1. ASSUME SignInIInv PROVE BurntOncePerStore
  <2> SUFFICES ASSUME NEW n \in Nonces
               PROVE  Cardinality(Burnt(n)) <= Cardinality(minted[n].stores)
    BY DEF BurntOncePerStore, Burnt, Taken
  <2>3. IsFiniteSet(Burnt(n))
    BY <1>1, BurntFinite DEF SignInIInv, SignInTypeOK
  <2>1. /\ Cardinality(Burnt(n)) \in Nat
        /\ Left(n) \in SUBSET {"redis", "memory"}
        /\ minted[n].stores \in SUBSET {"redis", "memory"}
    BY <1>1, <2>3, MintedType, FS_CardinalityType DEF SignInIInv, Left
  <2>2. Cardinality(Left(n)) \in Nat /\ Cardinality(minted[n].stores) \in Nat
    BY <2>1, TwoStores
  <2>. QED BY <1>1, <2>1, <2>2 DEF SignInIInv, BurntFromStores
<1>. QED
  BY <1>1, SignInInitially, SignInStep, PTL DEF SignInSpec

\* Every session was earned by answering a challenge of ours in time and is over
\* once its account signed out; nobody else's message uses a challenge up.
THEOREM SignInHolds == SignInSpec => []SignInInv
<1>1. SignInIInv => SignInInv
  BY DEF SignInIInv, SignInInv, SessionsAreEarned, TokensAreEarned,
     FoundInTime, Taken
<1>. QED
  BY <1>1, SignInInitially, SignInStep, PTL DEF SignInSpec
=============================================================================
