-------------------------------- MODULE SignIn --------------------------------
(***************************************************************************)
(* Signing in with a wallet (apps/web/src/lib/auth/siwx.ts and the routes  *)
(* under app/api/auth).                                                    *)
(*                                                                         *)
(* A server mints a challenge, a wallet signs it, a server burns the       *)
(* challenge and issues a session token.  Challenges live in Redis when it *)
(* answers and in the memory of one server when it does not; every command *)
(* on Redis is a step of its own and can fail with or without having been  *)
(* applied.  Sessions are signed tokens that nobody stores; signing out    *)
(* records, in the memory of one server, when it happened.                 *)
(*                                                                         *)
(* Not covered: the domain in the message, the cookie, the strength of the *)
(* signatures.  The servers' clocks agree.                                 *)
(***************************************************************************)
EXTENDS Integers, Sequences, FiniteSets

CONSTANTS
  Servers,       \* instances of the web server
  Accounts,      \* accounts that sign in
  ChallengeTTL,  \* CHALLENGE_TTL_MS
  SessionTTL,    \* SESSION_TTL_MS
  MaxIssued,     \* MAX_ISSUED, challenges a server keeps in memory
  MaxMinted,     \* bound: challenges minted in one behaviour
  MaxVerifies,   \* bound: sign-ins attempted in one behaviour
  LastTick        \* bound: last tick of the clock

ASSUME SignInAssumption ==
  /\ ChallengeTTL \in Nat /\ SessionTTL \in Nat \ {0}
  /\ MaxIssued \in Nat \ {0}
  /\ MaxMinted \in Nat /\ MaxVerifies \in Nat /\ LastTick \in Nat

VARIABLES
  now,       \* Date.now()
  minted,    \* challenges so far: nonce -> [exp, stores it was written to]
  redis,     \* nonces of the challenges in Redis
  issued,    \* server -> nonces of the challenges in its memory
  verifies,  \* attempts to sign in so far
  sessions,  \* tokens issued so far
  revokedAt, \* server -> set with [account, at] for each account signed out
  signedOut  \* server -> the tokens a sign-out there was meant to end

signInVars == <<now, minted, redis, issued, verifies, sessions, revokedAt,
                signedOut>>

Nonces == DOMAIN minted
exp(n) == minted[n].exp

\* A message is the one composed with its nonce or another text around it.
Attempt == [server : Servers, nonce : 1 .. MaxMinted, ours : BOOLEAN,
           account : Accounts, signed : BOOLEAN, checkedAt : 0 .. LastTick,
           stage : {"asked", "found", "claimed", "signedIn", "burnt",
                    "refused"}]
Session == [account : Accounts, iat : 0 .. LastTick, exp : Nat,
            verify : 1 .. MaxVerifies]

SignInInit ==
  /\ now = 0
  /\ minted = <<>>
  /\ redis = {}
  /\ issued = [s \in Servers |-> {}]
  /\ verifies = <<>>
  /\ sessions = {}
  /\ revokedAt = [s \in Servers |-> {}]
  /\ signedOut = [s \in Servers |-> {}]

-----------------------------------------------------------------------------
(***************************************************************************)
(* createChallenge.                                                        *)
(***************************************************************************)
\* sweep drops what has expired.
unexpired(s) == {n \in issued[s] : exp(n) >= now}

\* The oldest entries make room for one more: what is kept is all there is, or
\* the newest that leave room.  Nonces count up, so newer is greater.
roomIn(q) ==
  {kept \in SUBSET q :
     /\ \A n \in kept, m \in q \ kept : m < n
     /\ Cardinality(kept) =
          IF Cardinality(q) < MaxIssued THEN Cardinality(q) ELSE MaxIssued - 1}

mint(stores) ==
  /\ Len(minted) < MaxMinted
  /\ minted' = Append(minted, [exp |-> now + ChallengeTTL, stores |-> stores])
  /\ UNCHANGED <<now, verifies, sessions, revokedAt, signedOut>>

MintInRedis ==
  /\ mint({"redis"})
  /\ redis' = redis \cup {Len(minted) + 1}
  /\ UNCHANGED issued

\* Redis is out of reach, or the write threw, applied or not.
MintInMemory(s) ==
  /\ \/ mint({"memory"}) /\ UNCHANGED redis
     \/ mint({"redis", "memory"}) /\ redis' = redis \cup {Len(minted) + 1}
  /\ \E kept \in roomIn(unexpired(s)) :
       issued' = [issued EXCEPT ![s] = kept \cup {Len(minted) + 1}]

\* PX counts from when the write arrives, at or after the challenge was made.
ExpireInRedis(n) ==
  /\ n \in redis /\ now >= exp(n)
  /\ redis' = redis \ {n}
  /\ UNCHANGED <<now, minted, issued, verifies, sessions, revokedAt,
                 signedOut>>

-----------------------------------------------------------------------------
(***************************************************************************)
(* POST /api/auth/verify: consumeNonce, then the signature, then the       *)
(* token.                                                                  *)
(***************************************************************************)
\* The signature is looked at for a message of ours only: one case of another
\* text stands for all.
Ask(s, n, ours, account, signed) ==
  /\ Len(verifies) < MaxVerifies
  /\ signed => ours
  /\ verifies' = Append(verifies,
       [server |-> s, nonce |-> n, ours |-> ours, account |-> account,
        signed |-> signed, checkedAt |-> 0, stage |-> "asked"])
  /\ UNCHANGED <<now, minted, redis, issued, sessions, revokedAt, signedOut>>

advanceTo(v, stage) == verifies' = [verifies EXCEPT ![v].stage = stage]
check(v, stage)     == verifies' = [verifies EXCEPT ![v].stage = stage,
                                                  ![v].checkedAt = now]

\* The message must be the challenge byte for byte; another text leaves the
\* entry where it is.
sameMessage(v) == verifies[v].ours

afterMismatch(v) == redis

\* GET answered.  An expired entry that PX has not removed yet is deleted.
ReadChallenge(v) ==
  LET n == verifies[v].nonce
  IN  /\ verifies[v].stage = "asked"
      /\ \/ /\ n \notin redis
            /\ advanceTo(v, "refused") /\ UNCHANGED redis
         \/ /\ n \in redis /\ exp(n) < now
            /\ redis' \in {redis, redis \ {n}}
            /\ advanceTo(v, "refused")
         \/ /\ n \in redis /\ exp(n) >= now /\ ~sameMessage(v)
            /\ redis' = afterMismatch(v)
            /\ advanceTo(v, "refused")
         \/ /\ n \in redis /\ exp(n) >= now /\ sameMessage(v)
            /\ check(v, "found") /\ UNCHANGED redis
      /\ UNCHANGED <<now, minted, issued, sessions, revokedAt, signedOut>>

\* DEL answered; the count it returns decides who claimed the entry.
claims_Always(n) == n \in Nonces
claims(n)        == n \in redis

ClaimChallenge(v) ==
  LET n == verifies[v].nonce
  IN  /\ verifies[v].stage = "found"
      /\ redis' = redis \ {n}
      /\ advanceTo(v, IF claims(n) THEN "claimed" ELSE "refused")
      /\ UNCHANGED <<now, minted, issued, sessions, revokedAt, signedOut>>

\* Redis is out of reach, or GET or DEL threw, DEL applied or not: the memory
\* of this server decides.
ClaimInMemory(v) ==
  LET n    == verifies[v].nonce
      s    == verifies[v].server
      live == unexpired(s)
  IN  /\ verifies[v].stage \in {"asked", "found"}
      /\ redis' \in {redis} \cup
           IF verifies[v].stage = "found" THEN {redis \ {n}} ELSE {}
      /\ IF n \in live /\ sameMessage(v)
         THEN /\ issued' = [issued EXCEPT ![s] = live \ {n}]
              /\ check(v, "claimed")
         ELSE /\ issued' = [issued EXCEPT ![s] = live]
              /\ advanceTo(v, "refused")
      /\ UNCHANGED <<now, minted, sessions, revokedAt, signedOut>>

\* The challenge is burnt whether or not the signature is good.
IssueSession(v) ==
  /\ verifies[v].stage = "claimed"
  /\ IF verifies[v].signed
     THEN /\ sessions' = sessions \cup
               {[account |-> verifies[v].account, iat |-> now,
                 exp |-> now + SessionTTL, verify |-> v]}
          /\ advanceTo(v, "signedIn")
     ELSE /\ advanceTo(v, "burnt")
          /\ UNCHANGED sessions
  /\ UNCHANGED <<now, minted, redis, issued, revokedAt, signedOut>>

-----------------------------------------------------------------------------
(***************************************************************************)
(* Sessions.                                                               *)
(***************************************************************************)
\* A token is dead at or before the cutoff, so one issued in the same
\* millisecond as the sign-out dies too.
revoked_Before(token, cutoff) == token.iat < cutoff
revoked(token, cutoff)        == token.iat <= cutoff

accepts(s, token) ==
  /\ token.exp > now
  /\ \A r \in revokedAt[s] : r.account = token.account => ~revoked(token, r.at)

\* DELETE /api/auth/session with a token that is still good.
SignOut(s, token) ==
  /\ accepts(s, token)
  /\ revokedAt' = [revokedAt EXCEPT ![s] =
       {r \in @ : r.account # token.account}
         \cup {[account |-> token.account, at |-> now]}]
  /\ signedOut' = [signedOut EXCEPT ![s] =
       @ \cup {t \in sessions : t.account = token.account}]
  /\ UNCHANGED <<now, minted, redis, issued, verifies, sessions>>

\* A server restarts: its memory and its unanswered requests are gone.
Restart(s) ==
  /\ issued' = [issued EXCEPT ![s] = {}]
  /\ revokedAt' = [revokedAt EXCEPT ![s] = {}]
  /\ signedOut' = [signedOut EXCEPT ![s] = {}]
  /\ verifies' = [v \in DOMAIN verifies |->
       IF verifies[v].server # s THEN verifies[v]
       ELSE [verifies[v] EXCEPT !.stage =
               CASE @ \in {"asked", "found"} -> "refused"
                 [] @ = "claimed"            -> "burnt"
                 [] OTHER                    -> @]]
  /\ UNCHANGED <<now, minted, redis, sessions>>

SignInTick ==
  /\ now < LastTick
  /\ now' = now + 1
  /\ UNCHANGED <<minted, redis, issued, verifies, sessions, revokedAt,
                 signedOut>>

SignInNext ==
  \/ MintInRedis
  \/ \E s \in Servers : MintInMemory(s)
  \/ \E n \in Nonces : ExpireInRedis(n)
  \/ \E s \in Servers, n \in Nonces, ours \in BOOLEAN, account \in Accounts,
        signed \in BOOLEAN : Ask(s, n, ours, account, signed)
  \/ \E v \in DOMAIN verifies : ReadChallenge(v)
  \/ \E v \in DOMAIN verifies : ClaimChallenge(v)
  \/ \E v \in DOMAIN verifies : ClaimInMemory(v)
  \/ \E v \in DOMAIN verifies : IssueSession(v)
  \/ \E s \in Servers, token \in sessions : SignOut(s, token)
  \/ \E s \in Servers : Restart(s)
  \/ SignInTick

SignInSpec == SignInInit /\ [][SignInNext]_signInVars

-----------------------------------------------------------------------------
(***************************************************************************)
(* Properties.                                                             *)
(***************************************************************************)
\* Every field has its type; a server keeps at most MaxIssued challenges in
\* memory.
SignInTypeOK ==
  /\ now \in 0 .. LastTick
  /\ minted \in Seq([exp : Nat, stores : SUBSET {"redis", "memory"}])
  /\ Len(minted) <= MaxMinted
  /\ redis \subseteq Nonces
  /\ issued \in [Servers -> SUBSET Nonces]
  /\ \A s \in Servers : Cardinality(issued[s]) <= MaxIssued
  /\ verifies \in Seq(Attempt) /\ Len(verifies) <= MaxVerifies
  /\ sessions \subseteq Session
  /\ revokedAt \in [Servers -> SUBSET [account : Accounts, at : 0 .. LastTick]]
  /\ signedOut \in [Servers -> SUBSET sessions]

\* "single-use is enforced atomically across them": a challenge is burnt at
\* most once in each store it was written to, whichever servers are asked,
\* however their commands interleave and whichever replies are lost.  A write
\* to Redis that was applied without an answer leaves it in two stores.
BurntOncePerStore ==
  \A n \in Nonces :
    Cardinality({v \in DOMAIN verifies :
                   /\ verifies[v].nonce = n
                   /\ verifies[v].stage \in {"claimed", "signedIn", "burnt"}})
      <= Cardinality(minted[n].stores)

\* "verify can insist the wallet signed OUR challenge": a token is issued only
\* to the signer of a challenge of ours, found in time.
SessionsAreEarned ==
  \A t \in sessions :
    LET v == verifies[t.verify]
    IN  /\ v.ours /\ v.signed /\ v.account = t.account
        /\ v.checkedAt <= exp(v.nonce) /\ v.checkedAt <= t.iat

\* "the genuine challenge survives an attacker's recomposed body": until it
\* expires, only a message with the challenge itself can use up what Redis
\* holds.
ForgeryBurnsNothing ==
  \A n \in Nonces :
    /\ "redis" \in minted[n].stores
    /\ now < exp(n)
    /\ \A v \in DOMAIN verifies : verifies[v].nonce = n => ~verifies[v].ours
    => n \in redis

\* "Invalidate every session issued for this account before now": as long as
\* the server that signed an account out runs, it accepts none of the tokens
\* of that account issued until then, also of the same tick.
SignedOutStaysOut ==
  \A s \in Servers : \A t \in signedOut[s] : ~accepts(s, t)

\* Sessions come from challenges that were answered in time, last until they
\* are signed out, and nobody can take another's challenge away.
SignInInv ==
  SignInTypeOK /\ SessionsAreEarned /\ ForgeryBurnsNothing /\ SignedOutStaysOut
=============================================================================
