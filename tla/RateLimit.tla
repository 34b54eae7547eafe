------------------------------ MODULE RateLimit ------------------------------
(***************************************************************************)
(* The rate limiter in front of every endpoint that moves money or burns   *)
(* compute (lib/security/ratelimit.ts): one map of fixed windows in the    *)
(* memory of one server process, keyed by the address that the proxies in  *)
(* front of it saw.                                                        *)
(*                                                                         *)
(* Requests come through every proxy of the chain, each of which appends   *)
(* the address it saw to X-Forwarded-For; what stands before that the      *)
(* client wrote itself.  One endpoint; the keys of the others are further  *)
(* keys of the same map, with windows of the same length.                  *)
(***************************************************************************)
EXTENDS Integers, SequencesExt

CONSTANTS
  Clients,       \* addresses
  Proxies,       \* addresses of the proxies behind the first, in order
  TRUSTED_PROXY_HOPS,
  MaxForged,     \* bound: tokens a client writes into the header
  Limit, Window, \* requests in a window, and its length in ticks
  TicksPerSec,
  MaxBuckets,    \* size of the map past which it is swept
  MaxTime        \* bound: last tick

\* "Set TRUSTED_PROXY_HOPS to match your chain."
ASSUME RateLimitAssumption ==
  /\ Proxies \in Seq(Clients) /\ TRUSTED_PROXY_HOPS = Len(Proxies) + 1
  /\ {Limit, Window, TicksPerSec, MaxBuckets} \subseteq Nat \ {0}
  /\ {MaxForged, MaxTime} \subseteq Nat

VARIABLES
  clock,      \* Date.now
  buckets,    \* key -> requests counted, and when its window ends
  admissions, \* client -> times of its requests that passed (history)
  retryAt     \* client -> when it was told to come back; 0 when it was not

limitVars == <<clock, buckets, admissions, retryAt>>

empty == [key \in {} |-> 0]

LimitInit ==
  /\ clock = 0
  /\ buckets = empty
  /\ admissions = [c \in Clients |-> <<>>]
  /\ retryAt = [c \in Clients |-> 0]

\* The token that the outermost trusted proxy wrote.
clientIp_Leftmost(header) == header[1]
clientIp(header) ==
  LET idx == Len(header) - TRUSTED_PROXY_HOPS + 1
  IN  IF idx >= 1 THEN header[idx] ELSE header[1]

over(key) == key \notin DOMAIN buckets \/ buckets[key].resetAt <= clock

\* The map with a window begun, and swept when it has grown too large.
withWindow(key) ==
  [k \in DOMAIN buckets \cup {key} |->
     IF k = key THEN [count |-> 1, resetAt |-> clock + Window] ELSE buckets[k]]

swept(map) ==
  IF Cardinality(DOMAIN map) > MaxBuckets
  THEN [k \in {k \in DOMAIN map : map[k].resetAt > clock} |-> map[k]]
  ELSE map

exhausted(key) == buckets[key].count >= Limit

\* Seconds to wait, rounded up, at least one.
retryAfterSec(key) ==
  LET secs == (buckets[key].resetAt - clock + TicksPerSec - 1) \div TicksPerSec
  IN  IF secs < 1 THEN 1 ELSE secs

\* rateLimit for a request of client c, whose header began with forged.
Request(c, forged) ==
  LET key == clientIp(forged \o <<c>> \o Proxies)
      full == ~over(key) /\ exhausted(key)
  IN  /\ buckets' = IF full THEN buckets
                    ELSE IF over(key) THEN swept(withWindow(key))
                    ELSE [buckets EXCEPT ![key].count = @ + 1]
      /\ admissions' = IF full THEN admissions
                       ELSE [admissions EXCEPT ![c] = Append(@, clock)]
      /\ retryAt' = [retryAt EXCEPT ![c] =
           IF full THEN clock + retryAfterSec(key) * TicksPerSec ELSE 0]
      /\ UNCHANGED clock

\* A deploy starts with an empty map, and the history with it.
RestartLimiter ==
  /\ buckets' = empty
  /\ admissions' = [c \in Clients |-> <<>>]
  /\ retryAt' = [c \in Clients |-> 0]
  /\ UNCHANGED clock

PassTime ==
  /\ clock < MaxTime
  /\ clock' = clock + 1
  /\ UNCHANGED <<buckets, admissions, retryAt>>

LimitNext ==
  \/ \E c \in Clients, forged \in BoundedSeq(Clients, MaxForged) :
       Request(c, forged)
  \/ RestartLimiter
  \/ PassTime

LimitSpec == LimitInit /\ [][LimitNext]_limitVars

-----------------------------------------------------------------------------
(***************************************************************************)
(* Properties.                                                             *)
(***************************************************************************)
\* Fields have their types, and no window is counted past the limit.
LimitTypeOK ==
  /\ clock \in 0 .. MaxTime
  /\ DOMAIN buckets \subseteq Clients
  /\ \A key \in DOMAIN buckets :
       buckets[key] \in [count : 1 .. Limit, resetAt : 1 .. clock + Window]
  /\ admissions \in [Clients -> Seq(0 .. clock)]
  /\ retryAt \in [Clients -> 0 .. MaxTime + Window + TicksPerSec]

passed(c, from) == Cardinality({n \in 1 .. Len(admissions[c]) :
                     admissions[c][n] \in from .. from + Window - 1})

\* Fixed windows let a burst pass at the end of one and another at the start
\* of the next, and no more: whatever it writes into the header, a client gets
\* at most twice the limit through in any stretch as long as a window.
TwiceTheLimitAtMost ==
  \A c \in Clients, from \in 0 .. clock : passed(c, from) <= 2 * Limit

\* Nobody can use up the window of another: what is counted against an
\* address passed for it, within this window.
ChargedForOwnRequests ==
  \A key \in DOMAIN buckets :
    buckets[key].count = passed(key, buckets[key].resetAt - Window)

\* "with a retry-after hint": a client that was told to wait, waited and asked
\* nothing meanwhile is let through.
WaitingIsEnough ==
  \A c \in Clients : retryAt[c] # 0 /\ clock >= retryAt[c] => over(c)

\* "so the map can't grow unbounded under a spray of distinct keys": a map past
\* its size holds windows only that were live when the last one began.
OnlyLiveWindowsPastTheCap ==
  Cardinality(DOMAIN buckets) > MaxBuckets =>
    \A k, last \in DOMAIN buckets :
      buckets[k].resetAt > buckets[last].resetAt - Window

\* The limiter is bounded, in what it admits and in what it remembers, and fair
\* to each client.
LimitInv ==
  /\ LimitTypeOK
  /\ TwiceTheLimitAtMost
  /\ ChargedForOwnRequests
  /\ WaitingIsEnough
  /\ OnlyLiveWindowsPastTheCap
=============================================================================
