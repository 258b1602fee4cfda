------------------------------- MODULE Throttler -------------------------------
(***************************************************************************)
(* The rate limit of one client on one route: ThrottlerGuard, which asks   *)
(* each named throttler in turn, and RedisThrottlerStorageService, whose   *)
(* counter and block are Redis keys that expire.  The requests are not     *)
(* told apart: `storing` counts those between two Redis calls.             *)
(***************************************************************************)
EXTENDS Naturals, Sequences, FiniteSetsExt

CONSTANTS
  Throttlers,   \* forRootAsync's throttlers: name, ttl and limit, in their order
  Decorated,    \* the throttlers that a route's @SkipThrottle() names, by route
  MaxHits,      \* bound: requests
  MaxRateTime   \* bound: time

\* SkipThrottle() without a name means "default"; so does the one of Throttle({ default:
\* ... }), which for that reason changes the limit of no throttler.
ASSUME ThrottlerAssumption ==
  /\ Throttlers \in Seq([name : STRING, ttl : Nat \ {0}, limit : Nat \ {0}])
  /\ \A r \in DOMAIN Decorated : Decorated[r] \subseteq STRING
  /\ MaxHits \in Nat /\ MaxRateTime \in Nat

VARIABLES
  route,       \* the route of the key
  storing,     \* requests in increment(), by throttler and by how far they are
  hits,        \* throttle:hits, a counter ...
  hitsUntil,   \* ... and when it expires
  blockUntil,  \* when throttle:block expires
  arrivals,    \* requests so far
  rateTime,    \* the clock
  passed,      \* history: requests that a throttler has counted and let through before a time
  refused      \* history: somebody got a 429

throttlerVars ==
  <<route, storing, hits, hitsUntil, blockUntil, arrivals, rateTime, passed, refused>>

Named == 1 .. Len(Throttlers)
Stage == {"asked", "unblocked", "over"}
Moment == 0 .. MaxRateTime + 1

ThrottlerTypeOK ==
  /\ route \in DOMAIN Decorated
  /\ storing \in [Named -> [Stage -> Nat]]
  /\ hits \in [Named -> Nat]
  /\ hitsUntil \in [Named -> Nat]
  /\ blockUntil \in [Named -> Nat]
  /\ arrivals \in 0 .. MaxHits
  /\ rateTime \in 0 .. MaxRateTime
  /\ passed \in [Named -> [Moment -> Nat]]
  /\ refused \in BOOLEAN

ThrottlerInit ==
  /\ route \in DOMAIN Decorated
  /\ storing = [k \in Named |-> [s \in Stage |-> 0]]
  /\ hits = [k \in Named |-> 0]
  /\ hitsUntil = [k \in Named |-> 0]
  /\ blockUntil = [k \in Named |-> 0]
  /\ arrivals = 0 /\ rateTime = 0 /\ refused = FALSE
  /\ passed = [k \in Named |-> [t \in Moment |-> 0]]

-----------------------------------------------------------------------------
\* The guard skips a throttler that the decorator names; the first one that it
\* does not skip comes next; 0 when the request is admitted.
FirstAfter(k) ==
  LET rest == {j \in Named : j > k /\ Throttlers[j].name \notin Decorated[route]}
  IN IF rest = {} THEN 0 ELSE Min(rest)

Enter(at, k) == IF k = 0 THEN at ELSE [at EXCEPT ![k]["asked"] = @ + 1]
Leave(at, k, s) == [at EXCEPT ![k][s] = @ - 1]

AskThrottler ==
  /\ arrivals < MaxHits
  /\ arrivals' = arrivals + 1
  /\ storing' = Enter(storing, FirstAfter(0))
  /\ UNCHANGED <<route, hits, hitsUntil, blockUntil, rateTime, passed, refused>>

\* PTTL of the block: who meets one is refused, and counted nowhere.
ReadBlock(k) ==
  /\ storing[k]["asked"] > 0
  /\ IF blockUntil[k] > rateTime
       THEN storing' = Leave(storing, k, "asked") /\ refused' = TRUE
       ELSE /\ storing' = [Leave(storing, k, "asked") EXCEPT ![k]["unblocked"] = @ + 1]
            /\ UNCHANGED refused
  /\ UNCHANGED <<route, hits, hitsUntil, blockUntil, arrivals, rateTime, passed>>

\* What INCR returns: a counter that has expired starts anew.
Incremented(k) == (IF hitsUntil[k] > rateTime THEN hits[k] ELSE 0) + 1

\* The requests after the INCR, and the record of who was let through.
Judge(k, total) ==
  LET left == Leave(storing, k, "unblocked")
  IN IF total > Throttlers[k].limit
       THEN storing' = [left EXCEPT ![k]["over"] = @ + 1] /\ UNCHANGED passed
       ELSE /\ storing' = Enter(left, FirstAfter(k))
            /\ passed' = [passed EXCEPT ![k] =
                 [t \in Moment |-> IF t > rateTime THEN @[t] + 1 ELSE @[t]]]

\* Mutant: the counter expires when its first hit does.
CountFirst(k) ==
  /\ storing[k]["unblocked"] > 0
  /\ hits' = [hits EXCEPT ![k] = Incremented(k)]
  /\ hitsUntil' = [hitsUntil EXCEPT
       ![k] = IF Incremented(k) = 1 THEN rateTime + Throttlers[k].ttl ELSE @]
  /\ Judge(k, Incremented(k))
  /\ UNCHANGED <<route, blockUntil, arrivals, rateTime, refused>>

\* INCR and PEXPIRE, sent together: every hit makes the counter live for another ttl.
CountHit(k) ==
  /\ storing[k]["unblocked"] > 0
  /\ hits' = [hits EXCEPT ![k] = Incremented(k)]
  /\ hitsUntil' = [hitsUntil EXCEPT ![k] = rateTime + Throttlers[k].ttl]
  /\ Judge(k, Incremented(k))
  /\ UNCHANGED <<route, blockUntil, arrivals, rateTime, refused>>

\* exec() does not throw for a command that failed: a missing count is taken for 1,
\* and the request goes on, whether Redis has counted it or not.
CountFails(k, applied) ==
  /\ storing[k]["unblocked"] > 0
  /\ storing' = Enter(Leave(storing, k, "unblocked"), FirstAfter(k))
  /\ IF applied
       THEN /\ hits' = [hits EXCEPT ![k] = Incremented(k)]
            /\ hitsUntil' = [hitsUntil EXCEPT ![k] = rateTime + Throttlers[k].ttl]
       ELSE UNCHANGED <<hits, hitsUntil>>
  /\ UNCHANGED <<route, blockUntil, arrivals, rateTime, passed, refused>>

\* Mutant: another ttl on top of what is left.
BlockLonger(k) ==
  /\ storing[k]["over"] > 0
  /\ storing' = Leave(storing, k, "over")
  /\ blockUntil' = [blockUntil EXCEPT
       ![k] = (IF @ > rateTime THEN @ ELSE rateTime) + Throttlers[k].ttl]
  /\ refused' = TRUE
  /\ UNCHANGED <<route, hits, hitsUntil, arrivals, rateTime, passed>>

\* SET of the block, for blockDuration, which is the ttl, and the 429.
Block(k) ==
  /\ storing[k]["over"] > 0
  /\ storing' = Leave(storing, k, "over")
  /\ blockUntil' = [blockUntil EXCEPT ![k] = rateTime + Throttlers[k].ttl]
  /\ refused' = TRUE
  /\ UNCHANGED <<route, hits, hitsUntil, arrivals, rateTime, passed>>

\* PTTL or SET throws, or the process dies: the request gets a 500.
LoseHit(k, s) ==
  /\ storing[k][s] > 0
  /\ storing' = Leave(storing, k, s)
  /\ UNCHANGED <<route, hits, hitsUntil, blockUntil, arrivals, rateTime, passed, refused>>

RateTick ==
  /\ rateTime < MaxRateTime
  /\ rateTime' = rateTime + 1
  /\ UNCHANGED <<route, storing, hits, hitsUntil, blockUntil, arrivals, passed, refused>>

ThrottlerNext ==
  \/ AskThrottler
  \/ \E k \in Named : ReadBlock(k) \/ CountHit(k) \/ Block(k)
  \/ \E k \in Named, sure \in BOOLEAN : CountFails(k, sure)
  \/ \E k \in Named, s \in Stage : LoseHit(k, s)
  \/ RateTick

ThrottlerSpec == ThrottlerInit /\ [][ThrottlerNext]_throttlerVars

-----------------------------------------------------------------------------
(* Correctness.                                                            *)

(***************************************************************************)
(* redis-throttler.storage.ts:23 "sliding hit counter": whenever a window  *)
(* of one ttl begins, and whatever requests and expiries interleave, a     *)
(* throttler lets no more requests through in it than its limit, besides   *)
(* those whose count it did not get; it is not twice the limit around the  *)
(* end of a fixed window.                                                  *)
(***************************************************************************)
RateHolds ==
  \A k \in Named : \A start, end \in Moment :
    start <= end /\ end <= start + Throttlers[k].ttl
      => passed[k][end] <= passed[k][start] + Throttlers[k].limit

(***************************************************************************)
(* redis-throttler.storage.ts:45-65: however many requests are over the    *)
(* limit together, and whatever is asked meanwhile, a client that then     *)
(* keeps quiet for one ttl is served again.                                *)
(***************************************************************************)
QuietIsEnough ==
  \A k \in Named : /\ blockUntil[k] <= rateTime + Throttlers[k].ttl
                   /\ hitsUntil[k] <= rateTime + Throttlers[k].ttl

-----------------------------------------------------------------------------
(* What the repository says of the program and the code does not do.       *)

(***************************************************************************)
(* stripe-webhook.controller.ts:29 "NEVER throttle the Stripe webhook":    *)
(* no delivery of Stripe is answered 429.                                  *)
(***************************************************************************)
WebhookIsNotThrottled == route = "webhook" => ~refused

(***************************************************************************)
(* redis-throttler.storage.ts: the limit holds, and it ends.               *)
(***************************************************************************)
RateLimitIsFair == RateHolds /\ QuietIsEnough

=============================================================================
