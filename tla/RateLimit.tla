----------------------------- MODULE RateLimit ------------------------------
(***************************************************************************)
(* ratelimit.Limiter: a token bucket for each API key, refilled lazily.    *)
(*                                                                         *)
(* Allow reads the clock before it takes l.mu, so two calls for one key    *)
(* may reach the bucket in the opposite order of their clock readings.     *)
(*                                                                         *)
(* Tokens are counted in fractions: Whole of them are one token, Rate of   *)
(* them are refilled per tick of the clock, Second ticks are one second.   *)
(* A tick is the resolution of time.Duration, a nanosecond.  What a        *)
(* Duration cannot hold is cut off; floating-point rounding is not         *)
(* modelled.  Rate = 0, which switches the limiter off, and the nil        *)
(* Limiter return before any state is touched and are left out.            *)
(***************************************************************************)
EXTENDS Integers

CONSTANTS
  Callers,    \* concurrent calls of Allow
  Labels,     \* the labels of the configured keys
  Rate,       \* ratePerSec, in fractions per tick
  Whole,      \* fractions in a token
  Second,     \* ticks in a second
  BurstArg,   \* the burst New is given, in tokens
  MaxClock,   \* bound on the clock
  MaxGrants   \* bound on the requests granted to a label

ASSUME RateAssumption ==
  /\ Rate \in Nat \ {0}
  /\ Whole \in Nat \ {0}
  /\ Second \in Nat \ {0}
  /\ BurstArg \in Int
  /\ MaxClock \in Nat
  /\ MaxGrants \in Nat

VARIABLES
  clock,
  bucket,     \* l.buckets
  pc,
  call,       \* the label and the clock reading of each call
  granted,    \* history: requests granted to each label
  born,       \* history: the clock reading a label's bucket was made with
  slip,       \* history: the time b.last was moved backwards, in all
  promise     \* history: when a label was last told it may come back

vars == <<clock, bucket, pc, call, granted, born, slip, promise>>

(* New raises a burst below 1 to 1. *)
Burst == Whole * (IF BurstArg < 1 THEN 1 ELSE BurstArg)

Bucket == [tokens : 0 .. Burst, last : Nat]

None == -1    \* no promise stands

(* Every variable has its type; a bucket never holds more than the burst   *)
(* and never less than nothing.                                            *)
TypeOK ==
  /\ clock \in Nat
  /\ DOMAIN bucket \subseteq Labels
  /\ bucket \in [DOMAIN bucket -> Bucket]
  /\ pc \in [Callers -> {"idle", "lock"}]
  /\ call \in [Callers -> [label : Labels, now : Nat]]
  /\ granted \in [Labels -> Nat]
  /\ born \in [Labels -> Nat]
  /\ slip \in [Labels -> Nat]
  /\ promise \in [Labels -> Nat \cup {None}]

-----------------------------------------------------------------------------
(* The bucket a call finds: a label seen for the first time starts full. *)
Found(l, now) ==
  IF l \in DOMAIN bucket THEN bucket[l] ELSE [tokens |-> Burst, last |-> now]

(* The tokens after the refill, capped at the burst, for elapsed time only. *)
RefilledUncapped(b, now) == IF now > b.last THEN b.tokens + (now - b.last) * Rate ELSE b.tokens
Refilled(b, now) ==
  LET more == b.tokens + (now - b.last) * Rate
  IN  IF now <= b.last THEN b.tokens ELSE IF more > Burst THEN Burst ELSE more

(* b.last: the reading of the call, even when it is the older one. *)
LastSeenNever(b, now) == b.last
LastSeen(b, now) == now

(* The token a granted request spends. *)
Spent(tokens) == tokens - Whole

(* The time to one whole token, cut to whole ticks. *)
Wait(tokens) == (Whole - tokens) \div Rate

(* Retry-After: the wait in whole seconds, rounded up, at least 1. *)
RetryAfterFloor(tokens) ==
  LET seconds == Wait(tokens) \div Second
  IN  IF seconds < 1 THEN 1 ELSE seconds
RetryAfter(tokens) ==
  LET seconds == (Wait(tokens) + Second - 1) \div Second
  IN  IF seconds < 1 THEN 1 ELSE seconds

-----------------------------------------------------------------------------
Init ==
  /\ clock = 0
  /\ bucket = [l \in {} |-> {}]
  /\ pc = [c \in Callers |-> "idle"]
  /\ call \in [Callers -> [label : Labels, now : {0}]]
  /\ granted = [l \in Labels |-> 0]
  /\ born = [l \in Labels |-> 0]
  /\ slip = [l \in Labels |-> 0]
  /\ promise = [l \in Labels |-> None]

Tick ==
  /\ clock < MaxClock
  /\ clock' = clock + 1
  /\ UNCHANGED <<bucket, pc, call, granted, born, slip, promise>>

(* now := l.now() *)
ReadClock(c) ==
  /\ pc[c] = "idle"
  /\ pc' = [pc EXCEPT ![c] = "lock"]
  /\ call' = [call EXCEPT ![c].now = clock]
  /\ UNCHANGED <<clock, bucket, granted, born, slip, promise>>

(* What the critical section does whether or not a token is there. *)
Touch(l, now, tokens) ==
  LET b == Found(l, now)
  IN  /\ bucket' = [k \in DOMAIN bucket \cup {l} |->
                      IF k = l THEN [tokens |-> tokens, last |-> LastSeen(b, now)]
                               ELSE bucket[k]]
      /\ born' = IF l \in DOMAIN bucket THEN born ELSE [born EXCEPT ![l] = now]
      /\ slip' = IF now < b.last THEN [slip EXCEPT ![l] = @ + b.last - now] ELSE slip

Grant(c) ==
  LET l == call[c].label
      tokens == Refilled(Found(l, call[c].now), call[c].now)
  IN  /\ pc[c] = "lock"
      /\ tokens >= Whole
      /\ granted[l] < MaxGrants
      /\ Touch(l, call[c].now, Spent(tokens))
      /\ granted' = [granted EXCEPT ![l] = @ + 1]
      /\ promise' = [promise EXCEPT ![l] = None]
      /\ pc' = [pc EXCEPT ![c] = "idle"]
      /\ call' = [call EXCEPT ![c].now = 0]
      /\ UNCHANGED clock

Refuse(c) ==
  LET l == call[c].label
      tokens == Refilled(Found(l, call[c].now), call[c].now)
  IN  /\ pc[c] = "lock"
      /\ tokens < Whole
      /\ Touch(l, call[c].now, tokens)
      /\ promise' = [promise EXCEPT ![l] = clock + Second * RetryAfter(tokens)]
      /\ pc' = [pc EXCEPT ![c] = "idle"]
      /\ call' = [call EXCEPT ![c].now = 0]
      /\ UNCHANGED <<clock, granted>>

Next == Tick \/ \E c \in Callers : ReadClock(c) \/ Grant(c) \/ Refuse(c)

Spec == Init /\ [][Next]_vars

-----------------------------------------------------------------------------
(* The most a key has been given is its burst, the refill since its first  *)
(* request, and the refill of the time that clock readings out of order    *)
(* made the bucket count twice: there is no other way past the limit       *)
(* (ratelimit.go:84-116).                                                  *)
OnlySlipExceedsRate ==
  \A l \in DOMAIN bucket :
    bucket[l].tokens + granted[l] * Whole
      <= Burst + (bucket[l].last - born[l] + slip[l]) * Rate

(* A key that stays away for longer than Retry-After told it, and that     *)
(* nobody else uses meanwhile, is not refused again.  Longer by a tick:    *)
(* the wait is cut to whole ticks before it is rounded up to seconds       *)
(* (router.go:152-163, ratelimit.go:118-122).                              *)
RetryAfterKept ==
  [][\A c \in Callers :
       LET l == call[c].label
       IN  Refuse(c) /\ promise[l] # None => call[c].now <= promise[l]]_vars

(* What ratelimit.go:53-54 says of New: perMinute sustained requests per   *)
(* key, with bucket capacity burst.                                        *)
SustainedRate ==
  \A l \in DOMAIN bucket : granted[l] * Whole <= Burst + (clock - born[l]) * Rate
=============================================================================
