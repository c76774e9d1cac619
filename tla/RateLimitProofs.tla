-------------------------- MODULE RateLimitProofs ---------------------------
(***************************************************************************)
(* Proofs about RateLimit, for any rate, burst, keys, concurrent calls and *)
(* bounds.                                                                 *)
(***************************************************************************)
EXTENDS RateLimit, TLAPS

(* A key that has no bucket has been given nothing. *)
NothingBefore == \A l \in Labels \ DOMAIN bucket : granted[l] = 0

(* A call's reading, and so the time a bucket was last seen, is of the past. *)
ReadingsPast == \A c \in Callers : call[c].now <= clock

(* A tick after the time a key was told to come back, its bucket holds a   *)
(* token.                                                                  *)
PromiseFunded ==
  \A l \in Labels : promise[l] # None =>
    /\ l \in DOMAIN bucket
    /\ bucket[l].last < promise[l]
    /\ bucket[l].tokens + (promise[l] + 1 - bucket[l].last) * Rate >= Whole

IInv ==
  /\ TypeOK
  /\ NothingBefore
  /\ ReadingsPast
  /\ PromiseFunded
  /\ OnlySlipExceedsRate

-----------------------------------------------------------------------------
(* Arithmetic. *)

LEMMA Distributes ==
  \A a, b \in Int : (a + b) * Rate = a * Rate + b * Rate
  BY RateAssumption DEF RateAssumption

LEMMA Monotone ==
  \A a, b \in Int : a <= b => a * Rate <= b * Rate
  BY RateAssumption DEF RateAssumption

(* A wait cut to whole ticks falls short of what is missing by less than   *)
(* one of them.                                                            *)
LEMMA WaitAlmost ==
  ASSUME NEW tokens \in Nat
  PROVE  Wait(tokens) \in Int /\ tokens + (Wait(tokens) + 1) * Rate >= Whole
<1> DEFINE missing == Whole - tokens
<1>1. Rate \in Nat \ {0} /\ Whole \in Nat \ {0}
  BY RateAssumption DEF RateAssumption
<1>2. missing \in Int
  BY <1>1
<1> HIDE DEF missing
<1>3. missing \div Rate \in Int
  BY <1>1, <1>2
<1>4. missing < Rate * (missing \div Rate) + Rate
  BY <1>1, <1>2, SMTT(30)
<1>5. (missing \div Rate + 1) * Rate = Rate * (missing \div Rate) + Rate
  BY <1>1, <1>3
<1>6. Rate * (missing \div Rate) \in Int
  BY <1>1, <1>3
<1>7. (missing \div Rate + 1) * Rate >= missing
  BY <1>1, <1>2, <1>4, <1>5, <1>6
<1> QED
  BY <1>1, <1>3, <1>5, <1>6, <1>7 DEF Wait, missing

(* Rounding up to whole seconds never shortens the wait. *)
LEMMA RoundedUp ==
  ASSUME NEW tokens \in Nat
  PROVE  /\ RetryAfter(tokens) \in Nat \ {0}
         /\ Second * RetryAfter(tokens) \in Nat \ {0}
         /\ Second * RetryAfter(tokens) >= Wait(tokens)
<1> DEFINE wait == Wait(tokens)
           more == wait + Second - 1
           seconds == more \div Second
<1>1. Second \in Nat \ {0} /\ wait \in Int
  BY WaitAlmost, RateAssumption DEF RateAssumption
<1>2. RetryAfter(tokens) = IF seconds < 1 THEN 1 ELSE seconds
  BY DEF RetryAfter
<1> HIDE DEF wait
<1>3. more \in Int
  BY <1>1
<1>4. seconds \in Int /\ Second * seconds >= wait
  <2> HIDE DEF more
  <2>1. more \div Second \in Int
    BY <1>1, <1>3
  <2>2. more < Second * (more \div Second) + Second
    BY <1>1, <1>3, SMTT(30)
  <2> QED
    BY <1>1, <2>1, <2>2 DEF more
<1> HIDE DEF seconds
<1>5. RetryAfter(tokens) \in Nat \ {0} /\ RetryAfter(tokens) >= seconds
  BY <1>2, <1>4
<1>6. Second * RetryAfter(tokens) \in Nat \ {0}
  BY <1>1, <1>5
<1>7. Second * seconds <= Second * RetryAfter(tokens) /\ Second * seconds \in Int
  BY <1>1, <1>4, <1>5
<1> QED
  BY <1>1, <1>4, <1>5, <1>6, <1>7 DEF wait

(* Retry-After and a tick more is enough time for what is missing. *)
LEMMA RetryAfterEnough ==
  ASSUME NEW tokens \in Nat
  PROVE  /\ RetryAfter(tokens) \in Nat \ {0}
         /\ Second * RetryAfter(tokens) \in Nat \ {0}
         /\ tokens + (Second * RetryAfter(tokens) + 1) * Rate >= Whole
<1> DEFINE wait == Wait(tokens)
           told == Second * RetryAfter(tokens)
<1>1. wait \in Int /\ tokens + (wait + 1) * Rate >= Whole
  BY WaitAlmost
<1>2. RetryAfter(tokens) \in Nat \ {0} /\ told \in Nat \ {0} /\ told >= wait
  BY RoundedUp
<1> HIDE DEF wait, told
<1>3. (wait + 1) * Rate <= (told + 1) * Rate
  BY <1>1, <1>2, Monotone
<1>4. (wait + 1) * Rate \in Int /\ (told + 1) * Rate \in Int
  BY <1>1, <1>2, RateAssumption DEF RateAssumption
<1> QED
  BY <1>1, <1>2, <1>3, <1>4, RateAssumption DEF RateAssumption, told

-----------------------------------------------------------------------------
(* The burst is a whole number of tokens, at least one. *)
LEMMA BurstPositive == Burst \in Nat /\ Burst >= Whole
  BY RateAssumption DEF RateAssumption, Burst

(* A refill never takes tokens away nor goes over the burst. *)
LEMMA RefillBounds ==
  ASSUME NEW b \in Bucket, NEW now \in Nat
  PROVE  /\ Refilled(b, now) \in 0 .. Burst
         /\ b.tokens <= Refilled(b, now)
         /\ now <= b.last => Refilled(b, now) = b.tokens
         /\ now > b.last => Refilled(b, now) <= b.tokens + (now - b.last) * Rate
         /\ now > b.last /\ b.tokens + (now - b.last) * Rate >= Whole =>
              Refilled(b, now) >= Whole
<1>1. b.tokens \in 0 .. Burst /\ b.last \in Nat
  BY DEF Bucket
<1>2. (now - b.last) * Rate \in Int /\ (now > b.last => (now - b.last) * Rate >= 0)
  BY <1>1, RateAssumption DEF RateAssumption
<1> DEFINE refill == (now - b.last) * Rate
<1> HIDE DEF refill
<1>3. Refilled(b, now) = IF now <= b.last THEN b.tokens
                         ELSE IF b.tokens + refill > Burst THEN Burst ELSE b.tokens + refill
  BY DEF Refilled, refill
<1>4. refill \in Int /\ (now > b.last => refill >= 0)
  BY <1>2 DEF refill
<1>5. /\ Refilled(b, now) \in 0 .. Burst
      /\ b.tokens <= Refilled(b, now)
      /\ now <= b.last => Refilled(b, now) = b.tokens
      /\ now > b.last => Refilled(b, now) <= b.tokens + refill
      /\ now > b.last /\ b.tokens + refill >= Whole => Refilled(b, now) >= Whole
  BY <1>1, <1>3, <1>4, BurstPositive, RateAssumption DEF RateAssumption
<1> QED
  BY <1>5 DEF refill

(* A call finds a bucket, or makes a full one. *)
LEMMA FoundTyped ==
  ASSUME TypeOK, NEW l \in Labels, NEW now \in Nat
  PROVE  /\ Found(l, now) \in Bucket
         /\ l \in DOMAIN bucket => Found(l, now) = bucket[l]
         /\ l \notin DOMAIN bucket => Found(l, now) = [tokens |-> Burst, last |-> now]
  BY BurstPositive DEF TypeOK, Found, Bucket

(* What the critical section leaves in the bucket of l. *)
LEMMA Touched ==
  ASSUME NEW l \in Labels, NEW now \in Nat, NEW tokens \in 0 .. Burst, TypeOK,
         Touch(l, now, tokens)
  PROVE  /\ DOMAIN bucket' = DOMAIN bucket \cup {l}
         /\ bucket'[l] = [tokens |-> tokens, last |-> now]
         /\ \A k \in DOMAIN bucket \ {l} : bucket'[k] = bucket[k]
         /\ bucket' \in [DOMAIN bucket' -> Bucket]
         /\ born' \in [Labels -> Nat] /\ slip' \in [Labels -> Nat]
         /\ \A k \in Labels \ {l} : born'[k] = born[k] /\ slip'[k] = slip[k]
         /\ l \in DOMAIN bucket => born'[l] = born[l]
         /\ l \notin DOMAIN bucket => born'[l] = now /\ slip'[l] = slip[l]
<1>1. [tokens |-> tokens, last |-> now] \in Bucket
  BY DEF Bucket
<1>2. bucket' = [k \in DOMAIN bucket \cup {l} |->
                   IF k = l THEN [tokens |-> tokens, last |-> now] ELSE bucket[k]]
  BY DEF Touch, LastSeen
<1>3. Found(l, now).last \in Nat
  BY FoundTyped DEF Bucket
<1>4. slip' \in [Labels -> Nat] /\ \A k \in Labels \ {l} : slip'[k] = slip[k]
  BY <1>3 DEF Touch, TypeOK
<1>5. born' \in [Labels -> Nat]
  BY DEF Touch, TypeOK
<1>6. l \notin DOMAIN bucket => slip'[l] = slip[l]
  BY FoundTyped DEF Touch
<1> QED
  BY <1>1, <1>2, <1>4, <1>5, <1>6 DEF Touch, TypeOK

(* The account of a label after a refill, whichever way its clock reading   *)
(* went: the time it moved back is in slip, the time it moved on is refilled.*)
LEMMA RefillAccounted ==
  ASSUME TypeOK, NothingBefore, OnlySlipExceedsRate,
         NEW l \in Labels, NEW now \in Nat, NEW tokens \in 0 .. Burst, Touch(l, now, tokens)
  PROVE  Refilled(Found(l, now), now) + granted[l] * Whole
           <= Burst + (now - born'[l] + slip'[l]) * Rate
<1> DEFINE b == Found(l, now)
<1>1. b \in Bucket /\ b.tokens \in 0 .. Burst /\ b.last \in Nat
  BY FoundTyped DEF Bucket
<1>2. /\ born[l] \in Nat /\ slip[l] \in Nat /\ granted[l] \in Nat
      /\ born'[l] \in Nat /\ slip'[l] \in Nat
  BY Touched DEF TypeOK
<1>3. Burst \in Nat /\ granted[l] * Whole \in Nat
  BY <1>2, BurstPositive, RateAssumption DEF RateAssumption
<1>4. CASE l \notin DOMAIN bucket
  <2>1. b.tokens = Burst /\ b.last = now /\ born'[l] = now /\ granted[l] = 0
    <3>1. b = [tokens |-> Burst, last |-> now]
      BY <1>4, FoundTyped
    <3>2. born'[l] = now
      BY <1>4, Touched
    <3> QED
      BY <1>4, <3>1, <3>2 DEF NothingBefore
  <2>2. Refilled(b, now) = Burst
    BY <1>1, <2>1, RefillBounds
  <2>3. (now - born'[l] + slip'[l]) * Rate >= 0
    BY <1>2, <2>1, RateAssumption DEF RateAssumption
  <2> QED
    BY <1>2, <1>3, <2>1, <2>2, <2>3, RateAssumption DEF RateAssumption
<1>5. CASE l \in DOMAIN bucket
  <2>1. b = bucket[l] /\ born'[l] = born[l]
    BY <1>5, FoundTyped, Touched
  <2>2. b.tokens + granted[l] * Whole <= Burst + (b.last - born[l] + slip[l]) * Rate
    BY <1>5, <2>1 DEF OnlySlipExceedsRate
  <2>3. CASE now <= b.last
    <3>1. slip'[l] = slip[l] + (b.last - now)
      BY <1>1, <1>2, <2>3 DEF Touch, TypeOK
    <3>2. now - born'[l] + slip'[l] = b.last - born[l] + slip[l]
      BY <1>1, <1>2, <2>1, <3>1
    <3>3. Refilled(b, now) = b.tokens
      BY <1>1, <2>3, RefillBounds
    <3> QED
      BY <2>2, <3>2, <3>3
  <2>4. CASE now > b.last
    <3>1. slip'[l] = slip[l]
      BY <1>1, <1>2, <2>4 DEF Touch, TypeOK
    <3>2. Refilled(b, now) <= b.tokens + (now - b.last) * Rate /\ Refilled(b, now) \in Nat
      BY <1>1, <2>4, RefillBounds
    <3> DEFINE before == b.last - born[l] + slip[l]
               since == now - b.last
    <3>3. before \in Int /\ since \in Int /\ now - born'[l] + slip'[l] = before + since
      BY <1>1, <1>2, <2>1, <3>1
    <3>4. before * Rate \in Int /\ since * Rate \in Int
      BY <3>3, RateAssumption DEF RateAssumption
    <3>5. (before + since) * Rate = before * Rate + since * Rate
      BY <3>3, Distributes
    <3>6. b.tokens + granted[l] * Whole <= Burst + before * Rate
      BY <2>2
    <3>7. Refilled(b, now) <= b.tokens + since * Rate
      BY <3>2
    <3> HIDE DEF before, since, b
    <3>8. Refilled(b, now) + granted[l] * Whole <= Burst + (before * Rate + since * Rate)
      BY <1>1, <1>3, <3>2, <3>4, <3>6, <3>7
    <3> QED
      BY <3>3, <3>5, <3>8 DEF b
  <2> QED
    BY <1>1, <2>3, <2>4
<1> QED
  BY <1>4, <1>5

-----------------------------------------------------------------------------
(* A grant spends one token of the refilled bucket. *)
LEMMA GrantStep ==
  ASSUME RateAssumption, IInv, NEW c \in Callers, Grant(c)
  PROVE  IInv'
<1> DEFINE l == call[c].label
           now == call[c].now
           refilled == Refilled(Found(l, now), now)
<1>1. l \in Labels /\ now \in Nat
  BY DEF IInv, TypeOK
<1>2. refilled \in 0 .. Burst
  BY <1>1, FoundTyped, RefillBounds DEF IInv
<1>3. /\ refilled >= Whole
      /\ Touch(l, now, refilled - Whole)
      /\ granted' = [granted EXCEPT ![l] = @ + 1]
      /\ promise' = [promise EXCEPT ![l] = None]
      /\ pc' = [pc EXCEPT ![c] = "idle"]
      /\ call' = [call EXCEPT ![c].now = 0]
      /\ clock' = clock
  BY DEF Grant, Spent
<1> HIDE DEF l, now, refilled
<1>4. refilled - Whole \in 0 .. Burst
  BY <1>2, <1>3, BurstPositive, RateAssumption DEF RateAssumption
<1>5. /\ DOMAIN bucket' = DOMAIN bucket \cup {l}
      /\ bucket'[l] = [tokens |-> refilled - Whole, last |-> now]
      /\ \A k \in DOMAIN bucket \ {l} : bucket'[k] = bucket[k]
      /\ bucket' \in [DOMAIN bucket' -> Bucket]
      /\ born' \in [Labels -> Nat] /\ slip' \in [Labels -> Nat]
      /\ \A k \in Labels \ {l} : born'[k] = born[k] /\ slip'[k] = slip[k]
  BY <1>1, <1>3, <1>4, Touched DEF IInv
<1>6. TypeOK'
  <2>1. call' \in [Callers -> [label : Labels, now : Nat]]
    BY <1>3 DEF IInv, TypeOK
  <2>2. pc' \in [Callers -> {"idle", "lock"}]
    BY <1>3 DEF IInv, TypeOK
  <2>3. DOMAIN bucket' \subseteq Labels
    BY <1>1, <1>5 DEF IInv, TypeOK
  <2>4. granted' \in [Labels -> Nat] /\ promise' \in [Labels -> Nat \cup {None}]
    BY <1>1, <1>3 DEF IInv, TypeOK
  <2> QED
    BY <1>1, <1>3, <1>5, <2>1, <2>2, <2>3, <2>4 DEF IInv, TypeOK
<1>7. NothingBefore'
  BY <1>1, <1>3, <1>5 DEF IInv, TypeOK, NothingBefore
<1>8. ReadingsPast'
  BY <1>3 DEF IInv, TypeOK, ReadingsPast
<1>9. PromiseFunded'
  BY <1>1, <1>3, <1>5 DEF IInv, TypeOK, PromiseFunded
<1>10. OnlySlipExceedsRate'
  <2>1. refilled + granted[l] * Whole <= Burst + (now - born'[l] + slip'[l]) * Rate
    BY <1>1, <1>3, <1>4, RefillAccounted DEF IInv, refilled
  <2>2. granted'[l] * Whole = granted[l] * Whole + Whole /\ granted[l] * Whole \in Nat
    <3>1. granted[l] \in Nat /\ granted'[l] = granted[l] + 1
      BY <1>1, <1>3 DEF IInv, TypeOK
    <3> QED
      BY <3>1, RateAssumption DEF RateAssumption
  <2>3. (now - born'[l] + slip'[l]) * Rate \in Int
    BY <1>1, <1>5, RateAssumption DEF RateAssumption
  <2>4. (refilled - Whole) + granted'[l] * Whole
          <= Burst + (now - born'[l] + slip'[l]) * Rate
    BY <1>2, <2>1, <2>2, <2>3, BurstPositive, RateAssumption DEF RateAssumption
  <2>5. \A k \in DOMAIN bucket \ {l} : granted'[k] = granted[k] /\ k \in Labels
    BY <1>1, <1>3 DEF IInv, TypeOK
  <2> QED
    BY <1>5, <2>4, <2>5 DEF IInv, OnlySlipExceedsRate
<1> QED
  BY <1>6, <1>7, <1>8, <1>9, <1>10 DEF IInv

(* A refusal spends nothing and says when a token will be there. *)
LEMMA RefuseStep ==
  ASSUME RateAssumption, IInv, NEW c \in Callers, Refuse(c)
  PROVE  IInv'
<1> DEFINE l == call[c].label
           now == call[c].now
           refilled == Refilled(Found(l, now), now)
           wait == Second * RetryAfter(refilled)
<1>1. l \in Labels /\ now \in Nat /\ now <= clock /\ clock \in Nat
  BY DEF IInv, TypeOK, ReadingsPast
<1>2. refilled \in 0 .. Burst
  BY <1>1, FoundTyped, RefillBounds DEF IInv
<1>3. /\ Touch(l, now, refilled)
      /\ granted' = granted
      /\ promise' = [promise EXCEPT ![l] = clock + wait]
      /\ pc' = [pc EXCEPT ![c] = "idle"]
      /\ call' = [call EXCEPT ![c].now = 0]
      /\ clock' = clock
  BY DEF Refuse
<1>4. wait \in Nat \ {0} /\ refilled + (wait + 1) * Rate >= Whole
  BY <1>2, BurstPositive, RetryAfterEnough
<1> HIDE DEF l, now, refilled, wait
<1>5. /\ DOMAIN bucket' = DOMAIN bucket \cup {l}
      /\ bucket'[l] = [tokens |-> refilled, last |-> now]
      /\ \A k \in DOMAIN bucket \ {l} : bucket'[k] = bucket[k]
      /\ bucket' \in [DOMAIN bucket' -> Bucket]
      /\ born' \in [Labels -> Nat] /\ slip' \in [Labels -> Nat]
      /\ \A k \in Labels \ {l} : born'[k] = born[k] /\ slip'[k] = slip[k]
  BY <1>1, <1>2, <1>3, Touched DEF IInv
<1>6. TypeOK'
  <2>1. call' \in [Callers -> [label : Labels, now : Nat]]
    BY <1>3 DEF IInv, TypeOK
  <2>2. pc' \in [Callers -> {"idle", "lock"}]
    BY <1>3 DEF IInv, TypeOK
  <2>3. DOMAIN bucket' \subseteq Labels
    BY <1>1, <1>5 DEF IInv, TypeOK
  <2>4. granted' \in [Labels -> Nat] /\ promise' \in [Labels -> Nat \cup {None}]
    BY <1>1, <1>3, <1>4 DEF IInv, TypeOK
  <2> QED
    BY <1>1, <1>3, <1>5, <2>1, <2>2, <2>3, <2>4 DEF IInv, TypeOK
<1>7. NothingBefore'
  BY <1>1, <1>3, <1>5 DEF IInv, TypeOK, NothingBefore
<1>8. ReadingsPast'
  BY <1>3 DEF IInv, TypeOK, ReadingsPast
<1>9. PromiseFunded'
  <2>1. (wait + 1) * Rate <= (clock + wait + 1 - now) * Rate
    BY <1>1, <1>4, Monotone
  <2>2. (wait + 1) * Rate \in Int /\ (clock + wait + 1 - now) * Rate \in Int
    BY <1>1, <1>4, RateAssumption DEF RateAssumption
  <2>3. refilled + (clock + wait + 1 - now) * Rate >= Whole /\ now < clock + wait
    BY <1>1, <1>2, <1>4, <2>1, <2>2, BurstPositive, RateAssumption DEF RateAssumption
  <2>4. promise'[l] = clock + wait /\ \A k \in Labels \ {l} : promise'[k] = promise[k]
    BY <1>1, <1>3 DEF IInv, TypeOK
  <2>5. \A k \in Labels \ {l} : promise'[k] # None =>
          k \in DOMAIN bucket /\ bucket'[k] = bucket[k]
    BY <1>5, <2>4 DEF IInv, PromiseFunded
  <2>6. \A k \in Labels \ {l} : promise'[k] # None =>
          /\ k \in DOMAIN bucket'
          /\ bucket'[k].last < promise'[k]
          /\ bucket'[k].tokens + (promise'[k] + 1 - bucket'[k].last) * Rate >= Whole
    BY <1>5, <2>4, <2>5 DEF IInv, PromiseFunded
  <2>7. /\ l \in DOMAIN bucket'
        /\ bucket'[l].last < promise'[l]
        /\ bucket'[l].tokens + (promise'[l] + 1 - bucket'[l].last) * Rate >= Whole
    <3>1. l \in DOMAIN bucket' /\ bucket'[l].last = now /\ bucket'[l].tokens = refilled
      BY <1>5
    <3>2. promise'[l] + 1 - bucket'[l].last = clock + wait + 1 - now
      BY <1>1, <1>4, <2>4, <3>1
    <3>3. bucket'[l].last < promise'[l]
      BY <2>3, <2>4, <3>1
    <3>4. refilled + (promise'[l] + 1 - bucket'[l].last) * Rate >= Whole
      BY <2>3, <3>2
    <3>5. bucket'[l].tokens + (promise'[l] + 1 - bucket'[l].last) * Rate >= Whole
      BY <3>1, <3>4
    <3> QED
      BY <3>1, <3>3, <3>5
  <2> QED
    BY <2>6, <2>7 DEF PromiseFunded
<1>10. OnlySlipExceedsRate'
  <2>1. refilled + granted[l] * Whole <= Burst + (now - born'[l] + slip'[l]) * Rate
    BY <1>1, <1>2, <1>3, RefillAccounted DEF IInv, refilled
  <2>2. \A k \in DOMAIN bucket : k \in Labels
    BY DEF IInv, TypeOK
  <2> QED
    BY <1>3, <1>5, <2>1, <2>2 DEF IInv, OnlySlipExceedsRate
<1> QED
  BY <1>6, <1>7, <1>8, <1>9, <1>10 DEF IInv

(* Every step keeps the inductive invariant. *)
LEMMA IInvStep ==
  ASSUME RateAssumption, IInv, [Next]_vars
  PROVE  IInv'
<1>1. CASE Tick
  BY <1>1
     DEF Tick, IInv, TypeOK, NothingBefore, ReadingsPast, PromiseFunded, OnlySlipExceedsRate
<1>2. ASSUME NEW c \in Callers, ReadClock(c) PROVE IInv'
  <2>1. TypeOK' /\ ReadingsPast'
    BY <1>2 DEF ReadClock, IInv, TypeOK, ReadingsPast
  <2> QED
    BY <1>2, <2>1 DEF ReadClock, IInv, NothingBefore, PromiseFunded, OnlySlipExceedsRate
<1>3. ASSUME NEW c \in Callers, Grant(c) \/ Refuse(c) PROVE IInv'
  BY <1>3, GrantStep, RefuseStep
<1>4. CASE UNCHANGED vars
  BY <1>4
     DEF vars, IInv, TypeOK, NothingBefore, ReadingsPast, PromiseFunded, OnlySlipExceedsRate
<1> QED
  BY <1>1, <1>2, <1>3, <1>4 DEF Next

(* The inductive invariant holds of the initial state. *)
LEMMA IInvInit ==
  ASSUME RateAssumption, Init
  PROVE  IInv
<1>1. \A c \in Callers : call[c].now = 0
  BY DEF Init
<1> QED
  BY <1>1, RateAssumption DEF RateAssumption, Init, IInv, TypeOK, NothingBefore, ReadingsPast,
                              PromiseFunded, OnlySlipExceedsRate

(* The inductive invariant holds in every reachable state. *)
THEOREM Invariance == Spec => []IInv
<1>1. Init => IInv
  BY IInvInit, RateAssumption
<1>2. IInv /\ [Next]_vars => IInv'
  BY IInvStep, RateAssumption
<1> QED
  BY <1>1, <1>2, PTL DEF Spec

-----------------------------------------------------------------------------
(* No bucket ever holds more than the burst or less than nothing           *)
(* (ratelimit.go:102-116).                                                 *)
THEOREM Typing == Spec => []TypeOK
<1>1. IInv => TypeOK
  BY DEF IInv
<1> QED
  BY <1>1, Invariance, PTL

(* For any rate, burst and number of concurrent calls, what a key is given *)
(* beyond burst and refill is the refill of the time its clock readings    *)
(* went backwards, and nothing else (ratelimit.go:84-116).                 *)
THEOREM RateHolds == Spec => []OnlySlipExceedsRate
<1>1. IInv => OnlySlipExceedsRate
  BY DEF IInv
<1> QED
  BY <1>1, Invariance, PTL

(* Rounding Retry-After up is enough for every rate: a key that waits      *)
(* longer than told, if only by a tick, and is not used meanwhile, is      *)
(* served (router.go:152-163, ratelimit.go:118-122).                       *)
THEOREM PromiseKept == Spec => RetryAfterKept
<1> DEFINE Kept == \A c \in Callers :
                     Refuse(c) /\ promise[call[c].label] # None
                       => call[c].now <= promise[call[c].label]
<1>1. IInv => Kept
  <2> SUFFICES ASSUME IInv, NEW c \in Callers, Refuse(c), promise[call[c].label] # None,
                      ~(call[c].now <= promise[call[c].label])
               PROVE  FALSE
    OBVIOUS
  <2> DEFINE l == call[c].label
             now == call[c].now
             b == bucket[l]
  <2>1. l \in Labels /\ now \in Nat /\ promise[l] \in Nat /\ l \in DOMAIN bucket
    BY DEF IInv, TypeOK, PromiseFunded
  <2>2. b.last < promise[l] /\ b.tokens + (promise[l] + 1 - b.last) * Rate >= Whole
    BY <2>1 DEF IInv, PromiseFunded
  <2>3. b \in Bucket /\ Found(l, now) = b
    BY <2>1 DEF IInv, TypeOK, Found
  <2>4. b.last \in Nat /\ b.tokens \in Nat
    BY <2>3, BurstPositive DEF Bucket
  <2>5. Refilled(b, now) < Whole
    BY <2>3 DEF Refuse
  <2>6. now > b.last /\ promise[l] + 1 - b.last <= now - b.last
    BY <2>1, <2>2, <2>4
  <2>7. (promise[l] + 1 - b.last) * Rate <= (now - b.last) * Rate
    BY <2>1, <2>4, <2>6, Monotone
  <2>8. (promise[l] + 1 - b.last) * Rate \in Int /\ (now - b.last) * Rate \in Int
    BY <2>1, <2>4, RateAssumption DEF RateAssumption
  <2>9. b.tokens + (now - b.last) * Rate >= Whole
    BY <2>2, <2>4, <2>7, <2>8, RateAssumption DEF RateAssumption
  <2>10. Refilled(b, now) >= Whole /\ Refilled(b, now) \in Nat
    BY <2>1, <2>3, <2>6, <2>9, RefillBounds
  <2> QED
    BY <2>5, <2>10, RateAssumption DEF RateAssumption
<1>2. Kept => [Kept]_vars
  OBVIOUS
<1> QED
  BY <1>1, <1>2, Invariance, PTL DEF RetryAfterKept
=============================================================================
