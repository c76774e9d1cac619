--------------------------- MODULE SessionProofs ----------------------------
(* Theorems about Session, for any labels, secrets, TTL and clock. *)
EXTENDS Session, TLAPS

(* What holds of every cookie out there: it was signed, whole, with some   *)
(* secret, and expires TTL after it was minted, rounded down to a second.  *)
CookiesMinted ==
  \A c \in cookies :
    /\ c.at <= clock
    /\ c.exp = Expiry(c.at)
    /\ c.sig = Sign(c.label, c.exp, c.sig.secret)

(* Only sets that Load accepted have ever been in force. *)
SetsLoaded == Distinct(keys) /\ Distinct(before)

(* A request that is let in has a label and a key.                         *)
LetInNamed == LetIn => answer.label \in Labels /\ answer.secret \in Secrets

IInv == TypeOK /\ CookiesMinted /\ SetsLoaded /\ LetInNamed /\ CurrentKeysOnly /\ CookieLasts

-----------------------------------------------------------------------------
(* Rounding an expiry down to a second loses less than a second.           *)
LEMMA Rounding ==
  ASSUME NEW now \in Nat
  PROVE  /\ Expiry(now) \in Nat
         /\ Expiry(now) * Second \in Nat
         /\ Expiry(now) * Second <= now + TTL
         /\ now + TTL < Expiry(now) * Second + Second
<1> DEFINE x == now + TTL
<1>1. x \in Nat /\ Second \in Nat \ {0}
  BY SessionAssumption DEF SessionAssumption
<1> HIDE DEF x
<1>2. x \div Second \in Nat /\ x % Second \in 0 .. Second - 1
  BY <1>1
<1>3. x = Second * (x \div Second) + (x % Second)
  BY <1>1
<1>4. /\ (x \div Second) * Second \in Nat
      /\ (x \div Second) * Second <= x
      /\ x < (x \div Second) * Second + Second
  BY <1>1, <1>2, <1>3
<1>5. Expiry(now) = x \div Second
  BY DEF Expiry, x
<1> QED
  BY <1>2, <1>4, <1>5 DEF x

(* In a set whose secrets are distinct, Lookup finds the one label.        *)
LEMMA LookupFinds ==
  ASSUME NEW s \in Secrets, Known(s)
  PROVE  Lookup(s) \in Labels /\ keys[Lookup(s)] = s
BY DEF Known, Lookup

-----------------------------------------------------------------------------
LEMMA InitInv == Init => IInv
BY SessionAssumption DEF SessionAssumption, Init, IInv, TypeOK, CookiesMinted, SetsLoaded,
   LetInNamed, CurrentKeysOnly, CookieLasts, LetIn, NoKeys, NoAnswer, KeySets, Distinct

(* A step that serves no request. *)
LEMMA NoRequestStep ==
  ASSUME IInv, answer' = NoAnswer,
         TypeOK', CookiesMinted', SetsLoaded'
  PROVE  IInv'
BY DEF IInv, LetInNamed, CurrentKeysOnly, CookieLasts, LetIn, NoAnswer

LEMMA OperatorStep ==
  ASSUME IInv, EditEnv \/ Start \/ Stop
  PROVE  IInv'
<1> USE SessionAssumption DEF SessionAssumption, IInv
<1>1. answer' = NoAnswer /\ UNCHANGED <<clock, cookies>>
  BY DEF EditEnv, Start, Stop
<1>2. NoAnswer \in [kind : {"none", "forward", "redirect", "reject"}, label : Labels \cup {None},
                    secret : Secrets \cup {None}, cookie : Cookies \cup {None}]
  BY DEF NoAnswer
<1>3. env' \in KeySets /\ keys' \in KeySets /\ before' \in KeySets
      /\ \A l \in Labels : keys'[l] \notin Short
  BY DEF TypeOK, EditEnv, Start, Stop, Loads, KeySets, NoKeys
<1>4. TypeOK'
  BY <1>1, <1>2, <1>3 DEF TypeOK
<1>5. CookiesMinted'
  BY <1>1 DEF CookiesMinted
<1>6. SetsLoaded'
  BY DEF SetsLoaded, EditEnv, Start, Stop, Loads, Distinct, NoKeys
<1> QED
  BY <1>1, <1>4, <1>5, <1>6, NoRequestStep

LEMMA PassiveStep ==
  ASSUME IInv, ForgetCookie \/ Tick
  PROVE  IInv'
<1> USE SessionAssumption DEF SessionAssumption, IInv
<1>1. answer' = NoAnswer /\ UNCHANGED <<env, keys, before>>
  BY DEF ForgetCookie, Tick
<1>2. cookies' \subseteq cookies /\ clock' \in Nat /\ clock' >= clock
  BY DEF ForgetCookie, Tick, TypeOK
<1>3. NoAnswer \in [kind : {"none", "forward", "redirect", "reject"}, label : Labels \cup {None},
                    secret : Secrets \cup {None}, cookie : Cookies \cup {None}]
  BY DEF NoAnswer
<1>4. TypeOK'
  BY <1>1, <1>2, <1>3 DEF TypeOK
<1>5. CookiesMinted'
  <2> SUFFICES ASSUME NEW c \in cookies'
               PROVE  c.at <= clock' /\ c.exp = Expiry(c.at)
                      /\ c.sig = Sign(c.label, c.exp, c.sig.secret)
    BY DEF CookiesMinted, Expiry, Sign
  <2>1. c \in cookies /\ c.at \in Nat
    BY <1>2 DEF TypeOK, Cookies
  <2> QED
    BY <1>2, <2>1 DEF CookiesMinted, TypeOK
<1>6. SetsLoaded'
  BY <1>1 DEF SetsLoaded, Distinct
<1> QED
  BY <1>1, <1>4, <1>5, <1>6, NoRequestStep

(* A request that leaves everything but its answer alone. *)
LEMMA Untouched ==
  ASSUME IInv, UNCHANGED <<clock, env, keys, before, cookies>>
  PROVE  CookiesMinted' /\ SetsLoaded'
BY DEF IInv, CookiesMinted, SetsLoaded, Distinct

LEMMA BearerStep ==
  ASSUME IInv, NEW s \in Secrets, BearerAccepted(s) \/ BearerRejected(s)
  PROVE  IInv'
<1>1. Trim[s] \in Secrets
  BY SessionAssumption DEF SessionAssumption
<1>2. UNCHANGED <<clock, env, keys, before, cookies>>
  BY DEF BearerAccepted, BearerRejected
<1>3. CASE BearerAccepted(s)
  <2>1. Lookup(Trim[s]) \in Labels /\ keys[Lookup(Trim[s])] = Trim[s]
    BY <1>1, <1>3, LookupFinds DEF BearerAccepted
  <2>2. answer' = [kind |-> "forward", label |-> Lookup(Trim[s]), secret |-> Trim[s],
                   cookie |-> None]
    BY <1>3 DEF BearerAccepted, Answer
  <2>3. TypeOK'
    BY <1>1, <1>2, <2>1, <2>2 DEF IInv, TypeOK
  <2>4. LetInNamed' /\ CurrentKeysOnly' /\ CookieLasts'
    BY <1>1, <1>2, <2>1, <2>2 DEF LetInNamed, CurrentKeysOnly, CookieLasts
  <2> QED
    BY <1>2, <2>3, <2>4, Untouched DEF IInv
<1>4. CASE BearerRejected(s)
  <2>1. answer' = [kind |-> "reject", label |-> None, secret |-> Trim[s], cookie |-> None]
    BY <1>4 DEF BearerRejected, Answer
  <2>2. TypeOK'
    BY <1>1, <1>2, <2>1 DEF IInv, TypeOK
  <2>3. LetInNamed' /\ CurrentKeysOnly' /\ CookieLasts'
    BY <2>1 DEF LetInNamed, CurrentKeysOnly, CookieLasts, LetIn
  <2> QED
    BY <1>2, <2>2, <2>3, Untouched DEF IInv
<1> QED
  BY <1>3, <1>4

LEMMA CookieStep ==
  ASSUME IInv, NEW c \in cookies, CookieAccepted(c)
  PROVE  IInv'
<1>1. UNCHANGED <<clock, env, keys, before, cookies>>
  BY DEF CookieAccepted
<1>2. /\ c \in Cookies /\ c.label \in Labels /\ c.at \in Nat /\ c.exp \in Nat
      /\ c.sig.secret \in Secrets /\ clock \in Nat
  BY DEF IInv, TypeOK, Cookies, Signatures
<1>3. answer' = [kind |-> "forward", label |-> c.label, secret |-> c.sig.secret, cookie |-> c]
  BY DEF CookieAccepted, Answer
<1>4. keys[c.label] = c.sig.secret /\ clock < c.exp * Second
  BY DEF CookieAccepted, Verify, Sign
<1>5. c.exp = Expiry(c.at)
  BY DEF IInv, CookiesMinted
<1>6. clock - c.at < TTL
  BY <1>2, <1>4, <1>5, Rounding, SessionAssumption DEF SessionAssumption
<1>7. TypeOK'
  BY <1>1, <1>2, <1>3 DEF IInv, TypeOK
<1>8. LetInNamed' /\ CurrentKeysOnly' /\ CookieLasts'
  BY <1>1, <1>2, <1>3, <1>4, <1>6 DEF LetInNamed, CurrentKeysOnly, CookieLasts
<1> QED
  BY <1>1, <1>7, <1>8, Untouched DEF IInv

LEMMA KeyStep ==
  ASSUME IInv, NEW c \in cookies \cup {None}, NEW s \in Secrets, KeyAccepted(c, s)
  PROVE  IInv'
<1> DEFINE l == Lookup(s)
           minted == Mint(l, clock)
<1>1. l \in Labels /\ keys[l] = s /\ clock \in Nat
  BY LookupFinds DEF KeyAccepted, IInv, TypeOK
<1>2. /\ minted = [label |-> l, exp |-> Expiry(clock), sig |-> Sign(l, Expiry(clock), s),
                   at |-> clock]
      /\ Expiry(clock) \in Nat
  BY <1>1, Rounding DEF Mint
<1>3. minted \in Cookies
  BY <1>1, <1>2 DEF Cookies, Signatures, Sign
<1>4. /\ cookies' = (cookies \ {c}) \cup {minted}
      /\ answer' = [kind |-> "redirect", label |-> l, secret |-> s, cookie |-> None]
      /\ UNCHANGED <<clock, env, keys, before>>
  BY <1>2 DEF KeyAccepted, Answer
<1>5. TypeOK'
  BY <1>1, <1>3, <1>4 DEF IInv, TypeOK
<1>6. minted.at = clock /\ minted.exp = Expiry(minted.at)
      /\ minted.sig = Sign(minted.label, minted.exp, minted.sig.secret)
  BY <1>2 DEF Sign
<1> HIDE DEF l, minted
<1>7. CookiesMinted'
  <2> SUFFICES ASSUME NEW d \in cookies'
               PROVE  d.at <= clock /\ d.exp = Expiry(d.at)
                      /\ d.sig = Sign(d.label, d.exp, d.sig.secret)
    BY <1>4 DEF CookiesMinted, Expiry, Sign
  <2>1. CASE d = minted
    BY <1>1, <1>6, <2>1
  <2>2. CASE d \in cookies
    BY <2>2 DEF IInv, CookiesMinted
  <2> QED
    BY <1>4, <2>1, <2>2
<1>8. SetsLoaded'
  BY <1>4 DEF IInv, SetsLoaded, Distinct
<1>9. LetInNamed' /\ CurrentKeysOnly' /\ CookieLasts'
  BY <1>1, <1>4 DEF LetInNamed, CurrentKeysOnly, CookieLasts
<1> QED
  BY <1>5, <1>7, <1>8, <1>9 DEF IInv

LEMMA RejectStep ==
  ASSUME IInv, NEW c \in cookies \cup {None}, NEW s \in Secrets \cup {None}, Rejected(c, s)
  PROVE  IInv'
<1>1. UNCHANGED <<clock, env, keys, before, cookies>>
  BY DEF Rejected
<1>2. answer' = [kind |-> "reject", label |-> None, secret |-> s, cookie |-> c]
  BY DEF Rejected, Answer
<1>3. TypeOK'
  BY <1>1, <1>2 DEF IInv, TypeOK
<1>4. CookieLasts'
  <2> SUFFICES ASSUME c # None, keys[c.label] = c.sig.secret
               PROVE  clock - c.at > TTL - Second
    BY <1>1, <1>2 DEF CookieLasts
  <2>1. c \in cookies /\ c.at \in Nat /\ c.exp \in Nat /\ c.sig.secret \in Secrets /\ clock \in Nat
    BY DEF IInv, TypeOK, Cookies, Signatures
  <2>2. keys[c.label] # None
    BY <2>1, SessionAssumption DEF SessionAssumption
  <2>3. c.exp = Expiry(c.at) /\ c.sig = Sign(c.label, c.exp, keys[c.label])
    BY <2>1 DEF IInv, CookiesMinted
  <2>4. ~(clock < c.exp * Second)
    BY <2>2, <2>3 DEF Rejected, Stale, Verify
  <2> QED
    BY <2>1, <2>3, <2>4, Rounding, SessionAssumption DEF SessionAssumption
<1>5. LetInNamed' /\ CurrentKeysOnly'
  BY <1>2 DEF LetInNamed, CurrentKeysOnly, LetIn
<1> QED
  BY <1>1, <1>3, <1>4, <1>5, Untouched DEF IInv

LEMMA StepInv == IInv /\ [Next]_vars => IInv'
<1> SUFFICES ASSUME IInv, [Next]_vars PROVE IInv'
  OBVIOUS
<1>1. CASE EditEnv \/ Start \/ Stop
  BY <1>1, OperatorStep
<1>2. CASE ForgetCookie \/ Tick
  BY <1>2, PassiveStep
<1>3. CASE Request
  BY <1>3, BearerStep, CookieStep, KeyStep, RejectStep DEF Request
<1>4. CASE UNCHANGED vars
  BY <1>4 DEF vars, IInv, TypeOK, CookiesMinted, SetsLoaded, Distinct, LetInNamed,
     CurrentKeysOnly, CookieLasts, LetIn
<1> QED
  BY <1>1, <1>2, <1>3, <1>4 DEF Next

-----------------------------------------------------------------------------
(* The inductive invariant holds in every reachable state.                 *)
THEOREM Invariance == Spec => []IInv
BY InitInv, StepInv, PTL DEF Spec

(* Every variable keeps its type, and no short key is ever in force        *)
(* (keys.go:48-50).                                                        *)
THEOREM Typing == Spec => []TypeOK
<1>1. IInv => TypeOK
  BY DEF IInv
<1> QED
  BY <1>1, Invariance, PTL

(* Whoever is let in has a key that is in force, and cookies end at TTL,   *)
(* over any number of restarts and edits of the keys (token.go:45-61).     *)
THEOREM OnlyCurrentKeys == Spec => []CurrentKeysOnly
<1>1. IInv => CurrentKeysOnly
  BY DEF IInv
<1> QED
  BY <1>1, Invariance, PTL

(* A cookie is good until a second before TTL at the least, unless its key *)
(* is gone, over any number of restarts (token.go:20-23, 59).              *)
THEOREM CookiesLast == Spec => []CookieLasts
<1>1. IInv => CookieLasts
  BY DEF IInv
<1> QED
  BY <1>1, Invariance, PTL

(* Because no two labels share a secret, taking a label's key away and     *)
(* restarting shuts out its holder (keys.go:51-53).                        *)
THEOREM RevokedOut == Spec => []RevokedIsOut
<1>1. IInv => RevokedIsOut
  <2> SUFFICES ASSUME IInv, LetIn, Revoked(answer.secret)
               PROVE  FALSE
    BY DEF RevokedIsOut
  <2>1. answer.label \in Labels /\ answer.secret # None
    BY SessionAssumption DEF SessionAssumption, IInv, LetInNamed
  <2>2. keys[answer.label] = answer.secret
    BY DEF IInv, CurrentKeysOnly
  <2>3. PICK l \in Labels : before[l] = answer.secret /\ keys[l] # answer.secret
    BY DEF Revoked
  <2> QED
    BY <2>1, <2>2, <2>3 DEF IInv, SetsLoaded, Distinct, Revoked
<1> QED
  BY <1>1, Invariance, PTL
=============================================================================
