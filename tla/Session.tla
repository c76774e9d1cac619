------------------------------ MODULE Session -------------------------------
(***************************************************************************)
(* auth.Middleware over a keys.Set: API clients that send a bearer key,    *)
(* browsers that trade a key in the URL for a signed cookie, and a process *)
(* that reads its keys once, when it starts.                               *)
(*                                                                         *)
(* Nothing of a session is kept in the process, so a cookie outlives it:   *)
(* the operator edits .env and restarts the gateway while cookies minted   *)
(* by earlier runs are still out.  HMAC is ideal: signatures are equal     *)
(* when what was signed, and the secret it was signed with, are.           *)
(***************************************************************************)
EXTENDS Integers, FiniteSets

CONSTANTS
  Labels,
  Secrets,
  Short,        \* the secrets of fewer than MinKeyLength characters
  Trim,         \* strings.TrimSpace on secrets
  None,
  TTL,          \* Middleware.TTL, in ticks
  Second,       \* ticks in a second
  MaxClock,     \* bound on the clock
  MaxCookies    \* bound on the cookies browsers hold at once

ASSUME SessionAssumption ==
  /\ Short \subseteq Secrets
  /\ Trim \in [Secrets -> Secrets]
  /\ None \notin Labels \cup Secrets
  /\ TTL \in Nat \ {0}
  /\ Second \in Nat \ {0}
  /\ MaxClock \in Nat
  /\ MaxCookies \in Nat

VARIABLES
  clock,
  env,      \* env[l]: the value of VIIWORK_KEY_l in .env, or None
  keys,     \* the running process's Set, NoKeys when it is down
  before,   \* history: the Set of the run before this one
  cookies,  \* the cookies browsers hold
  answer    \* the request the last step served and what became of it

vars == <<clock, env, keys, before, cookies, answer>>

KeySets == [Labels -> Secrets \cup {None}]
NoKeys == [l \in Labels |-> None]

Signatures == [label : Labels, exp : Nat, secret : Secrets]

(* A cookie's value, and when it was minted, which is history. *)
Cookies == [label : Labels, exp : Nat, sig : Signatures, at : Nat]

NoAnswer == [kind |-> "none", label |-> None, secret |-> None, cookie |-> None]

(* Every variable has its type, and only a set that Load accepts is in     *)
(* force.                                                                  *)
TypeOK ==
  /\ clock \in Nat
  /\ env \in KeySets /\ keys \in KeySets /\ before \in KeySets
  /\ cookies \subseteq Cookies
  /\ answer \in [kind : {"none", "forward", "redirect", "reject"}, label : Labels \cup {None},
                 secret : Secrets \cup {None}, cookie : Cookies \cup {None}]
  /\ \A l \in Labels : keys[l] \notin Short

-----------------------------------------------------------------------------
(* keys.Load and Set.Lookup. *)

DistinctUnchecked(e) == TRUE
Distinct(e) == \A l, k \in Labels : e[l] # None /\ e[l] = e[k] => l = k

LoadsAnyLength(e) == Distinct(e) /\ \E l \in Labels : e[l] # None
(* Every key is long enough and no two are the same, and there is one.  A  *)
(* variable that names no label is refused as well; Labels are real ones.  *)
Loads(e) ==
  /\ \A l \in Labels : e[l] \notin Short
  /\ Distinct(e)
  /\ \E l \in Labels : e[l] # None

Known(s) == \E l \in Labels : keys[l] = s
Lookup(s) == CHOOSE l \in Labels : keys[l] = s

-----------------------------------------------------------------------------
(* Mint and Verify. *)

Sign(l, exp, s) == [label |-> l, exp |-> exp, secret |-> s]

(* exp.Unix() *)
ExpiryUnextended(now) == now \div Second
Expiry(now) == (now + TTL) \div Second

Mint(l, now) ==
  [label |-> l, exp |-> Expiry(now), sig |-> Sign(l, Expiry(now), keys[l]), at |-> now]

VerifyLabelOnly(c) == keys[c.label] # None /\ clock < c.exp * Second
Verify(c) ==
  /\ keys[c.label] # None
  /\ c.sig = Sign(c.label, c.exp, keys[c.label])
  /\ clock < c.exp * Second

-----------------------------------------------------------------------------
Init ==
  /\ clock = 0
  /\ env = NoKeys
  /\ keys = NoKeys
  /\ before = NoKeys
  /\ cookies = {}
  /\ answer = NoAnswer

Running == keys # NoKeys

(* The operator sets, replaces or deletes a key in .env. *)
EditEnv ==
  /\ \E l \in Labels, s \in Secrets \cup {None} :
       s # env[l] /\ env' = [env EXCEPT ![l] = s]
  /\ answer' = NoAnswer
  /\ UNCHANGED <<clock, keys, before, cookies>>

(* main: keys.Load(os.Environ()); it refuses to start without. *)
Start ==
  /\ ~Running
  /\ Loads(env)
  /\ keys' = env
  /\ answer' = NoAnswer
  /\ UNCHANGED <<clock, env, before, cookies>>

(* The process ends, for whatever reason. *)
Stop ==
  /\ Running
  /\ keys' = NoKeys
  /\ before' = keys
  /\ answer' = NoAnswer
  /\ UNCHANGED <<clock, env, cookies>>

(* A browser drops a cookie it holds. *)
ForgetCookie ==
  /\ \E c \in cookies : cookies' = cookies \ {c}
  /\ answer' = NoAnswer
  /\ UNCHANGED <<clock, env, keys, before>>

Tick ==
  /\ clock < MaxClock
  /\ clock' = clock + 1
  /\ answer' = NoAnswer
  /\ UNCHANGED <<env, keys, before, cookies>>

-----------------------------------------------------------------------------
(* Middleware.Wrap.  A request carries a bearer key, or a cookie or a key  *)
(* in its query, or both; None stands for what it does not carry.          *)

Answer(kind, l, s, c) == answer' = [kind |-> kind, label |-> l, secret |-> s, cookie |-> c]

(* A bearer key decides alone, whatever else the request carries. *)
BearerAccepted(bearer) ==
  /\ Running
  /\ Known(Trim[bearer])
  /\ Answer("forward", Lookup(Trim[bearer]), Trim[bearer], None)
  /\ UNCHANGED <<clock, env, keys, before, cookies>>

BearerRejected(bearer) ==
  /\ Running
  /\ ~Known(Trim[bearer])
  /\ Answer("reject", None, Trim[bearer], None)
  /\ UNCHANGED <<clock, env, keys, before, cookies>>

CookieAccepted(c) ==
  /\ Running
  /\ Verify(c)
  /\ Answer("forward", c.label, c.sig.secret, c)
  /\ UNCHANGED <<clock, env, keys, before, cookies>>

Stale(c) == c # None => ~Verify(c)

(* ?key= on a request whose cookie, if any, is no good. *)
KeyAccepted(c, key) ==
  /\ Running
  /\ Stale(c)
  /\ Known(key)
  /\ LET minted == Mint(Lookup(key), clock) IN
       /\ cookies' = (cookies \ {c}) \cup {minted}
       /\ Answer("redirect", minted.label, key, None)
  /\ UNCHANGED <<clock, env, keys, before>>

(* Neither the cookie nor the key, whichever of them there are, is good. *)
Rejected(c, key) ==
  /\ Running
  /\ Stale(c)
  /\ key # None => ~Known(key)
  /\ Answer("reject", None, key, c)
  /\ UNCHANGED <<clock, env, keys, before, cookies>>

HasRoom(c) == c \in cookies \/ Cardinality(cookies) < MaxCookies

Request ==
  \/ \E s \in Secrets : BearerAccepted(s) \/ BearerRejected(s)
  \/ \E c \in cookies : CookieAccepted(c)
  \/ \E c \in cookies \cup {None}, s \in Secrets : HasRoom(c) /\ KeyAccepted(c, s)
  \/ \E c \in cookies \cup {None}, s \in Secrets \cup {None} : Rejected(c, s)

Next == EditEnv \/ Start \/ Stop \/ ForgetCookie \/ Tick \/ Request

Spec == Init /\ [][Next]_vars

-----------------------------------------------------------------------------
LetIn == answer.kind \in {"forward", "redirect"}

(* Who is let in holds, or holds a cookie minted with, the key its label   *)
(* has in the set in force, although the cookie may be from an earlier     *)
(* run; and no cookie lets anyone in TTL after it was minted               *)
(* (token.go:13-15, 45-61, middleware.go:74-108).                          *)
CurrentKeysOnly ==
  LetIn =>
    /\ keys[answer.label] = answer.secret
    /\ answer.cookie # None => clock - answer.cookie.at < TTL

(* A cookie is turned away only for a reason: its label has another key    *)
(* or none now, or TTL, less the second that rounding may cost, has gone   *)
(* by.  Restarts alone cost no one a session (token.go:13-15, 20-23).      *)
CookieLasts ==
  answer.kind = "reject" /\ answer.cookie # None =>
    \/ keys[answer.cookie.label] # answer.cookie.sig.secret
    \/ clock - answer.cookie.at > TTL - Second

(* A secret the run before this one accepted under a label that has lost   *)
(* it, and that the operator has given to no other label since.            *)
Revoked(s) ==
  /\ \E l \in Labels : before[l] = s /\ keys[l] # s
  /\ \A l \in Labels : keys[l] = s => before[l] = s

(* Taking a label's key away and restarting shuts out its holder, as       *)
(* bearer, in the URL and by cookie: no other label goes on admitting it   *)
(* (keys.go:51-53, 87-89).                                                 *)
RevokedIsOut == LetIn => ~Revoked(answer.secret)
=============================================================================
