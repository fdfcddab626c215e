--------------------------- MODULE TokenRotation ----------------------------
(***************************************************************************)
(* The refresh tokens of one session (a token family): rotation, the grace *)
(* period and logout, as RefreshTokenPair and RevokeSession                *)
(* (application/auth/use_cases.py) do them over the keys that              *)
(* RedisTokenRevocationStore (persistence/redis/token_store.py) keeps.     *)
(*                                                                         *)
(* A token is named by the order in which it was issued; token 1 comes     *)
(* from the login.  Each action is one call to Redis, so requests of all   *)
(* the workers interleave between the calls as they do in the program.     *)
(* Clients only present tokens they were given; several tabs of a browser  *)
(* share them.  JWTs outlive the behaviours considered here.               *)
(***************************************************************************)
EXTENDS Naturals

CONSTANTS Requests,        \* POST /auth/refresh, in any worker
          Logouts,         \* POST /auth/logout
          MaxTokens,       \* bound: tokens issued in the session
          MaxRequests,     \* bound: refresh requests made
          MaxExpiries,     \* bound: grace keys that reach their 30 s
          MaxCrashes,      \* bound: requests that die half way
          Absent, Rotating \* values of a grace key other than a pair

Tokens == 1 .. MaxTokens

ASSUME TokenAssumption ==
  /\ MaxTokens \in Nat \ {0}
  /\ MaxRequests \in Nat /\ MaxExpiries \in Nat /\ MaxCrashes \in Nat
  /\ Absent \notin Tokens /\ Rotating \notin Tokens /\ Absent # Rotating

VARIABLES
  registered,  \* tokens with a key auth:refresh:<jti>
  family,      \* the key auth:family:<id> exists
  grace,       \* grace[t]: auth:grace:<t>, a pair named by its refresh token
  issued,      \* how many tokens were issued
  known,       \* tokens that reached the client
  pc, token,   \* of a refresh request: where it is, the token it presented
  pair,        \* the pair it made or found
  answers,     \* history: answers[t]: the pairs answered to those who presented t
  out,         \* of a logout: where it is
  made, expiries, crashes

keys == <<registered, family, grace>>
reqs == <<pc, token, pair, answers>>
bounds == <<made, expiries, crashes>>
vars == <<keys, issued, known, reqs, out, bounds>>

NoToken == 0

TypeOK ==
  /\ registered \subseteq Tokens
  /\ family \in BOOLEAN
  /\ grace \in [Tokens -> Tokens \cup {Absent, Rotating}]
  /\ issued \in Tokens
  /\ known \subseteq Tokens
  /\ pc \in [Requests -> {"idle", "consumed", "checked", "registered",
                          "missing", "polling", "found", "unknown", "reused"}]
  /\ token \in [Requests -> Tokens \cup {NoToken}]
  /\ pair \in [Requests -> Tokens \cup {NoToken}]
  /\ answers \in [Tokens -> SUBSET Tokens]
  /\ out \in [Logouts -> {"idle", "access", "refresh", "done"}]
  /\ made \in 0 .. MaxRequests
  /\ expiries \in 0 .. MaxExpiries
  /\ crashes \in 0 .. MaxCrashes

\* The session after ExchangeAuthorizationCode: IssueTokenPair made token 1
Init ==
  /\ registered = {1} /\ family = TRUE
  /\ grace = [t \in Tokens |-> Absent]
  /\ issued = 1 /\ known = {1}
  /\ pc = [r \in Requests |-> "idle"]
  /\ token = [r \in Requests |-> NoToken]
  /\ pair = [r \in Requests |-> NoToken]
  /\ answers = [t \in Tokens |-> {}]
  /\ out = [l \in Logouts |-> "idle"]
  /\ made = 0 /\ expiries = 0 /\ crashes = 0
-----------------------------------------------------------------------------
(***************************************************************************)
(* A request ends: with a pair, which may get lost on its way to the       *)
(* client, or with a 401.                                                  *)
(***************************************************************************)
Ends(r) ==
  /\ pc' = [pc EXCEPT ![r] = "idle"]
  /\ token' = [token EXCEPT ![r] = NoToken]
  /\ pair' = [pair EXCEPT ![r] = NoToken]

Answer(r) ==
  /\ Ends(r)
  /\ answers' = [answers EXCEPT ![token[r]] = @ \cup {pair[r]}]
  /\ known' \in {known, known \cup {pair[r]}}

Refuse(r) == Ends(r) /\ UNCHANGED <<answers, known>>

Goto(r, where) ==
  /\ pc' = [pc EXCEPT ![r] = where]
  /\ UNCHANGED <<token, answers, known>>

(***************************************************************************)
(* consume_refresh: one transaction reads and deletes the token's key and  *)
(* marks its grace key as rotating, whether or not the token was there.    *)
(***************************************************************************)
Mutant_OnlyReads(r, t) ==
  /\ pc[r] = "idle" /\ t \in known /\ made < MaxRequests
  /\ pc' = [pc EXCEPT ![r] = IF t \in registered THEN "consumed" ELSE "missing"]
  /\ token' = [token EXCEPT ![r] = t]
  /\ grace' = [grace EXCEPT ![t] = Rotating]
  /\ made' = made + 1
  /\ UNCHANGED <<registered, family, issued, known, pair, answers, out, expiries, crashes>>

Consume(r, t) ==
  /\ pc[r] = "idle" /\ t \in known /\ made < MaxRequests
  /\ pc' = [pc EXCEPT ![r] = IF t \in registered THEN "consumed" ELSE "missing"]
  /\ token' = [token EXCEPT ![r] = t]
  /\ registered' = registered \ {t}
  /\ grace' = [grace EXCEPT ![t] = Rotating]
  /\ made' = made + 1
  /\ UNCHANGED <<family, issued, known, pair, answers, out, expiries, crashes>>

(***************************************************************************)
(* The token was there: execute checks the family, issues a pair,          *)
(* registers its refresh token (which sets the family's key again) and     *)
(* stores the pair for the grace period.                                   *)
(***************************************************************************)
Mutant_NoFamilyCheck(r) ==
  /\ pc[r] = "consumed"
  /\ Goto(r, "checked")
  /\ UNCHANGED <<keys, issued, pair, out, bounds>>

CheckFamily(r) ==
  /\ pc[r] = "consumed"
  /\ \/ family /\ Goto(r, "checked") /\ UNCHANGED pair
     \/ ~family /\ Refuse(r)
  /\ UNCHANGED <<keys, issued, out, bounds>>

Register(r) ==
  /\ pc[r] = "checked" /\ issued < MaxTokens
  /\ issued' = issued + 1
  /\ registered' = registered \cup {issued + 1}
  /\ family' = TRUE
  /\ pair' = [pair EXCEPT ![r] = issued + 1]
  /\ Goto(r, "registered")
  /\ UNCHANGED <<grace, out, bounds>>

StoreGrace(r) ==
  /\ pc[r] = "registered"
  /\ grace' = [grace EXCEPT ![token[r]] = pair[r]]
  /\ Answer(r)
  /\ UNCHANGED <<registered, family, issued, out, bounds>>

(***************************************************************************)
(* The token was not there: consume_refresh deletes the grace key again,   *)
(* then get_grace_period reads it, waiting while it says rotating.         *)
(***************************************************************************)
DropGrace(r) ==
  /\ pc[r] = "missing"
  /\ grace' = [grace EXCEPT ![token[r]] = Absent]
  /\ Goto(r, "polling") /\ UNCHANGED pair
  /\ UNCHANGED <<registered, family, issued, out, bounds>>

PollGrace(r) ==
  /\ pc[r] = "polling"
  /\ \/ /\ grace[token[r]] \in Tokens
        /\ pair' = [pair EXCEPT ![r] = grace[token[r]]]
        /\ Goto(r, "found")
     \/ /\ grace[token[r]] \in {Absent, Rotating}   \* absent, or 30 polls are over
        /\ Goto(r, "unknown") /\ UNCHANGED pair
  /\ UNCHANGED <<keys, issued, out, bounds>>

AnswerFound(r) ==
  /\ pc[r] = "found"
  /\ \/ family /\ Answer(r)
     \/ ~family /\ Refuse(r)
  /\ UNCHANGED <<keys, issued, out, bounds>>

Mutant_OnlyRefuses(r) ==
  /\ pc[r] = "unknown"
  /\ Refuse(r)
  /\ UNCHANGED <<keys, issued, out, bounds>>

CheckReuse(r) ==
  /\ pc[r] = "unknown"
  /\ \/ family /\ Goto(r, "reused") /\ UNCHANGED pair
     \/ ~family /\ Refuse(r)
  /\ UNCHANGED <<keys, issued, out, bounds>>

RevokeReused(r) ==
  /\ pc[r] = "reused"
  /\ family' = FALSE
  /\ Refuse(r)
  /\ UNCHANGED <<registered, grace, issued, out, bounds>>

(***************************************************************************)
(* The worker of a request dies; a grace key reaches its 30 seconds.       *)
(***************************************************************************)
Crash(r) ==
  /\ pc[r] # "idle" /\ crashes < MaxCrashes
  /\ Refuse(r)
  /\ crashes' = crashes + 1
  /\ UNCHANGED <<keys, issued, out, made, expiries>>

GraceExpires(t) ==
  /\ grace[t] # Absent /\ expiries < MaxExpiries
  /\ grace' = [grace EXCEPT ![t] = Absent]
  /\ expiries' = expiries + 1
  /\ UNCHANGED <<registered, family, issued, known, reqs, out, made, crashes>>

(***************************************************************************)
(* RevokeSession: with a valid access token its family is revoked; with a  *)
(* refresh token that token and then its family.                           *)
(***************************************************************************)
LogoutAccess(l) ==
  /\ out[l] = "idle"
  /\ family' = FALSE
  /\ \E next \in {"access", "done"} : out' = [out EXCEPT ![l] = next]
  /\ UNCHANGED <<registered, grace, issued, known, reqs, bounds>>

LogoutRefresh(l, t) ==
  /\ out[l] \in {"idle", "access"} /\ t \in known
  /\ registered' = registered \ {t}
  /\ out' = [out EXCEPT ![l] = "refresh"]
  /\ UNCHANGED <<family, grace, issued, known, reqs, bounds>>

LogoutFamily(l) ==
  /\ out[l] = "refresh"
  /\ family' = FALSE
  /\ out' = [out EXCEPT ![l] = "done"]
  /\ UNCHANGED <<registered, grace, issued, known, reqs, bounds>>
-----------------------------------------------------------------------------
Handle(r) ==
  \/ CheckFamily(r) \/ Register(r) \/ StoreGrace(r)
  \/ DropGrace(r) \/ PollGrace(r) \/ AnswerFound(r)
  \/ CheckReuse(r) \/ RevokeReused(r)

Logout(l) == \/ LogoutAccess(l) \/ LogoutFamily(l)
             \/ \E t \in Tokens : LogoutRefresh(l, t)

Next == \/ \E r \in Requests : Handle(r) \/ Crash(r)
        \/ \E r \in Requests, t \in Tokens : Consume(r, t)
        \/ \E t \in Tokens : GraceExpires(t)
        \/ \E l \in Logouts : Logout(l)

Spec == Init /\ [][Next]_vars
-----------------------------------------------------------------------------
Rotates(r) == pc[r] \in {"consumed", "checked"}

(***************************************************************************)
(* Rotation is strict: of all the tokens of the session at most one can    *)
(* still be rotated, however many requests present whatever tokens at the  *)
(* same time, and while a request rotates there is none.                   *)
(***************************************************************************)
OneLiveToken ==
  /\ \A s, t \in registered : s = t
  /\ \A r \in Requests : Rotates(r) => registered = {}
  /\ \A q, r \in Requests : Rotates(q) /\ Rotates(r) => q = r

(***************************************************************************)
(* Everybody who presents the same token and gets a pair gets the same     *)
(* pair: two tabs never end with two different lines of tokens.            *)
(***************************************************************************)
OneSuccessor == \A t \in Tokens : \A a, b \in answers[t] : a = b

(***************************************************************************)
(* A refusal is not given while the session goes on: the client that is    *)
(* sent to the login page leaves no live session of its own behind.        *)
(***************************************************************************)
RefusedMeansOver ==
  [][\A r \in Requests :
       pc[r] \in {"consumed", "unknown", "reused"} /\ pc'[r] = "idle" /\ crashes' = crashes
         => ~family']_vars

(***************************************************************************)
(* A session that ended (a logout, a token used twice) stays ended, once   *)
(* no request is between its look at the family and its registration.      *)
(***************************************************************************)
Over == ~family /\ \A r \in Requests : pc[r] # "checked"
OverStaysOver == [](Over => []~family)

(***************************************************************************)
(* routers/auth.py:350-354 and 525-528: reuse revokes the whole family and *)
(* the user must log in again; logout leaves both tokens without effect.   *)
(* As the words say it, without the proviso of OverStaysOver.              *)
(***************************************************************************)
RevokedStaysRevoked == [][~family => ~family']_vars

(***************************************************************************)
(* tests/integration/test_auth_router.py:236 and                           *)
(* tests/unit/test_concurrency_guards.py:63: within the grace period a     *)
(* request with the token that was just rotated is answered with the same  *)
(* pair, not taken for a reuse.  To be read where no grace key expires.    *)
(***************************************************************************)
GraceHonoured == \A r \in Requests : pc[r] # "reused"
=============================================================================
