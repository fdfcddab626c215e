-------------------------------- MODULE Login --------------------------------
(***************************************************************************)
(* How a session begins: the rate limit of an address, the registration of *)
(* an e-mail, the login with its count of failures, and the exchange of    *)
(* the authorization code for the first token pair (application/auth and   *)
(* its stores).  One account, one address, and one counter for its paths;  *)
(* the password check takes its time in a thread, so attempts overlap.     *)
(* What follows the first pair is module TokenRotation.                    *)
(***************************************************************************)
EXTENDS Naturals, FiniteSets

CONSTANTS Attempts,     \* requests to /authorize in flight at most
          Exchanges,    \* requests to /token
          Codes,        \* authorization codes
          NoCode,
          MaxFailures,  \* _MAX_FAILURES (10)
          RateLimit     \* requests of an address in a window

ASSUME LoginAssumption ==
  /\ IsFiniteSet(Attempts) /\ Attempts # {}
  /\ NoCode \notin Codes
  /\ MaxFailures \in Nat \ {0} /\ RateLimit \in Nat

VARIABLES
  account,    \* the row of users is there
  failures,   \* auth:login_attempts:<email>
  hits,       \* auth:ip_rate:<path>:<ip>
  attempt,    \* attempt[a]: where a login is
  stored,     \* keys auth:authcode:<code>
  exchange,   \* exchange[x]: where it is, and its code
  pairs       \* history: pairs[c]: pairs issued for the code c

loginVars == <<account, failures, hits, attempt, stored, exchange, pairs>>
NoExchange == [at |-> "idle", code |-> NoCode]

LoginTypeOK ==
  /\ account \in BOOLEAN /\ failures \in Nat /\ hits \in 0 .. RateLimit + 1
  /\ attempt \in [Attempts -> {"idle", "verifying", "clearing"}]
  /\ stored \subseteq Codes
  /\ exchange \in [Exchanges -> [at : {"idle", "consumed", "ended"}, code : Codes \cup {NoCode}]]
  /\ pairs \in [Codes -> Nat]

LoginInit ==
  /\ account \in BOOLEAN /\ failures = 0 /\ hits = 0
  /\ attempt = [a \in Attempts |-> "idle"]
  /\ stored = {} /\ exchange = [x \in Exchanges |-> NoExchange]
  /\ pairs = [c \in Codes |-> 0]
-----------------------------------------------------------------------------
(***************************************************************************)
(* The limit: INCR and EXPIRE in one script.  A counter over the limit     *)
(* refuses; without Redis production refuses too (fail_closed).            *)
(***************************************************************************)
Admitted == hits < RateLimit
CountHit == hits' = IF hits > RateLimit THEN hits ELSE hits + 1
Over(request) == ~Admitted /\ CountHit /\ UNCHANGED request

RateWindowEnds ==
  /\ hits > 0 /\ hits' = 0
  /\ UNCHANGED <<account, failures, attempt, stored, exchange, pairs>>

\* by_email and create: of two registrations the second finds the row, or the
\* unique index refuses it
Register ==
  /\ Admitted /\ CountHit
  /\ account' = TRUE
  /\ UNCHANGED <<failures, attempt, stored, exchange, pairs>>
-----------------------------------------------------------------------------
(***************************************************************************)
(* AuthorizeWithPkce.                                                      *)
(***************************************************************************)
Mutant_OneMore(a) ==
  /\ attempt[a] = "idle"
  /\ \/ Over(attempt)
     \/ /\ Admitted /\ CountHit
        /\ attempt' = [attempt EXCEPT ![a] = IF failures > MaxFailures THEN "idle" ELSE "verifying"]
  /\ UNCHANGED <<account, failures, stored, exchange, pairs>>
\* lockout_seconds, then the password is verified
Authorize(a) ==
  /\ attempt[a] = "idle"
  /\ \/ Over(attempt)
     \/ /\ Admitted /\ CountHit
        /\ attempt' = [attempt EXCEPT ![a] = IF failures >= MaxFailures THEN "idle" ELSE "verifying"]
  /\ UNCHANGED <<account, failures, stored, exchange, pairs>>

\* an unknown or disabled account fails as a wrong password does
WrongPassword(a) ==
  /\ attempt[a] = "verifying"
  /\ failures' = failures + 1
  /\ attempt' = [attempt EXCEPT ![a] = "idle"]
  /\ UNCHANGED <<account, hits, stored, exchange, pairs>>

StoreCode(a, c) ==
  /\ attempt[a] = "verifying" /\ account
  /\ c \notin stored /\ pairs[c] = 0 /\ \A x \in Exchanges : exchange[x].code # c
  /\ stored' = stored \cup {c}
  /\ attempt' = [attempt EXCEPT ![a] = "clearing"]
  /\ UNCHANGED <<account, failures, hits, exchange, pairs>>

\* Redis or the audit fails: the attempt ends with a 500 and counts nothing
AttemptDies(a) ==
  /\ attempt[a] \in {"verifying", "clearing"}
  /\ attempt' = [attempt EXCEPT ![a] = "idle"]
  /\ UNCHANGED <<account, failures, hits, stored, exchange, pairs>>

ClearFailures(a) ==
  /\ attempt[a] = "clearing"
  /\ failures' = 0
  /\ attempt' = [attempt EXCEPT ![a] = "idle"]
  /\ UNCHANGED <<account, hits, stored, exchange, pairs>>

\* the window runs from the last failure
FailuresExpire ==
  /\ failures > 0 /\ failures' = 0
  /\ UNCHANGED <<account, hits, attempt, stored, exchange, pairs>>
-----------------------------------------------------------------------------
(***************************************************************************)
(* ExchangeAuthorizationCode: GET and DEL in one transaction, whatever the *)
(* verifier turns out to be; then the pair is registered.                  *)
(***************************************************************************)
ConsumeCode(x, c) ==
  /\ exchange[x] = NoExchange /\ c \in stored
  /\ Admitted /\ CountHit
  /\ stored' = stored \ {c}
  /\ exchange' = [exchange EXCEPT ![x] = [at |-> "consumed", code |-> c]]
  /\ UNCHANGED <<account, failures, attempt, pairs>>

\* the code expired meanwhile, the verifier does not match, or Redis fails
ExchangeRefused(x) ==
  /\ exchange[x].at = "consumed"
  /\ exchange' = [exchange EXCEPT ![x].at = "ended"]
  /\ UNCHANGED <<account, failures, hits, attempt, stored, pairs>>

IssuePair(x) ==
  /\ exchange[x].at = "consumed"
  /\ exchange' = [exchange EXCEPT ![x].at = "ended"]
  /\ pairs' = [pairs EXCEPT ![exchange[x].code] = @ + 1]
  /\ UNCHANGED <<account, failures, hits, attempt, stored>>

CodeExpires(c) ==
  /\ c \in stored /\ stored' = stored \ {c}
  /\ UNCHANGED <<account, failures, hits, attempt, exchange, pairs>>

LoginNext ==
  \/ RateWindowEnds \/ Register \/ FailuresExpire
  \/ \E a \in Attempts : \/ Authorize(a) \/ WrongPassword(a) \/ AttemptDies(a) \/ ClearFailures(a)
                         \/ \E c \in Codes : StoreCode(a, c)
  \/ \E c \in Codes : CodeExpires(c) \/ \E x \in Exchanges : ConsumeCode(x, c)
  \/ \E x \in Exchanges : ExchangeRefused(x) \/ IssuePair(x)

LoginSpec == LoginInit /\ [][LoginNext]_loginVars
-----------------------------------------------------------------------------
(***************************************************************************)
(* A code opens one session at most, whoever presents it again while the   *)
(* first exchange verifies it ("de un solo uso", router authorize).        *)
(***************************************************************************)
CodeOpensOneSession == \A c \in Codes : pairs[c] <= 1

(***************************************************************************)
(* The lockout is read before the password is verified and the failure is  *)
(* counted after: the passwords tried in a window exceed the maximum by no *)
(* more than the attempts that were already being verified.                *)
(***************************************************************************)
Verifying == {a \in Attempts : attempt[a] = "verifying"}
BoundedGuesses ==
  failures + Cardinality(Verifying) <= MaxFailures + Cardinality(Attempts) - 1
=============================================================================
