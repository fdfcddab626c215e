--------------------------- MODULE Accounts_proofs ----------------------------
(***************************************************************************)
(* Proofs about what belongs to a user and about the limits users share,   *)
(* for any number of requests, callers, calls and checks: login and its    *)
(* codes, the linked accounts, the configuration of the model, and the     *)
(* runners of a validation.                                                *)
(***************************************************************************)
EXTENDS Login, AccountLink, ModelClient, Validation,
        FiniteSetTheorems, SequenceTheorems, TLAPS
-----------------------------------------------------------------------------
(***************************************************************************)
(* Login: its types, that the lockout bounds the passwords tried however   *)
(* the attempts overlap, and that a code opens one session at most.        *)
(***************************************************************************)
(***************************************************************************)
(* A code is in Redis, or in the exchange that consumed it, or has opened  *)
(* its session: never in two of these places.                              *)
(***************************************************************************)
CodePart ==
  /\ CodeOpensOneSession
  /\ \A c \in stored : pairs[c] = 0 /\ \A x \in Exchanges : exchange[x].code # c
  /\ \A x \in Exchanges :
       exchange[x].at = "consumed" => exchange[x].code \in Codes /\ pairs[exchange[x].code] = 0
  /\ \A x, y \in Exchanges :
       x # y /\ exchange[x].code = exchange[y].code => exchange[x].code = NoCode

LoginInv == LoginTypeOK /\ BoundedGuesses /\ CodePart

\* The attempts being verified are some of the attempts: with failures below the
\* maximum there is room for all of them.
LEMMA AtMostAll ==
  ASSUME LoginAssumption, NEW n \in Nat, n < MaxFailures, NEW V \in SUBSET Attempts
  PROVE  n + Cardinality(V) <= MaxFailures + Cardinality(Attempts) - 1
<1>1. Cardinality(V) <= Cardinality(Attempts) /\ Cardinality(V) \in Nat /\ Cardinality(Attempts) \in Nat
  BY FS_Subset, FS_CardinalityType DEF LoginAssumption
<1> QED
  BY <1>1 DEF LoginAssumption

\* an attempt that is not verified any more makes room for one failure
LEMMA OneLess ==
  ASSUME LoginAssumption, LoginTypeOK, NEW b \in Attempts, attempt[b] = "verifying",
         attempt'[b] # "verifying",
         \A d \in Attempts \ {b} : attempt'[d] = attempt[d]
  PROVE  /\ Cardinality(Verifying') = Cardinality(Verifying) - 1
         /\ Cardinality(Verifying) \in Nat /\ Cardinality(Attempts) \in Nat
<1>1. Verifying' = Verifying \ {b} /\ b \in Verifying
  BY DEF Verifying
<1>2. IsFiniteSet(Verifying) /\ IsFiniteSet(Attempts)
  BY FS_Subset DEF Verifying, LoginAssumption
<1> QED
  BY <1>1, <1>2, FS_RemoveElement, FS_CardinalityType

\* the first state
LEMMA LoginInit_Inv == ASSUME LoginAssumption, LoginInit PROVE LoginInv
<1>1. LoginTypeOK
  BY DEF LoginAssumption, LoginInit, LoginTypeOK, NoExchange
<1>2. BoundedGuesses
  <2>1. failures = 0 /\ Verifying \in SUBSET Attempts
    BY DEF LoginInit, Verifying
  <2> QED
    BY <2>1, AtMostAll DEF LoginAssumption, BoundedGuesses
<1>3. CodePart
  BY DEF LoginAssumption, LoginInit, CodePart, CodeOpensOneSession, NoExchange
<1> QED
  BY <1>1, <1>2, <1>3 DEF LoginInv
-----------------------------------------------------------------------------
\* every step keeps the types
LEMMA TypeStep ==
  ASSUME LoginAssumption, LoginTypeOK, [LoginNext]_loginVars PROVE LoginTypeOK'
<1> USE DEF LoginAssumption, LoginTypeOK
<1>1. hits' \in 0 .. RateLimit + 1 /\ account' \in BOOLEAN
  <2>1. ASSUME CountHit PROVE hits' \in 0 .. RateLimit + 1
    BY <2>1 DEF CountHit
  <2>2. hits' = hits \/ hits' = 0 \/ CountHit
    BY DEF LoginNext, loginVars, RateWindowEnds, Register, FailuresExpire, Authorize, Over,
           WrongPassword, AttemptDies, ClearFailures, StoreCode, CodeExpires, ConsumeCode,
           ExchangeRefused, IssuePair
  <2>3. account' = account \/ account' = TRUE
    BY DEF LoginNext, loginVars, RateWindowEnds, Register, FailuresExpire, Authorize, Over,
           WrongPassword, AttemptDies, ClearFailures, StoreCode, CodeExpires, ConsumeCode,
           ExchangeRefused, IssuePair
  <2>4. hits' \in 0 .. RateLimit + 1
    BY <2>1, <2>2
  <2> QED
    BY <2>3, <2>4
<1>2. failures' \in Nat /\ attempt' \in [Attempts -> {"idle", "verifying", "clearing"}]
  BY DEF LoginNext, loginVars, RateWindowEnds, Register, FailuresExpire, Authorize, Over, Admitted,
         CountHit, WrongPassword, AttemptDies, ClearFailures, StoreCode, CodeExpires, ConsumeCode,
         ExchangeRefused, IssuePair
<1>3. stored' \subseteq Codes
  BY DEF LoginNext, loginVars, RateWindowEnds, Register, FailuresExpire, Authorize, Over,
         WrongPassword, AttemptDies, ClearFailures, StoreCode, CodeExpires, ConsumeCode,
         ExchangeRefused, IssuePair
<1>4. exchange' \in [Exchanges -> [at : {"idle", "consumed", "ended"}, code : Codes \cup {NoCode}]]
  BY DEF LoginNext, loginVars, RateWindowEnds, Register, FailuresExpire, Authorize, Over,
         WrongPassword, AttemptDies, ClearFailures, StoreCode, CodeExpires, ConsumeCode,
         ExchangeRefused, IssuePair
<1>5. pairs' \in [Codes -> Nat]
  BY DEF LoginNext, loginVars, RateWindowEnds, Register, FailuresExpire, Authorize, Over,
         WrongPassword, AttemptDies, ClearFailures, StoreCode, CodeExpires, ConsumeCode,
         ExchangeRefused, IssuePair
<1> QED
  BY <1>1, <1>2, <1>3, <1>4, <1>5

\* Only Authorize adds to the attempts being verified, and only below the maximum.
LEMMA GuessStep ==
  ASSUME LoginAssumption, LoginTypeOK, LoginTypeOK', BoundedGuesses, [LoginNext]_loginVars
  PROVE  BoundedGuesses'
<1>0. /\ Verifying \in SUBSET Attempts /\ Verifying' \in SUBSET Attempts
      /\ failures \in Nat /\ failures' \in Nat
  BY DEF Verifying, LoginTypeOK
<1>1. ASSUME UNCHANGED <<failures, attempt>> PROVE BoundedGuesses'
  BY <1>1 DEF BoundedGuesses, Verifying
<1>2. ASSUME failures' < MaxFailures PROVE BoundedGuesses'
  BY <1>0, <1>2, AtMostAll DEF BoundedGuesses
<1>3. ASSUME NEW b \in Attempts, failures' <= failures + 1,
             attempt[b] = "verifying", attempt' = [attempt EXCEPT ![b] = "idle"]
      PROVE  BoundedGuesses'
  <2>1. attempt'[b] = "idle" /\ \A d \in Attempts \ {b} : attempt'[d] = attempt[d]
    BY <1>3 DEF LoginTypeOK
  <2> QED
    BY <1>0, <1>3, <2>1, OneLess DEF BoundedGuesses, LoginAssumption
<1>4. ASSUME NEW b \in Attempts, Authorize(b) PROVE BoundedGuesses'
  <2>1. CASE attempt' = attempt
    BY <1>1, <1>4, <2>1 DEF Authorize
  <2>2. CASE failures < MaxFailures
    BY <1>2, <1>4, <2>2 DEF Authorize
  <2>3. CASE failures >= MaxFailures /\ ~(attempt' = attempt)
    BY <1>4, <2>3 DEF Authorize, Over, LoginTypeOK
  <2> QED
    BY <1>0, <2>1, <2>2, <2>3 DEF LoginAssumption
<1>5. ASSUME NEW b \in Attempts, WrongPassword(b) PROVE BoundedGuesses'
  <2>1. /\ attempt[b] = "verifying" /\ attempt' = [attempt EXCEPT ![b] = "idle"]
        /\ failures' <= failures + 1
    BY <1>0, <1>5 DEF WrongPassword
  <2> QED
    BY <1>3, <2>1
<1>6. ASSUME NEW b \in Attempts, AttemptDies(b) PROVE BoundedGuesses'
  <2>1. CASE attempt[b] = "verifying"
    <3>1. attempt' = [attempt EXCEPT ![b] = "idle"] /\ failures' <= failures + 1
      BY <1>0, <1>6 DEF AttemptDies
    <3> QED
      BY <1>3, <2>1, <3>1
  <2>2. CASE attempt[b] = "clearing"
    <3>1. Verifying' = Verifying
      BY <1>6, <2>2 DEF AttemptDies, Verifying, LoginTypeOK
    <3> QED
      BY <1>6, <3>1 DEF AttemptDies, BoundedGuesses
  <2> QED
    BY <1>6, <2>1, <2>2 DEF AttemptDies
<1>7. ASSUME NEW b \in Attempts, NEW c \in Codes, StoreCode(b, c) PROVE BoundedGuesses'
  <2>1. attempt[b] = "verifying" /\ attempt'[b] # "verifying" /\ failures' = failures
        /\ \A d \in Attempts \ {b} : attempt'[d] = attempt[d]
    BY <1>7 DEF StoreCode, LoginTypeOK
  <2> QED
    BY <1>0, <2>1, OneLess DEF BoundedGuesses, LoginAssumption
<1>8. ASSUME failures' = 0 PROVE BoundedGuesses'
  BY <1>2, <1>8 DEF LoginAssumption
<1> QED
  BY <1>1, <1>4, <1>5, <1>6, <1>7, <1>8
  DEF LoginNext, loginVars, RateWindowEnds, Register, FailuresExpire, ClearFailures, CodeExpires,
      ConsumeCode, ExchangeRefused, IssuePair

\* a code goes from Redis to one exchange, and from there to its session
LEMMA CodeStep ==
  ASSUME LoginAssumption, LoginTypeOK, CodePart, [LoginNext]_loginVars PROVE CodePart'
<1>1. ASSUME UNCHANGED <<exchange, pairs>>, stored' \subseteq stored PROVE CodePart'
  BY <1>1 DEF CodePart, CodeOpensOneSession
<1>2. ASSUME NEW b \in Attempts, NEW c \in Codes, StoreCode(b, c) PROVE CodePart'
  BY <1>2 DEF StoreCode, CodePart, CodeOpensOneSession
<1>3. ASSUME NEW x \in Exchanges, NEW c \in Codes, ConsumeCode(x, c) PROVE CodePart'
  <2>1. /\ stored' = stored \ {c} /\ pairs' = pairs /\ pairs[c] = 0
        /\ \A y \in Exchanges : exchange[y].code # c
        /\ exchange'[x] = [at |-> "consumed", code |-> c]
        /\ \A y \in Exchanges \ {x} : exchange'[y] = exchange[y]
    BY <1>3 DEF ConsumeCode, CodePart, LoginTypeOK
  <2> QED
    BY <2>1 DEF CodePart, CodeOpensOneSession
<1>4. ASSUME NEW x \in Exchanges, ExchangeRefused(x) PROVE CodePart'
  <2>1. /\ stored' = stored /\ pairs' = pairs
        /\ exchange'[x].at = "ended" /\ exchange'[x].code = exchange[x].code
        /\ \A y \in Exchanges \ {x} : exchange'[y] = exchange[y]
    BY <1>4 DEF ExchangeRefused, LoginTypeOK
  <2> QED
    BY <2>1 DEF CodePart, CodeOpensOneSession
<1>5. ASSUME NEW x \in Exchanges, IssuePair(x) PROVE CodePart'
  <2> DEFINE c == exchange[x].code
  <2>1. /\ c \in Codes /\ c # NoCode /\ pairs[c] = 0 /\ c \notin stored
        /\ \A y \in Exchanges \ {x} : exchange[y].code # c
    BY <1>5 DEF IssuePair, CodePart, LoginAssumption
  <2>2. /\ stored' = stored /\ pairs'[c] = 1
        /\ \A d \in Codes \ {c} : pairs'[d] = pairs[d]
        /\ exchange'[x].at = "ended" /\ exchange'[x].code = c
        /\ \A y \in Exchanges \ {x} : exchange'[y] = exchange[y]
    BY <1>5, <2>1 DEF IssuePair, LoginTypeOK
  <2>3. CodeOpensOneSession'
    BY <2>1, <2>2 DEF CodePart, CodeOpensOneSession
  <2>4. \A d \in stored' : pairs'[d] = 0 /\ \A y \in Exchanges : exchange'[y].code # d
    BY <2>1, <2>2 DEF CodePart, LoginTypeOK
  <2>5. \A y \in Exchanges : exchange'[y].at = "consumed" =>
           exchange'[y].code \in Codes /\ pairs'[exchange'[y].code] = 0
    BY <2>1, <2>2 DEF CodePart
  <2>6. \A y, z \in Exchanges : y # z /\ exchange'[y].code = exchange'[z].code
                                  => exchange'[y].code = NoCode
    BY <2>1, <2>2 DEF CodePart
  <2> QED
    BY <2>3, <2>4, <2>5, <2>6 DEF CodePart
<1>6. ASSUME UNCHANGED <<stored, exchange, pairs>> PROVE CodePart'
  BY <1>1, <1>6
<1> QED
  BY <1>1, <1>2, <1>3, <1>4, <1>5, <1>6
  DEF LoginNext, loginVars, RateWindowEnds, Register, FailuresExpire, Authorize, WrongPassword,
      AttemptDies, ClearFailures, CodeExpires

(***************************************************************************)
(* LoginInv is inductive: it holds of every state of a behaviour.          *)
(***************************************************************************)
THEOREM LoginInvariant == ASSUME LoginAssumption PROVE LoginSpec => []LoginInv
<1>1. LoginInit => LoginInv
  BY LoginInit_Inv
<1>2. LoginInv /\ [LoginNext]_loginVars => LoginInv'
  BY TypeStep, GuessStep, CodeStep DEF LoginInv
<1> QED
  BY <1>1, <1>2, PTL DEF LoginSpec

(***************************************************************************)
(* Every variable keeps its type; the counter of an address never goes     *)
(* further than one over the limit.                                        *)
(***************************************************************************)
THEOREM LoginTypeCorrect == ASSUME LoginAssumption PROVE LoginSpec => []LoginTypeOK
<1>1. LoginInv => LoginTypeOK
  BY DEF LoginInv
<1> QED
  BY <1>1, LoginInvariant, PTL

(***************************************************************************)
(* However many attempts overlap, the passwords tried in a window exceed   *)
(* the maximum by no more than those already being verified.               *)
(***************************************************************************)
THEOREM BoundedGuessesHolds == ASSUME LoginAssumption PROVE LoginSpec => []BoundedGuesses
<1>1. LoginInv => BoundedGuesses
  BY DEF LoginInv
<1> QED
  BY <1>1, LoginInvariant, PTL

(***************************************************************************)
(* A code opens one session at most, with any number of exchanges of it.   *)
(***************************************************************************)
THEOREM CodeOpensOneSessionHolds == ASSUME LoginAssumption PROVE LoginSpec => []CodeOpensOneSession
<1>1. LoginInv => CodeOpensOneSession
  BY DEF LoginInv, CodePart
<1> QED
  BY <1>1, LoginInvariant, PTL

-----------------------------------------------------------------------------
(***************************************************************************)
(* The linked accounts: their types, and that the row holds the refresh    *)
(* token Railway accepts.                                                  *)
(***************************************************************************)
(***************************************************************************)
(* What the row and the callers hold: of an authorization that was given,  *)
(* and no refresh token that Railway has not issued yet.                   *)
(***************************************************************************)
Issued(h) ==
  h # Unlinked => /\ h.grant <= grants
                  /\ h.renewable => h.grant # Pasted
                  /\ h.grant # Pasted => h.turn <= newest[h.grant]
HoldPart ==
  /\ Issued(credentials) /\ \A c \in Callers : Issued(caller[c].hold)
  /\ \A g \in 1 .. MaxGrants : g > grants => newest[g] = 0
  /\ rotates \/ \A g \in 1 .. MaxGrants : newest[g] = 0
  /\ \A c \in Callers : caller[c].at \in {"save", "use", "renew", "keep"} => caller[c].hold # Unlinked
  /\ \A c \in Callers : caller[c].at \in {"renew", "keep"} => caller[c].hold.renewable

(***************************************************************************)
(* Who is about to save a renewed token has the newest, and with rotation  *)
(* nobody else has it.                                                     *)
(***************************************************************************)
Older(h, k) == h = Unlinked \/ h.grant # k.grant \/ h.turn < k.turn
KeepPart ==
  \A c \in Callers : CallerAt(c, "keep") =>
    LET k == caller[c].hold IN
      /\ k.turn = newest[k.grant]
      /\ rotates => Older(credentials, k) /\ \A d \in Callers \ {c} : Older(caller[d].hold, k)

\* an authorization that was just given is known to its caller only
Apart(h, k) == h = Unlinked \/ h.grant # k.grant
SavePart ==
  \A c \in Callers : CallerAt(c, "save") /\ caller[c].hold.grant # Pasted =>
    LET k == caller[c].hold IN
      /\ newest[k.grant] = 0 /\ k.turn = 0
      /\ Apart(credentials, k) /\ \A d \in Callers \ {c} : Apart(caller[d].hold, k)

LinkInv == LinkTypeOK /\ HoldPart /\ KeepPart /\ SavePart /\ StoredIsNewest

\* a request that uses an account
CallerType == [at : {"idle", "exchange", "save", "profile", "use", "renew", "keep", "drop"},
               purpose : {"none", "connect", "disconnect", "deploy", "monitor", "erase"},
               hold : Credentials \cup {Unlinked}, renewed : BOOLEAN]

\* the first state
LEMMA LinkInit_Inv == ASSUME LinkAssumption, LinkInit PROVE LinkInv
<1>1. LinkTypeOK
  <2>1. NoCaller \in CallerType
    BY DEF NoCaller, CallerType
  <2>2. caller \in [Callers -> CallerType]
    BY <2>1 DEF LinkInit
  <2>3. grants \in 0 .. MaxGrants /\ newest \in [1 .. MaxGrants -> 0 .. MaxTurns]
    BY DEF LinkAssumption, LinkInit
  <2>4. provider \in {"github", "railway"} /\ rotates \in BOOLEAN /\ profile \in BOOLEAN
    BY DEF LinkInit
  <2> QED
    BY <2>2, <2>3, <2>4 DEF LinkInit, LinkTypeOK, CallerType
<1>2. HoldPart /\ KeepPart /\ SavePart /\ StoredIsNewest
  BY DEF LinkInit, NoCaller, HoldPart, Issued, KeepPart, SavePart, StoredIsNewest, CallerAt
<1> QED
  BY <1>1, <1>2 DEF LinkInv

\* what every step does to the callers: one of them moves
LEMMA OneCaller ==
  ASSUME LinkTypeOK, NEW c \in Callers, NEW x \in CallerType, caller' = [caller EXCEPT ![c] = x]
  PROVE  /\ caller' \in [Callers -> CallerType]
         /\ caller'[c] = x /\ \A d \in Callers \ {c} : caller'[d] = caller[d]
BY DEF LinkTypeOK, CallerType

\* the callers as they are: records
LEMMA CallerFields ==
  ASSUME LinkTypeOK, NEW c \in Callers
  PROVE  /\ caller[c] \in CallerType
         /\ \A at \in {"idle", "exchange", "save", "profile", "use", "renew", "keep", "drop"},
               hold \in Credentials \cup {Unlinked} :
              [caller[c] EXCEPT !.at = at, !.hold = hold] \in CallerType
         /\ NoCaller \in CallerType
BY DEF LinkTypeOK, CallerType, NoCaller

\* every step keeps the types
LEMMA LinkTypeStep ==
  ASSUME LinkAssumption, LinkTypeOK, HoldPart, [LinkNext]_linkVars PROVE LinkTypeOK'
<1> USE DEF CallerAt
<1>0. /\ provider \in {"github", "railway"} /\ rotates \in BOOLEAN
      /\ grants \in 0 .. MaxGrants /\ newest \in [1 .. MaxGrants -> 0 .. MaxTurns]
      /\ credentials \in Credentials \cup {Unlinked} /\ profile \in BOOLEAN
      /\ lost \subseteq 1 .. MaxGrants
      /\ \A c \in Callers : caller[c].hold \in Credentials \cup {Unlinked}
  BY DEF LinkTypeOK
<1>1. ASSUME NEW c \in Callers, NEW x \in CallerType, caller' = [caller EXCEPT ![c] = x],
             UNCHANGED <<provider, rotates>>,
             grants' \in 0 .. MaxGrants, newest' \in [1 .. MaxGrants -> 0 .. MaxTurns],
             credentials' \in Credentials \cup {Unlinked}, profile' \in BOOLEAN,
             lost' \subseteq 1 .. MaxGrants
      PROVE  LinkTypeOK'
  <2>1. caller' \in [Callers -> CallerType]
    BY <1>1, OneCaller
  <2> QED
    BY <1>0, <1>1, <2>1 DEF LinkTypeOK, CallerType
<1>2. ASSUME NEW c \in Callers, Leaves(c) PROVE \E x \in CallerType : caller' = [caller EXCEPT ![c] = x]
  BY <1>2, CallerFields DEF Leaves
<1>3. ASSUME NEW c \in Callers,
             NEW at \in {"idle", "exchange", "save", "profile", "use", "renew", "keep", "drop"},
             NEW hold \in Credentials \cup {Unlinked}, Takes(c, at, hold)
      PROVE  \E x \in CallerType : caller' = [caller EXCEPT ![c] = x]
  <2>1. caller' = [caller EXCEPT ![c] = [caller[c] EXCEPT !.at = at, !.hold = hold]]
    BY <1>3 DEF Takes, LinkTypeOK
  <2> QED
    BY <2>1, CallerFields
<1>4. ASSUME NEW c \in Callers, ConnectOauth(c) \/ DisconnectAccount(c) PROVE LinkTypeOK'
  <2>1. PICK at \in {"exchange", "drop"}, purpose \in {"connect", "disconnect"} :
          caller' = [caller EXCEPT ![c] = [caller[c] EXCEPT !.at = at, !.purpose = purpose]]
    BY <1>4 DEF ConnectOauth, DisconnectAccount, LinkTypeOK
  <2>2. [caller[c] EXCEPT !.at = at, !.purpose = purpose] \in CallerType
    <3>1. caller[c] \in CallerType
      BY DEF LinkTypeOK, CallerType
    <3> QED
      BY <3>1 DEF CallerType
  <2> QED
    BY <1>0, <1>1, <1>4, <2>1, <2>2 DEF ConnectOauth, DisconnectAccount, outside
<1>5. ASSUME NEW c \in Callers, ExchangeAtRailway(c) PROVE LinkTypeOK'
  <2>1. grants' \in 0 .. MaxGrants
    BY <1>0, <1>5 DEF ExchangeAtRailway, LinkAssumption
  <2>2. PICK h \in Credentials : Takes(c, "save", h)
    <3>1. [grant |-> Pasted, turn |-> 0, renewable |-> FALSE] \in Credentials
      BY DEF Credentials, Pasted, LinkAssumption
    <3>2. grants < MaxGrants => \A renewable \in BOOLEAN : NewGrant(renewable) \in Credentials
      BY <1>0 DEF Credentials, NewGrant, LinkAssumption
    <3> QED
      BY <1>5, <3>1, <3>2 DEF ExchangeAtRailway
  <2> QED
    BY <1>0, <1>1, <1>3, <1>5, <2>1, <2>2 DEF ExchangeAtRailway
<1>6. ASSUME NEW c \in Callers, ExchangeAtGitHub(c) PROVE LinkTypeOK'
  <2>1. grants' \in 0 .. MaxGrants /\ NewGrant(FALSE) \in Credentials
    BY <1>0, <1>6 DEF ExchangeAtGitHub, LinkAssumption, NewGrant, Credentials
  <2>2. PICK x \in CallerType : caller' = [caller EXCEPT ![c] = x]
    BY <1>2, <1>3, <1>6, <2>1 DEF ExchangeAtGitHub
  <2> QED
    BY <1>0, <1>1, <1>6, <2>1, <2>2 DEF ExchangeAtGitHub
<1>7. ASSUME NEW c \in Callers, CodeRefused(c) \/ Accepted(c) \/ UpdateProfile(c) \/ DropCredentials(c)
      PROVE  LinkTypeOK'
  <2>1. PICK x \in CallerType : caller' = [caller EXCEPT ![c] = x]
    BY <1>2, <1>7 DEF CodeRefused, Accepted, UpdateProfile, DropCredentials
  <2> QED
    BY <1>0, <1>1, <1>7, <2>1 DEF CodeRefused, Accepted, UpdateProfile, DropCredentials, outside
<1>8. ASSUME NEW c \in Callers, SaveLink(c) PROVE LinkTypeOK'
  <2>1. PICK x \in CallerType : caller' = [caller EXCEPT ![c] = x]
    BY <1>0, <1>2, <1>3, <1>8 DEF SaveLink
  <2> QED
    BY <1>0, <1>1, <1>8, <2>1 DEF SaveLink, SaveCredentials, outside
<1>9. ASSUME NEW c \in Callers, NEW purpose \in {"deploy", "monitor", "erase"}, ReadCredentials(c, purpose)
      PROVE  LinkTypeOK'
  <2>1. [at |-> "use", purpose |-> purpose, hold |-> credentials, renewed |-> FALSE] \in CallerType
    BY <1>0 DEF CallerType
  <2> QED
    BY <1>0, <1>1, <1>9, <2>1 DEF ReadCredentials, outside
<1>10. ASSUME NEW c \in Callers, Unauthorized401(c) PROVE LinkTypeOK'
  <2>1. PICK x \in CallerType : caller' = [caller EXCEPT ![c] = x]
    BY <1>0, <1>2, <1>3, <1>10 DEF Unauthorized401
  <2> QED
    BY <1>0, <1>1, <1>10, <2>1 DEF Unauthorized401, outside
<1>11. ASSUME NEW c \in Callers, CallerAt(c, "renew")
       PROVE  /\ caller[c].hold \in Credentials /\ caller[c].hold.grant \in 1 .. MaxGrants
              /\ caller[c].hold.turn \in 0 .. MaxTurns
  BY <1>0, <1>11 DEF HoldPart, Issued, Credentials, Pasted, LinkAssumption
<1>12. ASSUME NEW c \in Callers, RefreshAccessToken(c) PROVE LinkTypeOK'
  <2> DEFINE h == caller[c].hold
  <2>1. h \in Credentials /\ h.grant \in 1 .. MaxGrants /\ h.turn \in 0 .. MaxTurns
    BY <1>11, <1>12 DEF RefreshAccessToken
  <2>2. CASE rotates
    <3>1. /\ h.turn < MaxTurns /\ newest' = [newest EXCEPT ![h.grant] = h.turn + 1]
          /\ Takes(c, "keep", [h EXCEPT !.turn = @ + 1])
      BY <1>12, <2>2 DEF RefreshAccessToken
    <3> HIDE DEF h
    <3>2. h.turn + 1 \in 0 .. MaxTurns /\ [h EXCEPT !.turn = @ + 1] \in Credentials
      BY <2>1, <3>1 DEF Credentials, LinkAssumption
    <3>3. PICK x \in CallerType : caller' = [caller EXCEPT ![c] = x]
      BY <1>3, <3>1, <3>2
    <3>4. newest' \in [1 .. MaxGrants -> 0 .. MaxTurns]
      BY <1>0, <3>1, <3>2
    <3> QED
      BY <1>0, <1>1, <1>12, <3>3, <3>4 DEF RefreshAccessToken
  <2>3. CASE ~rotates
    <3>1. PICK x \in CallerType : caller' = [caller EXCEPT ![c] = x]
      BY <1>3, <1>12, <2>1, <2>3 DEF RefreshAccessToken
    <3> QED
      BY <1>0, <1>1, <1>12, <2>3, <3>1 DEF RefreshAccessToken
  <2> QED
    BY <1>0, <2>2, <2>3
<1>13. ASSUME NEW c \in Callers, RefreshFails(c) PROVE LinkTypeOK'
  <2> DEFINE h == caller[c].hold
  <2>1. h \in Credentials /\ h.grant \in 1 .. MaxGrants /\ h.turn \in 0 .. MaxTurns
    BY <1>11, <1>13 DEF RefreshFails
  <2>2. newest' \in [1 .. MaxGrants -> 0 .. MaxTurns] /\ lost' \subseteq 1 .. MaxGrants
    <3>1. CASE UNCHANGED <<newest, lost>>
      BY <1>0, <3>1
    <3>2. CASE /\ h.turn < MaxTurns /\ newest' = [newest EXCEPT ![h.grant] = h.turn + 1]
               /\ lost' = lost \cup {h.grant}
      <4> HIDE DEF h
      <4>1. h.turn + 1 \in 0 .. MaxTurns
        BY <2>1, <3>2 DEF LinkAssumption
      <4> QED
        BY <1>0, <2>1, <3>2, <4>1
    <3> QED
      BY <1>13, <3>1, <3>2 DEF RefreshFails
  <2>3. PICK x \in CallerType : caller' = [caller EXCEPT ![c] = x]
    BY <1>2, <1>13 DEF RefreshFails
  <2> QED
    BY <1>0, <1>1, <1>13, <2>2, <2>3 DEF RefreshFails
<1>14. ASSUME NEW c \in Callers, SaveRenewed(c) PROVE LinkTypeOK'
  <2>1. caller' = [caller EXCEPT ![c] = [caller[c] EXCEPT !.at = "use", !.renewed = TRUE]]
    BY <1>14 DEF SaveRenewed, LinkTypeOK
  <2>2. [caller[c] EXCEPT !.at = "use", !.renewed = TRUE] \in CallerType
    <3>1. caller[c] \in CallerType
      BY DEF LinkTypeOK, CallerType
    <3> QED
      BY <3>1 DEF CallerType
  <2> QED
    BY <1>0, <1>1, <1>14, <2>1, <2>2 DEF SaveRenewed, SaveCredentials, outside
<1>15. ASSUME NEW c \in Callers, CallerDies(c) PROVE LinkTypeOK'
  <2>1. PICK x \in CallerType : caller' = [caller EXCEPT ![c] = x]
    BY <1>2, <1>15 DEF CallerDies
  <2>2. lost' \subseteq 1 .. MaxGrants
    <3>1. caller[c].at = "keep" => caller[c].hold.grant \in 1 .. MaxGrants
      BY <1>0 DEF HoldPart, Issued, Credentials, Pasted, LinkAssumption
    <3> QED
      BY <1>0, <1>15, <3>1 DEF CallerDies
  <2> QED
    BY <1>0, <1>1, <1>15, <2>1, <2>2 DEF CallerDies
<1>16. ASSUME UNCHANGED linkVars PROVE LinkTypeOK'
  BY <1>16 DEF linkVars, LinkTypeOK
<1> QED
  BY <1>4, <1>5, <1>6, <1>7, <1>8, <1>9, <1>10, <1>12, <1>13, <1>14, <1>15, <1>16 DEF LinkNext

(***************************************************************************)
(* The four parts of the invariant over the steps that issue no token: a   *)
(* caller moves, and what it and the row hold afterwards is nothing or     *)
(* what one of the two held before.                                        *)
(***************************************************************************)
LEMMA QuietStep ==
  ASSUME LinkAssumption, LinkInv, NEW c \in Callers, NEW x \in CallerType,
         caller' = [caller EXCEPT ![c] = x], UNCHANGED <<rotates, grants, newest>>, lost \subseteq lost',
         x.hold \in {Unlinked, caller[c].hold, credentials},
         credentials' \in {Unlinked, credentials, caller[c].hold},
         x.at \in {"save", "use", "renew", "keep"} => x.hold # Unlinked,
         x.at \in {"renew", "keep"} => x.hold.renewable,
         x.at = "keep" => ~rotates /\ x.hold.turn = newest[x.hold.grant],
         x.at # "save",
         credentials' = credentials \/ credentials' = Unlinked \/ CallerAt(c, "save") \/ CallerAt(c, "keep"),
         CallerAt(c, "keep") => credentials' = caller[c].hold \/ ~rotates \/ caller[c].hold.grant \in lost'
  PROVE  HoldPart' /\ KeepPart' /\ SavePart' /\ StoredIsNewest'
<1>0. LinkTypeOK /\ HoldPart /\ KeepPart /\ SavePart /\ StoredIsNewest
  BY DEF LinkInv
<1>1. caller'[c] = x /\ \A d \in Callers \ {c} : caller'[d] = caller[d]
  BY <1>0, OneCaller
<1>2. /\ Issued(credentials) /\ \A d \in Callers : Issued(caller[d].hold)
      /\ \A h : Issued(h)' <=> Issued(h)
  BY <1>0 DEF HoldPart, Issued
<1>3. HoldPart'
  <2>1. Issued(Unlinked)
    BY DEF Issued
  <2>2. Issued(credentials') /\ Issued(x.hold)
    BY <1>2, <2>1
  <2>3. Issued(credentials)' /\ \A d \in Callers : Issued(caller[d].hold)'
    BY <1>1, <1>2, <2>2 DEF Issued
  <2>4. \A d \in Callers : /\ caller'[d].at \in {"save", "use", "renew", "keep"} => caller'[d].hold # Unlinked
                           /\ caller'[d].at \in {"renew", "keep"} => caller'[d].hold.renewable
    BY <1>0, <1>1 DEF HoldPart
  <2> QED
    BY <1>0, <2>3, <2>4 DEF HoldPart
<1>4. KeepPart'
  <2> SUFFICES ASSUME NEW d \in Callers, caller'[d].at = "keep"
               PROVE  LET k == caller'[d].hold IN
                        /\ k.turn = newest[k.grant]
                        /\ rotates => Older(credentials', k) /\ \A e \in Callers \ {d} : Older(caller'[e].hold, k)
    BY DEF KeepPart, CallerAt
  <2>1. CASE d = c
    BY <1>1, <2>1
  <2>2. CASE d # c
    <3> DEFINE k == caller[d].hold
    <3>1. /\ k.turn = newest[k.grant]
          /\ rotates => Older(credentials, k) /\ \A e \in Callers \ {d} : Older(caller[e].hold, k)
      BY <1>0, <1>1, <2>2 DEF KeepPart, CallerAt
    <3>2. caller'[d].hold = k
      BY <1>1, <2>2
    <3> HIDE DEF k
    <3>3. Older(Unlinked, k)
      BY DEF Older
    <3>4. rotates => Older(credentials', k) /\ Older(x.hold, k)
      BY <2>2, <3>1, <3>3
    <3> QED
      BY <1>1, <3>1, <3>2, <3>4
  <2> QED
    BY <2>1, <2>2
<1>5. SavePart'
  <2> SUFFICES ASSUME NEW d \in Callers, caller'[d].at = "save", caller'[d].hold.grant # Pasted
               PROVE  LET k == caller'[d].hold IN
                        /\ newest[k.grant] = 0 /\ k.turn = 0
                        /\ Apart(credentials', k) /\ \A e \in Callers \ {d} : Apart(caller'[e].hold, k)
    BY DEF SavePart, CallerAt
  <2> DEFINE k == caller[d].hold
  <2>1. d # c /\ caller'[d].hold = k
    BY <1>1
  <2>2. /\ newest[k.grant] = 0 /\ k.turn = 0
        /\ Apart(credentials, k) /\ \A e \in Callers \ {d} : Apart(caller[e].hold, k)
    BY <1>0, <1>1, <2>1 DEF SavePart, CallerAt
  <2> HIDE DEF k
  <2>3. Apart(Unlinked, k)
    BY DEF Apart
  <2>4. Apart(credentials', k) /\ Apart(x.hold, k)
    BY <2>1, <2>2, <2>3
  <2> QED
    BY <1>1, <2>1, <2>2, <2>4
<1>6. StoredIsNewest'
  <2> SUFFICES ASSUME credentials' # Unlinked, credentials'.renewable,
                      credentials'.turn # newest[credentials'.grant], credentials'.grant \notin lost'
               PROVE  \E d \in Callers : caller'[d].at = "keep" /\ caller'[d].hold.grant = credentials'.grant
    BY DEF StoredIsNewest, CallerAt
  <2>1. CASE credentials' = credentials
    <3>1. PICK d \in Callers : caller[d].at = "keep" /\ caller[d].hold.grant = credentials.grant
      BY <1>0, <2>1 DEF StoredIsNewest, CallerAt
    <3>2. CASE d # c
      BY <1>1, <2>1, <3>1, <3>2
    <3>3. CASE d = c
      <4>1. credentials' = caller[c].hold \/ ~rotates
        BY <2>1, <3>1, <3>3 DEF CallerAt
      <4>2. CASE credentials' = caller[c].hold
        BY <1>0, <3>1, <3>3, <4>2 DEF KeepPart, CallerAt
      <4>3. CASE ~rotates
        BY <1>0, <2>1, <4>3 DEF HoldPart, Issued, LinkTypeOK, Credentials, LinkAssumption, Pasted
      <4> QED
        BY <4>1, <4>2, <4>3
    <3> QED
      BY <3>2, <3>3
  <2>2. CASE credentials' = caller[c].hold /\ CallerAt(c, "save")
    BY <1>0, <2>2 DEF HoldPart, Issued, SavePart
  <2>3. CASE credentials' = caller[c].hold /\ CallerAt(c, "keep")
    BY <1>0, <2>3 DEF KeepPart
  <2> QED
    BY <2>1, <2>2, <2>3
<1> QED
  BY <1>3, <1>4, <1>5, <1>6

\* a code is exchanged: the new authorization is its caller's alone
LEMMA GrantStep ==
  ASSUME LinkAssumption, LinkInv, NEW c \in Callers, NEW x \in CallerType,
         caller' = [caller EXCEPT ![c] = x], UNCHANGED <<rotates, newest, credentials, lost>>,
         CallerAt(c, "exchange"), grants' \in 0 .. MaxGrants,
         \/ /\ x.at = "save" /\ x.hold # Unlinked /\ x.hold.turn = 0
            /\ \/ x.hold.grant = Pasted /\ ~x.hold.renewable /\ grants' = grants
               \/ x.hold.grant = grants + 1 /\ grants' = grants + 1
         \/ x = NoCaller /\ grants' = grants + 1
  PROVE  HoldPart' /\ KeepPart' /\ SavePart' /\ StoredIsNewest'
<1>0. LinkTypeOK /\ HoldPart /\ KeepPart /\ SavePart /\ StoredIsNewest
  BY DEF LinkInv
<1>1. caller'[c] = x /\ \A d \in Callers \ {c} : caller'[d] = caller[d]
  BY <1>0, OneCaller
<1>2. /\ grants \in Nat /\ grants' \in Nat /\ grants' >= grants
      /\ x.hold # Unlinked => x.hold.grant \in Nat
      /\ credentials # Unlinked => credentials.grant \in Nat
      /\ \A d \in Callers : caller[d].hold # Unlinked => caller[d].hold.grant \in Nat
  BY <1>0 DEF LinkTypeOK, CallerType, Credentials, LinkAssumption
<1>3. x.hold # Unlinked => /\ x.at = "save" /\ x.hold.turn = 0
                            /\ \/ x.hold.grant = Pasted /\ ~x.hold.renewable /\ grants' = grants
                               \/ x.hold.grant = grants + 1 /\ grants' = grants + 1
  BY DEF NoCaller
<1>4. x.hold # Unlinked /\ x.hold.grant # Pasted =>
         /\ x.hold.grant = grants + 1 /\ grants' = grants + 1 /\ newest[x.hold.grant] = 0
         /\ Apart(credentials, x.hold) /\ \A d \in Callers \ {c} : Apart(caller[d].hold, x.hold)
  <2> SUFFICES ASSUME x.hold # Unlinked, x.hold.grant # Pasted
               PROVE  /\ x.hold.grant = grants + 1 /\ grants' = grants + 1 /\ newest[x.hold.grant] = 0
                      /\ Apart(credentials, x.hold) /\ \A d \in Callers \ {c} : Apart(caller[d].hold, x.hold)
    OBVIOUS
  <2>1. x.hold.grant = grants + 1 /\ grants' = grants + 1
    BY <1>3
  <2>2. newest[grants + 1] = 0
    BY <1>0, <1>2, <2>1 DEF HoldPart, LinkAssumption
  <2>3. \A h : Issued(h) /\ (h # Unlinked => h.grant \in Nat) => Apart(h, x.hold)
    BY <1>2, <2>1 DEF Issued, Apart
  <2> QED
    BY <1>0, <1>2, <2>1, <2>2, <2>3 DEF HoldPart
<1>5. HoldPart'
  <2>1. \A h : h # Unlinked /\ h.grant \in Nat /\ Issued(h) => Issued(h)'
    BY <1>2 DEF Issued
  <2>2. Issued(credentials)' /\ \A d \in Callers \ {c} : Issued(caller[d].hold)'
    BY <1>0, <1>2, <2>1 DEF HoldPart, Issued
  <2>3. Issued(x.hold)'
    <3>1. CASE x.hold = Unlinked
      BY <3>1 DEF Issued
    <3>2. CASE x.hold # Unlinked
      <4>1. x.hold.grant <= grants' /\ (x.hold.renewable => x.hold.grant # Pasted)
        BY <1>2, <1>3, <3>2 DEF Pasted
      <4>2. x.hold.grant # Pasted => x.hold.turn <= newest[x.hold.grant]
        BY <1>3, <1>4, <3>2
      <4> QED
        BY <4>1, <4>2 DEF Issued
    <3> QED
      BY <3>1, <3>2
  <2>4. \A g \in 1 .. MaxGrants : g > grants' \/ ~rotates => newest[g] = 0
    BY <1>0, <1>2 DEF HoldPart
  <2>5. x.at \notin {"use", "renew", "keep"} /\ (x.at = "save" => x.hold # Unlinked)
    BY DEF NoCaller
  <2> QED
    BY <1>0, <1>1, <2>2, <2>3, <2>4, <2>5 DEF HoldPart
<1>6. KeepPart'
  <2> SUFFICES ASSUME NEW d \in Callers, caller'[d].at = "keep"
               PROVE  LET k == caller'[d].hold IN
                        /\ k.turn = newest[k.grant]
                        /\ rotates => Older(credentials, k) /\ \A e \in Callers \ {d} : Older(caller'[e].hold, k)
    BY DEF KeepPart, CallerAt
  <2> DEFINE k == caller[d].hold
  <2>1. d # c /\ caller'[d].hold = k
    BY <1>1 DEF NoCaller
  <2>2. /\ k.turn = newest[k.grant] /\ k # Unlinked /\ k.grant # Pasted
        /\ rotates => Older(credentials, k) /\ \A e \in Callers \ {d} : Older(caller[e].hold, k)
    BY <1>0, <1>1, <2>1 DEF KeepPart, CallerAt, HoldPart, Issued
  <2>3. Older(x.hold, k)
    BY <1>4, <2>1, <2>2 DEF Apart, Older
  <2> QED
    BY <1>1, <2>1, <2>2, <2>3
<1>7. SavePart'
  <2> SUFFICES ASSUME NEW d \in Callers, caller'[d].at = "save", caller'[d].hold.grant # Pasted
               PROVE  LET k == caller'[d].hold IN
                        /\ newest[k.grant] = 0 /\ k.turn = 0
                        /\ Apart(credentials, k) /\ \A e \in Callers \ {d} : Apart(caller'[e].hold, k)
    BY DEF SavePart, CallerAt
  <2>1. CASE d = c
    <3>1. x.at = "save" /\ x.hold # Unlinked /\ x.hold.turn = 0
      BY <1>1, <2>1 DEF NoCaller
    <3> QED
      BY <1>1, <1>4, <2>1, <3>1
  <2>2. CASE d # c
    <3> DEFINE k == caller[d].hold
    <3>1. /\ newest[k.grant] = 0 /\ k.turn = 0 /\ caller'[d].hold = k /\ k # Unlinked /\ k.grant # Pasted
          /\ Apart(credentials, k) /\ \A e \in Callers \ {d} : Apart(caller[e].hold, k)
      BY <1>0, <1>1, <2>2 DEF SavePart, CallerAt, HoldPart
    <3>2. Apart(x.hold, k)
      BY <1>4, <2>2, <3>1 DEF Apart
    <3> QED
      BY <1>1, <3>1, <3>2
  <2> QED
    BY <2>1, <2>2
<1>8. StoredIsNewest'
  <2>1. \A d \in Callers : caller[d].at = "keep" => caller'[d] = caller[d]
    BY <1>1 DEF CallerAt
  <2> QED
    BY <1>0, <2>1 DEF StoredIsNewest, CallerAt
<1> QED
  BY <1>5, <1>6, <1>7, <1>8

\* Railway replaces the token of caller c: its caller keeps the new one, or it is lost
LEMMA RotationStep ==
  ASSUME LinkAssumption, LinkInv, NEW c \in Callers, NEW x \in CallerType,
         caller' = [caller EXCEPT ![c] = x], UNCHANGED <<rotates, grants, credentials>>,
         CallerAt(c, "renew"), rotates, caller[c].hold.turn = newest[caller[c].hold.grant],
         newest' = [newest EXCEPT ![caller[c].hold.grant] = caller[c].hold.turn + 1],
         \/ /\ x.at = "keep" /\ x.hold \in Credentials /\ x.hold.renewable /\ lost' = lost
            /\ x.hold.grant = caller[c].hold.grant /\ x.hold.turn = caller[c].hold.turn + 1
         \/ x = NoCaller /\ lost' = lost \cup {caller[c].hold.grant}
  PROVE  HoldPart' /\ KeepPart' /\ SavePart' /\ StoredIsNewest'
<1> DEFINE h == caller[c].hold
<1>0. LinkTypeOK /\ HoldPart /\ KeepPart /\ SavePart /\ StoredIsNewest
  BY DEF LinkInv
<1>1. caller'[c] = x /\ \A d \in Callers \ {c} : caller'[d] = caller[d]
  BY <1>0, OneCaller
<1>2. /\ h \in Credentials /\ h # Unlinked /\ h.renewable /\ h.grant # Pasted /\ h.grant \in 1 .. grants
      /\ h.turn \in Nat /\ h.turn = newest[h.grant]
      /\ h.grant \in 1 .. MaxGrants /\ newest \in [1 .. MaxGrants -> 0 .. MaxTurns]
  BY <1>0 DEF HoldPart, Issued, LinkTypeOK, CallerAt, Credentials, LinkAssumption, Pasted
<1>3. newest'[h.grant] = h.turn + 1 /\ \A g \in 1 .. MaxGrants \ {h.grant} : newest'[g] = newest[g]
  BY <1>2
<1>4. \/ x.at = "keep" /\ x.hold.grant = h.grant /\ x.hold.turn = h.turn + 1 /\ x.hold.renewable /\ x.hold # Unlinked /\ lost' = lost
      \/ x.at = "idle" /\ x.hold = Unlinked /\ lost' = lost \cup {h.grant}
  BY DEF LinkAssumption, NoCaller
<1> HIDE DEF h
<1>5. /\ grants' = grants /\ rotates' = rotates /\ credentials' = credentials
      /\ \A d \in Callers : caller[d].hold = Unlinked \/ caller[d].hold \in Credentials
      /\ credentials = Unlinked \/ credentials \in Credentials
  BY <1>0 DEF LinkTypeOK
<1>6. \A d \in Callers : /\ caller[d].hold # Unlinked => /\ caller[d].hold.turn \in Nat /\ caller[d].hold.grant \in 0 .. MaxGrants
                         /\ caller'[d].at \in {"save", "keep"} => d = c \/ caller'[d] = caller[d]
  BY <1>1, <1>5 DEF Credentials, LinkAssumption
<1>7. \A k : Issued(k) /\ k \in Credentials => Issued(k)'
  BY <1>2, <1>3 DEF Issued, Credentials, LinkAssumption, Pasted
<1>8. HoldPart'
  <2>1. Issued(x.hold)'
    BY <1>0, <1>2, <1>3, <1>4 DEF Issued, HoldPart
  <2>2. Issued(Unlinked)'
    BY DEF Issued
  <2>3. Issued(credentials)' /\ \A d \in Callers \ {c} : Issued(caller[d].hold)'
    BY <1>0, <1>1, <1>5, <1>7, <2>2 DEF HoldPart
  <2>4. \A g \in 1 .. MaxGrants : g > grants => newest'[g] = 0
    BY <1>0, <1>2, <1>3 DEF HoldPart, LinkTypeOK
  <2>5. \A d \in Callers : /\ caller'[d].at \in {"save", "use", "renew", "keep"} => caller'[d].hold # Unlinked
                           /\ caller'[d].at \in {"renew", "keep"} => caller'[d].hold.renewable
    BY <1>0, <1>1, <1>4 DEF HoldPart
  <2>6. \A d \in Callers : Issued(caller[d].hold)'
    BY <1>1, <2>1, <2>3 DEF Issued
  <2> QED
    <3>1. Issued(credentials)'
      BY <2>3
    <3>2. \A g \in 1 .. MaxGrants : g > grants' => newest'[g] = 0
      BY <1>5, <2>4
    <3>3. rotates'
      BY <1>0, <1>5
    <3> QED
      BY <2>5, <2>6, <3>1, <3>2, <3>3 DEF HoldPart
<1>9. ASSUME NEW d \in Callers, d # c, CallerAt(d, "keep") \/ (CallerAt(d, "save") /\ caller[d].hold.grant # Pasted)
      PROVE  caller[d].hold.grant # h.grant
  <2>1. CASE CallerAt(d, "keep")
    <3>1. Older(h, caller[d].hold) /\ caller[d].hold.turn = newest[caller[d].hold.grant]
      BY <1>0, <1>9, <2>1 DEF KeepPart, h
    <3> QED
      BY <1>2, <3>1 DEF Older
  <2>2. CASE CallerAt(d, "save") /\ caller[d].hold.grant # Pasted
    BY <1>0, <1>2, <1>9, <2>2 DEF SavePart, Apart, h
  <2> QED
    BY <1>9, <2>1, <2>2
<1>10. KeepPart'
  <2> SUFFICES ASSUME NEW d \in Callers, caller'[d].at = "keep"
               PROVE  LET k == caller'[d].hold IN
                        /\ k.turn = newest'[k.grant]
                        /\ Older(credentials, k) /\ \A e \in Callers \ {d} : Older(caller'[e].hold, k)
    BY DEF KeepPart, CallerAt
  <2>1. CASE d = c
    <3>1. x.hold.grant = h.grant /\ x.hold.turn = h.turn + 1
      BY <1>1, <1>4, <2>1
    <3>2. \A k : Issued(k) /\ (k = Unlinked \/ k \in Credentials) => Older(k, x.hold)
      BY <1>2, <3>1 DEF Issued, Older, Credentials
    <3> QED
      BY <1>0, <1>1, <1>3, <1>5, <2>1, <3>1, <3>2 DEF HoldPart
  <2>2. CASE d # c
    <3> DEFINE k == caller[d].hold
    <3>1. caller'[d].hold = k /\ CallerAt(d, "keep") /\ k.grant # h.grant /\ k \in Credentials /\ k.renewable
      <4>1. caller'[d] = caller[d] /\ caller[d].at = "keep"
        BY <1>1, <2>2
      <4>2. CallerAt(d, "keep") /\ caller[d].hold # Unlinked /\ caller[d].hold.renewable
        BY <1>0, <4>1 DEF CallerAt, HoldPart
      <4>3. caller[d].hold.grant # h.grant
        BY <1>9, <2>2, <4>2
      <4> QED
        BY <1>5, <4>1, <4>2, <4>3
    <3>2. k.turn = newest[k.grant] /\ Older(credentials, k) /\ \A e \in Callers \ {d} : Older(caller[e].hold, k)
      BY <1>0, <3>1 DEF KeepPart
    <3>3. k.grant \in 1 .. MaxGrants
      BY <1>0, <3>1 DEF HoldPart, Issued, Credentials, LinkAssumption, Pasted
    <3>4. Older(x.hold, k)
      BY <1>4, <3>1 DEF Older
    <3> HIDE DEF k
    <3> QED
      BY <1>1, <1>3, <3>1, <3>2, <3>3, <3>4
  <2> QED
    BY <2>1, <2>2
<1>11. SavePart'
  <2> SUFFICES ASSUME NEW d \in Callers, caller'[d].at = "save", caller'[d].hold.grant # Pasted
               PROVE  LET k == caller'[d].hold IN
                        /\ newest'[k.grant] = 0 /\ k.turn = 0
                        /\ Apart(credentials, k) /\ \A e \in Callers \ {d} : Apart(caller'[e].hold, k)
    BY DEF SavePart, CallerAt
  <2> DEFINE k == caller[d].hold
  <2>1. d # c /\ caller'[d].hold = k /\ CallerAt(d, "save") /\ k.grant # Pasted /\ k \in Credentials
    BY <1>0, <1>1, <1>4, <1>5 DEF CallerAt, HoldPart
  <2>2. newest[k.grant] = 0 /\ k.turn = 0 /\ Apart(credentials, k) /\ \A e \in Callers \ {d} : Apart(caller[e].hold, k)
    BY <1>0, <2>1 DEF SavePart
  <2>3. k.grant # h.grant /\ k.grant \in 1 .. MaxGrants
    BY <1>9, <2>1 DEF Credentials, LinkAssumption, Pasted
  <2>4. Apart(x.hold, k)
    BY <1>4, <2>3 DEF Apart
  <2> HIDE DEF k
  <2> QED
    BY <1>1, <1>3, <2>1, <2>2, <2>3, <2>4
<1>12. StoredIsNewest'
  <2> SUFFICES ASSUME credentials # Unlinked, credentials.renewable,
                      credentials.turn # newest'[credentials.grant], credentials.grant \notin lost'
               PROVE  \E d \in Callers : caller'[d].at = "keep" /\ caller'[d].hold.grant = credentials.grant
    BY DEF StoredIsNewest, CallerAt
  <2>1. CASE credentials.grant = h.grant
    BY <1>1, <1>4, <2>1
  <2>2. CASE credentials.grant # h.grant
    <3>1. credentials.grant \in 1 .. MaxGrants
      BY <1>0, <1>5 DEF HoldPart, Issued, Credentials, LinkAssumption, Pasted
    <3>2. newest'[credentials.grant] = newest[credentials.grant] /\ credentials.grant \notin lost
      BY <1>3, <1>4, <2>2, <3>1
    <3>3. PICK d \in Callers : CallerAt(d, "keep") /\ caller[d].hold.grant = credentials.grant
      BY <1>0, <3>2 DEF StoredIsNewest
    <3> QED
      BY <1>1, <3>3 DEF CallerAt
  <2> QED
    BY <2>1, <2>2
<1> QED
  BY <1>8, <1>10, <1>11, <1>12
-----------------------------------------------------------------------------
\* every step keeps the four parts of the invariant
LEMMA LinkPartsStep ==
  ASSUME LinkAssumption, LinkInv, [LinkNext]_linkVars
  PROVE  HoldPart' /\ KeepPart' /\ SavePart' /\ StoredIsNewest'
<1> DEFINE Parts == HoldPart' /\ KeepPart' /\ SavePart' /\ StoredIsNewest'
<1>0. LinkTypeOK /\ HoldPart /\ KeepPart /\ SavePart /\ StoredIsNewest
  BY DEF LinkInv
<1>a. /\ caller \in [Callers -> CallerType] /\ NoCaller \in CallerType /\ grants \in 0 .. MaxGrants
      /\ credentials \in Credentials \cup {Unlinked} /\ provider \in {"github", "railway"}
  BY <1>0 DEF LinkTypeOK, CallerType, NoCaller
<1> HIDE DEF Parts
<1>1. ASSUME NEW c \in Callers, ConnectOauth(c) PROVE Parts
  <2> DEFINE x == [caller[c] EXCEPT !.at = "exchange", !.purpose = "connect"]
  <2>1. x \in CallerType /\ x.hold = caller[c].hold /\ x.at = "exchange"
    BY <1>a DEF CallerType
  <2>2. caller' = [caller EXCEPT ![c] = x]
    BY <1>1, <1>a DEF ConnectOauth
  <2> HIDE DEF x
  <2> QED
    BY <1>1, <2>1, <2>2, QuietStep DEF ConnectOauth, outside, CallerAt, Parts
<1>2. ASSUME NEW c \in Callers, DisconnectAccount(c) PROVE Parts
  <2> DEFINE x == [caller[c] EXCEPT !.at = "drop", !.purpose = "disconnect"]
  <2>1. x \in CallerType /\ x.hold = caller[c].hold /\ x.at = "drop"
    BY <1>a DEF CallerType
  <2>2. caller' = [caller EXCEPT ![c] = x]
    BY <1>2, <1>a DEF DisconnectAccount
  <2> HIDE DEF x
  <2> QED
    BY <1>2, <2>1, <2>2, QuietStep DEF DisconnectAccount, outside, CallerAt, Parts
<1>3. ASSUME NEW c \in Callers, Leaves(c), UNCHANGED <<rotates, grants, newest>>, lost \subseteq lost',
             credentials' \in {credentials, Unlinked}, CallerAt(c, "keep") /\ rotates => caller[c].hold.grant \in lost'
      PROVE  Parts
  <2>1. NoCaller.hold = Unlinked /\ NoCaller.at = "idle" /\ caller' = [caller EXCEPT ![c] = NoCaller]
    BY <1>3 DEF NoCaller, Leaves
  <2> QED
    BY <1>3, <1>a, <2>1, QuietStep DEF Parts
<1>4. ASSUME NEW c \in Callers, CodeRefused(c) \/ UpdateProfile(c) \/ DropCredentials(c) \/ Accepted(c) PROVE Parts
  BY <1>3, <1>4 DEF CodeRefused, UpdateProfile, DropCredentials, Accepted, outside, CallerAt
<1>5. ASSUME NEW c \in Callers, CallerDies(c) PROVE Parts
  BY <1>3, <1>5 DEF CallerDies
<1>6. ASSUME NEW c \in Callers, ExchangeAtRailway(c) PROVE Parts
  <2>1. PICK h : /\ Takes(c, "save", h) /\ h.turn = 0 /\ h \in Credentials
                 /\ \/ h.grant = Pasted /\ ~h.renewable /\ grants' = grants
                    \/ h.grant = grants + 1 /\ grants' = grants + 1 /\ grants < MaxGrants
    <3>1. LET h == [grant |-> Pasted, turn |-> 0, renewable |-> FALSE]
          IN  h \in Credentials /\ h.turn = 0 /\ h.grant = Pasted /\ ~h.renewable
      BY DEF Credentials, Pasted, LinkAssumption
    <3>2. \A renewable \in BOOLEAN : LET h == NewGrant(renewable) IN
             grants < MaxGrants => h \in Credentials /\ h.turn = 0 /\ h.grant = grants + 1
      BY <1>a DEF Credentials, NewGrant, LinkAssumption
    <3> QED
      BY <1>6, <3>1, <3>2 DEF ExchangeAtRailway
  <2> DEFINE x == [caller[c] EXCEPT !.at = "save", !.hold = h]
  <2>2. caller' = [caller EXCEPT ![c] = x] /\ h # Unlinked
    BY <1>a, <2>1 DEF Takes, LinkAssumption
  <2>3. x \in CallerType /\ x.at = "save" /\ x.hold = h
    BY <1>a, <2>1 DEF CallerType
  <2>4. grants' \in 0 .. MaxGrants
    BY <1>a, <2>1 DEF LinkAssumption
  <2> HIDE DEF x
  <2> QED
    BY <1>6, <2>1, <2>2, <2>3, <2>4, GrantStep DEF ExchangeAtRailway, Parts
<1>7. ASSUME NEW c \in Callers, ExchangeAtGitHub(c) PROVE Parts
  <2>1. grants' = grants + 1 /\ grants' \in 0 .. MaxGrants
    BY <1>7, <1>a DEF ExchangeAtGitHub, LinkAssumption
  <2>2. CASE Leaves(c)
    BY <1>7, <1>a, <2>1, <2>2, GrantStep DEF Leaves, ExchangeAtGitHub, Parts
  <2>3. CASE Takes(c, "save", NewGrant(FALSE))
    <3> DEFINE h == NewGrant(FALSE)
               x == [caller[c] EXCEPT !.at = "save", !.hold = h]
    <3>1. h \in Credentials /\ h.turn = 0 /\ h.grant = grants + 1 /\ h # Unlinked
      <4>1. h = [grant |-> grants + 1, turn |-> 0, renewable |-> FALSE] /\ grants + 1 \in 0 .. MaxGrants /\ 0 \in 0 .. MaxTurns
        BY <1>a, <2>1 DEF NewGrant, LinkAssumption
      <4> HIDE DEF h
      <4>2. h \in Credentials
        BY <4>1 DEF Credentials
      <4> QED
        BY <4>1, <4>2 DEF LinkAssumption
    <3> HIDE DEF h
    <3>2. caller' = [caller EXCEPT ![c] = x]
      BY <1>a, <2>3 DEF Takes, h
    <3>3. x \in CallerType /\ x.at = "save" /\ x.hold = h
      BY <1>a, <3>1 DEF CallerType
    <3> HIDE DEF x
    <3> QED
      BY <1>7, <2>1, <3>1, <3>2, <3>3, GrantStep DEF ExchangeAtGitHub, Parts
  <2> QED
    BY <1>7, <2>2, <2>3 DEF ExchangeAtGitHub
<1>8. ASSUME NEW c \in Callers, NEW at \in {"profile", "drop", "renew"}, Takes(c, at, caller[c].hold),
             UNCHANGED <<rotates, grants, newest, lost>>,
             ~CallerAt(c, "keep"), at = "renew" => caller[c].hold.renewable /\ caller[c].hold # Unlinked,
             \/ credentials' = credentials
             \/ CallerAt(c, "save") /\ credentials' = caller[c].hold
      PROVE  Parts
  <2> DEFINE x == [caller[c] EXCEPT !.at = at, !.hold = caller[c].hold]
  <2>1. x \in CallerType /\ x.at = at /\ x.hold = caller[c].hold
    BY <1>a DEF CallerType
  <2>2. caller' = [caller EXCEPT ![c] = x]
    BY <1>8, <1>a DEF Takes
  <2> HIDE DEF x
  <2> QED
    BY <1>8, <2>1, <2>2, QuietStep DEF Parts
<1>9. ASSUME NEW c \in Callers, SaveLink(c) PROVE Parts
  <2>1. CASE Takes(c, "profile", caller[c].hold)
    BY <1>8, <1>9, <2>1 DEF SaveLink, SaveCredentials, outside, CallerAt
  <2>2. CASE Leaves(c)
    <3>1. NoCaller.hold = Unlinked /\ NoCaller.at = "idle" /\ caller' = [caller EXCEPT ![c] = NoCaller]
      BY <2>2 DEF NoCaller, Leaves
    <3> QED
      BY <1>9, <1>a, <3>1, QuietStep DEF SaveLink, SaveCredentials, outside, CallerAt, Parts
  <2> QED
    BY <1>9, <2>1, <2>2 DEF SaveLink
<1>10. ASSUME NEW c \in Callers, Unauthorized401(c) PROVE Parts
  <2>1. CallerAt(c, "use") /\ caller[c].hold # Unlinked /\ UNCHANGED <<rotates, grants, newest, lost, credentials>>
        /\ ~CallerAt(c, "keep")
    BY <1>0, <1>10 DEF Unauthorized401, HoldPart, CallerAt, outside
  <2>2. \/ Leaves(c) \/ Takes(c, "drop", caller[c].hold)
        \/ caller[c].hold.renewable /\ Takes(c, "renew", caller[c].hold)
    BY <1>10 DEF Unauthorized401
  <2>a. UNCHANGED <<rotates, grants, newest, lost>> /\ credentials' = credentials
    BY <2>1
  <2>3. ASSUME Takes(c, "drop", caller[c].hold) PROVE Parts
    BY ONLY <1>8, <2>1, <2>a, <2>3, c \in Callers
  <2>4. ASSUME Takes(c, "renew", caller[c].hold), caller[c].hold.renewable PROVE Parts
    BY ONLY <1>8, <2>1, <2>a, <2>4, c \in Callers
  <2>5. ASSUME Leaves(c) PROVE Parts
    BY <1>3, <2>1, <2>5
  <2> QED
    BY <2>2, <2>3, <2>4, <2>5
<1>11. ASSUME NEW c \in Callers, NEW purpose \in {"deploy", "monitor", "erase"}, ReadCredentials(c, purpose) PROVE Parts
  <2> DEFINE x == [at |-> "use", purpose |-> purpose, hold |-> credentials, renewed |-> FALSE]
  <2>1. x \in CallerType /\ x.at = "use" /\ x.hold = credentials
    BY <1>a DEF CallerType
  <2> HIDE DEF x
  <2> QED
    BY <1>11, <2>1, QuietStep DEF ReadCredentials, outside, CallerAt, Parts, x
<1>12. ASSUME NEW c \in Callers, RefreshAccessToken(c) PROVE Parts
  <2> DEFINE h == caller[c].hold
  <2>1. h \in Credentials /\ h.renewable /\ h # Unlinked /\ h.turn = newest[h.grant]
    BY <1>0, <1>12, <1>a DEF RefreshAccessToken, CallerAt, HoldPart, CallerType
  <2>2. CASE rotates
    <3> DEFINE k == [h EXCEPT !.turn = @ + 1]
               x == [caller[c] EXCEPT !.at = "keep", !.hold = k]
    <3>1. h.turn + 1 \in 0 .. MaxTurns /\ h.turn < MaxTurns
      BY <1>12, <2>1, <2>2 DEF RefreshAccessToken, Credentials, LinkAssumption
    <3> HIDE DEF h
    <3>2. k \in Credentials /\ k.grant = h.grant /\ k.turn = h.turn + 1 /\ k.renewable
      BY <2>1, <3>1 DEF Credentials
    <3> HIDE DEF k
    <3>3. x \in CallerType /\ x.at = "keep" /\ x.hold = k
      BY <1>a, <3>2 DEF CallerType
    <3>4. caller' = [caller EXCEPT ![c] = x]
      BY <1>12, <1>a, <2>2 DEF RefreshAccessToken, Takes, h, k
    <3> HIDE DEF x
    <3> QED
      BY <1>12, <2>1, <2>2, <3>2, <3>3, <3>4, RotationStep DEF RefreshAccessToken, Parts, h
  <2>3. CASE ~rotates
    <3> DEFINE x == [caller[c] EXCEPT !.at = "keep", !.hold = h]
    <3>1. x \in CallerType /\ x.at = "keep" /\ x.hold = h
      BY <1>a DEF CallerType
    <3>2. caller' = [caller EXCEPT ![c] = x]
      BY <1>12, <1>a, <2>3 DEF RefreshAccessToken, Takes
    <3> HIDE DEF x
    <3> QED
      BY <1>12, <2>1, <2>3, <3>1, <3>2, QuietStep DEF RefreshAccessToken, Parts, CallerAt
  <2> QED
    BY <2>2, <2>3
<1>13. ASSUME NEW c \in Callers, RefreshFails(c) PROVE Parts
  <2>1. CASE UNCHANGED <<newest, lost>>
    BY <1>3, <1>13, <2>1 DEF RefreshFails, CallerAt
  <2>2. CASE ~UNCHANGED <<newest, lost>>
    BY <1>13, <1>a, <2>2, RotationStep DEF RefreshFails, Leaves, Parts
  <2> QED
    BY <2>1, <2>2
<1>14. ASSUME NEW c \in Callers, SaveRenewed(c) PROVE Parts
  <2> DEFINE x == [caller[c] EXCEPT !.at = "use", !.renewed = TRUE]
  <2>1. x \in CallerType /\ x.hold = caller[c].hold /\ x.at = "use"
    BY <1>a DEF CallerType
  <2>2. caller' = [caller EXCEPT ![c] = x]
    BY <1>14, <1>a DEF SaveRenewed
  <2> HIDE DEF x
  <2> QED
    BY <1>0, <1>14, <2>1, <2>2, QuietStep DEF SaveRenewed, SaveCredentials, outside, CallerAt, HoldPart, Parts
<1>15. ASSUME UNCHANGED linkVars PROVE Parts
  BY <1>0, <1>15 DEF linkVars, HoldPart, Issued, KeepPart, Older, SavePart, Apart, StoredIsNewest, CallerAt, Parts
<1> QED
  BY <1>1, <1>2, <1>4, <1>5, <1>6, <1>7, <1>9, <1>10, <1>11, <1>12, <1>13, <1>14, <1>15 DEF LinkNext, Parts

(***************************************************************************)
(* LinkInv is inductive: it holds of every state of a behaviour.           *)
(***************************************************************************)
THEOREM LinkInvariant == ASSUME LinkAssumption PROVE LinkSpec => []LinkInv
<1>1. LinkInit => LinkInv
  BY LinkInit_Inv
<1>2. LinkInv /\ [LinkNext]_linkVars => LinkInv'
  BY LinkTypeStep, LinkPartsStep DEF LinkInv
<1> QED
  BY <1>1, <1>2, PTL DEF LinkSpec

(***************************************************************************)
(* The row, the callers and what Railway keeps have their types.           *)
(***************************************************************************)
THEOREM LinkTypeCorrect == ASSUME LinkAssumption PROVE LinkSpec => []LinkTypeOK
<1>1. LinkInv => LinkTypeOK
  BY DEF LinkInv
<1> QED
  BY <1>1, LinkInvariant, PTL

(***************************************************************************)
(* However many callers renew the same row, it holds the refresh token     *)
(* Railway accepts, unless who renewed it is about to save it or died.     *)
(***************************************************************************)
THEOREM StoredIsNewestHolds == ASSUME LinkAssumption PROVE LinkSpec => []StoredIsNewest
<1>1. LinkInv => StoredIsNewest
  BY DEF LinkInv
<1> QED
  BY <1>1, LinkInvariant, PTL

-----------------------------------------------------------------------------
(***************************************************************************)
(* The configuration of the model and its cache: that a replaced one is    *)
(* used by no call that begins a time to live later, and that one call at  *)
(* a time renews an entry.                                                 *)
(***************************************************************************)
\* a call of the model, and an entry of the cache
CallType == [user : ModelUsers \cup {NoCall}, stage : {"idle", "waiting", "asking", "read", "resolved", "calling", "over"},
             begun : 0 .. LastInstant, stamp : 0 .. LastInstant, config : 0 .. MaxSaves,
             permit : BOOLEAN, attempt : 0 .. MaxAttempts]
EntryType == [since : -Ttl .. LastInstant, config : 0 .. MaxSaves]

ModelTypeOK ==
  /\ instant \in 0 .. LastInstant
  /\ configRow \in [ModelUsers -> 0 .. MaxSaves]
  /\ configCache \in [ModelUsers -> EntryType]
  /\ configLock \in [ModelUsers -> Calls \cup {NoCall}]
  /\ retired \in [ModelUsers -> [1 .. MaxSaves -> 0 .. Never]]
  /\ call \in [Calls -> CallType]

(***************************************************************************)
(* What is in the table was not replaced; what is in the cache was not     *)
(* when the query that fetched it began; a call has a user, and what it    *)
(* read was not replaced when it asked.                                    *)
(***************************************************************************)
RowPart == \A u \in ModelUsers : configRow[u] # NoConfig => retired[u][configRow[u]] = Never
Recent(u, config, t) == config # NoConfig => retired[u][config] >= t
CachePart == \A u \in ModelUsers : /\ configCache[u].since <= instant
                                   /\ Recent(u, configCache[u].config, configCache[u].since)
CallPart ==
  \A c \in Calls : /\ call[c].begun <= instant /\ call[c].stamp <= instant
                   /\ call[c].stage = "idle" => call[c].config = NoConfig
                   /\ call[c].stage # "idle" => call[c].user \in ModelUsers
                   /\ call[c].stage = "read" => Recent(call[c].user, call[c].config, call[c].stamp)

(***************************************************************************)
(* The entry of a user is renewed by one call at a time.                   *)
(***************************************************************************)
OneRenews == \A c \in Calls : call[c].stage \in {"asking", "read"} => configLock[call[c].user] = c

ModelInv == ModelTypeOK /\ RowPart /\ CachePart /\ CallPart /\ OneRenews /\ ReplacedConfigExpires

\* the first state
LEMMA ModelInit_Inv == ASSUME ModelAssumption, ModelInit PROVE ModelInv
<1>1. Unasked \in CallType
  <2>1. 0 \in 0 .. LastInstant /\ 0 \in 0 .. MaxSaves /\ 0 \in 0 .. MaxAttempts
    BY DEF ModelAssumption
  <2> QED
    BY <2>1 DEF Unasked, CallType, NoConfig
<1>2. Uncached \in EntryType /\ Uncached.since = -Ttl /\ Uncached.config = 0
  BY DEF Uncached, EntryType, ModelAssumption, NoConfig
<1>3. call \in [Calls -> CallType] /\ configCache \in [ModelUsers -> EntryType]
  BY <1>1, <1>2 DEF ModelInit
<1>4. retired \in [ModelUsers -> [1 .. MaxSaves -> 0 .. Never]] /\ instant \in 0 .. LastInstant
  BY DEF ModelInit, Never, ModelAssumption
<1>5. ModelTypeOK
  <2>1. 0 \in 0 .. MaxSaves
    BY DEF ModelAssumption
  <2>2. configRow \in [ModelUsers -> 0 .. MaxSaves] /\ configLock \in [ModelUsers -> Calls \cup {NoCall}]
    BY <2>1 DEF ModelInit, NoConfig
  <2> QED
    BY <1>3, <1>4, <2>2 DEF ModelTypeOK
<1>6. \A c \in Calls : /\ call[c].stage = "idle" /\ call[c].config = 0 /\ call[c].begun = 0 /\ call[c].stamp = 0
  BY DEF ModelInit, Unasked, NoConfig
<1>7. RowPart /\ CachePart
  BY <1>2 DEF ModelInit, RowPart, CachePart, Recent, NoConfig, ModelAssumption
<1>8. CallPart /\ OneRenews /\ ReplacedConfigExpires
  BY <1>6 DEF ModelInit, CallPart, OneRenews, ReplacedConfigExpires, NoConfig
<1> QED
  BY <1>5, <1>7, <1>8 DEF ModelInv

\* a call moves, and neither the clock nor the table does
LEMMA CallMoves ==
  ASSUME ModelAssumption, ModelInv, NEW c \in Calls, NEW x \in CallType,
         call' = [call EXCEPT ![c] = x], UNCHANGED <<instant, configRow, retired>>,
         x.stage # "idle", x.user \in ModelUsers, x.begun <= instant, x.stamp <= instant,
         x.config # NoConfig => retired[x.user][x.config] > x.begun - Ttl,
         x.stage = "read" => Recent(x.user, x.config, x.stamp)
  PROVE  /\ call' \in [Calls -> CallType] /\ call'[c] = x /\ \A d \in Calls \ {c} : call'[d] = call[d]
         /\ RowPart' /\ CallPart' /\ ReplacedConfigExpires'
<1>0. ModelTypeOK /\ RowPart /\ CallPart /\ ReplacedConfigExpires
  BY DEF ModelInv
<1>1. call' \in [Calls -> CallType] /\ call'[c] = x /\ \A d \in Calls \ {c} : call'[d] = call[d]
  BY <1>0 DEF ModelTypeOK
<1>2. RowPart'
  BY <1>0 DEF RowPart
<1>3. ReplacedConfigExpires'
  BY <1>0, <1>1 DEF ReplacedConfigExpires
<1>4. CallPart'
  BY <1>0, <1>1 DEF CallPart, Recent
<1> QED
  BY <1>1, <1>2, <1>3, <1>4

\* what is fresh in the cache was replaced less than a time to live ago
LEMMA FreshServes ==
  ASSUME ModelAssumption, ModelInv, NEW u \in ModelUsers, Fresh(u), NEW t \in 0 .. instant
  PROVE  configCache[u].config # NoConfig => retired[u][configCache[u].config] > t - Ttl
<1>1. /\ configCache[u] \in EntryType /\ instant \in 0 .. LastInstant
      /\ retired \in [ModelUsers -> [1 .. MaxSaves -> 0 .. Never]]
  BY DEF ModelInv, ModelTypeOK
<1>2. configCache[u].config # NoConfig => retired[u][configCache[u].config] >= configCache[u].since
  BY DEF ModelInv, CachePart, Recent
<1>3. configCache[u].since \in Int /\ configCache[u].config \in 0 .. MaxSaves
  BY <1>1 DEF EntryType, ModelAssumption
<1>4. configCache[u].config # NoConfig => retired[u][configCache[u].config] \in 0 .. Never
  BY <1>1, <1>3 DEF NoConfig, ModelAssumption
<1> QED
  BY <1>1, <1>2, <1>3, <1>4 DEF Fresh, ModelAssumption, Never

\* a step of a call
LEMMA CallStep ==
  ASSUME ModelAssumption, ModelInv, NEW c \in Calls,
         \/ \E u \in ModelUsers : BeginCall(c, u)
         \/ TakeConfigLock(c) \/ ReadConfig(c) \/ StoreConfig(c) \/ Abandon(c)
         \/ Complete(c) \/ Stream(c) \/ TryAgain(c) \/ EndCall(c)
  PROVE  ModelInv'
<1> DEFINE q == call[c]
<1>0. /\ ModelTypeOK /\ RowPart /\ CachePart /\ CallPart /\ OneRenews /\ ReplacedConfigExpires
      /\ q \in CallType /\ instant \in 0 .. LastInstant /\ instant \in Nat /\ Ttl \in Nat \ {0}
      /\ configRow \in [ModelUsers -> 0 .. MaxSaves] /\ configCache \in [ModelUsers -> EntryType]
      /\ configLock \in [ModelUsers -> Calls \cup {NoCall}] /\ call \in [Calls -> CallType]
      /\ retired \in [ModelUsers -> [1 .. MaxSaves -> 0 .. Never]] /\ NoCall \notin Calls
  BY DEF ModelInv, ModelTypeOK, ModelAssumption, NoCall
<1>1. /\ q.begun \in Nat /\ q.stamp \in Nat /\ q.begun <= instant /\ q.stamp <= instant
      /\ q.config \in 0 .. MaxSaves /\ 0 \in 0 .. MaxSaves
      /\ q.stage = "idle" => q.config = NoConfig
      /\ q.stage # "idle" => q.user \in ModelUsers
      /\ q.stage = "read" => Recent(q.user, q.config, q.stamp)
      /\ q.config # NoConfig => retired[q.user][q.config] > q.begun - Ttl
  <2>1. q.begun \in 0 .. LastInstant /\ q.stamp \in 0 .. LastInstant /\ q.config \in 0 .. MaxSaves
    BY <1>0 DEF CallType
  <2>2. /\ q.begun \in Nat /\ q.stamp \in Nat /\ 0 \in 0 .. MaxSaves
    BY <2>1 DEF ModelAssumption
  <2>3. /\ q.begun <= instant /\ q.stamp <= instant
        /\ q.stage = "idle" => q.config = NoConfig
        /\ q.stage # "idle" => q.user \in ModelUsers
        /\ q.stage = "read" => Recent(q.user, q.config, q.stamp)
    BY <1>0 DEF CallPart
  <2>4. q.config # NoConfig => retired[q.user][q.config] > q.begun - Ttl
    BY <1>0 DEF ReplacedConfigExpires
  <2> HIDE DEF q
  <2> QED
    BY <2>1, <2>2, <2>3, <2>4
<1>2. \A u \in ModelUsers : configCache[u].config \in 0 .. MaxSaves
  BY <1>0 DEF EntryType
<1>3. ASSUME NEW x \in CallType, call' = [call EXCEPT ![c] = x], UNCHANGED <<instant, configRow, retired>>,
             x.stage # "idle", x.user \in ModelUsers, x.begun <= instant, x.stamp <= instant,
             x.config # NoConfig => retired[x.user][x.config] > x.begun - Ttl,
             x.stage = "read" => Recent(x.user, x.config, x.stamp),
             configCache' \in [ModelUsers -> EntryType], configLock' \in [ModelUsers -> Calls \cup {NoCall}],
             CachePart', OneRenews'
      PROVE  ModelInv'
  <2>1. call' \in [Calls -> CallType] /\ RowPart' /\ CallPart' /\ ReplacedConfigExpires'
    BY <1>3, CallMoves
  <2>2. ModelTypeOK'
    BY <1>0, <1>3, <2>1 DEF ModelTypeOK, Never
  <2> QED
    BY <1>3, <2>1, <2>2 DEF ModelInv
<1>4. ASSUME UNCHANGED <<instant, configCache, retired>> PROVE CachePart' /\ configCache' \in [ModelUsers -> EntryType]
  BY <1>0, <1>4 DEF CachePart, Recent
\* a step that leaves the cache
<1>5. ASSUME NEW x \in CallType, call' = [call EXCEPT ![c] = x], UNCHANGED <<instant, configRow, configCache, retired>>,
             x.stage \notin {"idle", "read"}, x.user \in ModelUsers, x.begun <= instant, x.stamp <= instant,
             x.config # NoConfig => retired[x.user][x.config] > x.begun - Ttl,
             configLock' \in [ModelUsers -> Calls \cup {NoCall}], OneRenews'
      PROVE  ModelInv'
  <2>1. CachePart' /\ configCache' \in [ModelUsers -> EntryType]
    BY <1>4, <1>5
  <2>2. x.stage # "idle" /\ x.stage # "read"
    BY <1>5
  <2> QED
    BY <1>3, <1>5, <2>1, <2>2
\* who asks has the lock, who does not leaves it
<1>6. ASSUME NEW x \in CallType, call' = [call EXCEPT ![c] = x],
             \/ /\ configLock' = configLock
                /\ x.stage \in {"asking", "read"} => q.stage \in {"asking", "read"} /\ x.user = q.user
             \/ /\ x.stage = "asking" /\ x.user \in ModelUsers /\ configLock[x.user] = NoCall
                /\ configLock' = [configLock EXCEPT ![x.user] = c]
      PROVE  OneRenews' /\ configLock' \in [ModelUsers -> Calls \cup {NoCall}]
  <2>1. call'[c] = x /\ \A d \in Calls \ {c} : call'[d] = call[d]
    BY <1>0, <1>6
  <2>2. CASE /\ configLock' = configLock
             /\ x.stage \in {"asking", "read"} => q.stage \in {"asking", "read"} /\ x.user = q.user
    BY <1>0, <2>1, <2>2 DEF OneRenews
  <2>3. CASE /\ x.stage = "asking" /\ x.user \in ModelUsers /\ configLock[x.user] = NoCall
             /\ configLock' = [configLock EXCEPT ![x.user] = c]
    <3>1. configLock' \in [ModelUsers -> Calls \cup {NoCall}] /\ configLock'[x.user] = c
      BY <1>0, <2>3
    <3>2. ASSUME NEW d \in Calls \ {c}, call[d].stage \in {"asking", "read"} PROVE configLock'[call[d].user] = d
      <4>1. configLock[call[d].user] = d /\ call[d].user \in ModelUsers
        BY <1>0, <3>2 DEF OneRenews, CallPart
      <4>2. call[d].user # x.user
        BY <1>0, <2>3, <4>1
      <4> QED
        BY <1>0, <2>3, <4>1, <4>2
    <3> QED
      BY <2>1, <3>1, <3>2 DEF OneRenews
  <2> QED
    BY <1>6, <2>2, <2>3
<1>7. ASSUME NEW u \in ModelUsers, BeginCall(c, u) PROVE ModelInv'
  <2>1. q.stage = "idle" /\ UNCHANGED <<instant, configRow, configCache, retired>> /\ q.config = NoConfig
    BY <1>1, <1>7 DEF BeginCall, InStage
  <2>2. CASE Fresh(u) /\ call' = [call EXCEPT ![c] = [@ EXCEPT !.user = u, !.stage = "resolved", !.begun = instant,
                                                 !.config = configCache[u].config]] /\ UNCHANGED configLock
    <3> DEFINE x == [q EXCEPT !.user = u, !.stage = "resolved", !.begun = instant, !.config = configCache[u].config]
    <3>1. /\ x \in CallType /\ x.user = u /\ x.stage = "resolved" /\ x.begun = instant /\ x.stamp = q.stamp
          /\ x.config = configCache[u].config
      BY <1>0, <1>2 DEF CallType
    <3>2. call' = [call EXCEPT ![c] = x]
      BY <2>2
    <3>3. x.config # NoConfig => retired[x.user][x.config] > x.begun - Ttl
      BY <1>0, <2>2, <3>1, FreshServes
    <3> HIDE DEF x
    <3>4. OneRenews' /\ configLock' \in [ModelUsers -> Calls \cup {NoCall}]
      BY <1>6, <2>2, <3>1, <3>2
    <3>5. /\ x.stage \notin {"idle", "read"} /\ x.user \in ModelUsers /\ x.begun <= instant /\ x.stamp <= instant
          /\ x.config # NoConfig => retired[x.user][x.config] > x.begun - Ttl
      BY <1>0, <1>1, <2>1, <3>1, <3>3
    <3> QED
      BY <1>5, <2>1, <3>1, <3>2, <3>4, <3>5
  <2>3. CASE /\ configLock[u] = NoCall
             /\ call' = [call EXCEPT ![c] = [@ EXCEPT !.user = u, !.stage = "asking", !.begun = instant, !.stamp = instant]]
             /\ configLock' = [configLock EXCEPT ![u] = c]
    <3> DEFINE x == [q EXCEPT !.user = u, !.stage = "asking", !.begun = instant, !.stamp = instant]
    <3>1. /\ x \in CallType /\ x.user = u /\ x.stage = "asking" /\ x.begun = instant /\ x.stamp = instant
          /\ x.config = NoConfig
      BY <1>0, <2>1 DEF CallType
    <3>2. call' = [call EXCEPT ![c] = x]
      BY <2>3
    <3> HIDE DEF x
    <3>3. OneRenews' /\ configLock' \in [ModelUsers -> Calls \cup {NoCall}]
      BY <1>6, <2>3, <3>1, <3>2
    <3>4. /\ x.stage \notin {"idle", "read"} /\ x.user \in ModelUsers /\ x.begun <= instant /\ x.stamp <= instant
          /\ x.config # NoConfig => retired[x.user][x.config] > x.begun - Ttl
      BY <1>0, <1>1, <2>1, <3>1
    <3> QED
      BY <1>5, <2>1, <3>1, <3>2, <3>3, <3>4
  <2>4. CASE call' = [call EXCEPT ![c] = [@ EXCEPT !.user = u, !.stage = "waiting", !.begun = instant]] /\ UNCHANGED configLock
    <3> DEFINE x == [q EXCEPT !.user = u, !.stage = "waiting", !.begun = instant]
    <3>1. /\ x \in CallType /\ x.user = u /\ x.stage = "waiting" /\ x.begun = instant /\ x.stamp = q.stamp
          /\ x.config = NoConfig
      BY <1>0, <2>1 DEF CallType
    <3>2. call' = [call EXCEPT ![c] = x]
      BY <2>4
    <3> HIDE DEF x
    <3>3. OneRenews' /\ configLock' \in [ModelUsers -> Calls \cup {NoCall}]
      BY <1>6, <2>4, <3>1, <3>2
    <3>4. /\ x.stage \notin {"idle", "read"} /\ x.user \in ModelUsers /\ x.begun <= instant /\ x.stamp <= instant
          /\ x.config # NoConfig => retired[x.user][x.config] > x.begun - Ttl
      BY <1>0, <1>1, <2>1, <3>1
    <3> QED
      BY <1>5, <2>1, <3>1, <3>2, <3>3, <3>4
  <2> QED
    BY <1>7, <2>2, <2>3, <2>4 DEF BeginCall
<1>8. CASE TakeConfigLock(c)
  <2>1. q.stage = "waiting" /\ UNCHANGED <<instant, configRow, configCache, retired>> /\ q.user \in ModelUsers
        /\ configLock[q.user] = NoCall
    BY <1>1, <1>8 DEF TakeConfigLock, InStage
  <2>2. CASE Fresh(q.user) /\ call' = [call EXCEPT ![c].stage = "resolved", ![c].config = configCache[q.user].config]
             /\ UNCHANGED configLock
    <3> DEFINE x == [q EXCEPT !.stage = "resolved", !.config = configCache[q.user].config]
    <3>1. /\ x \in CallType /\ x.user = q.user /\ x.stage = "resolved" /\ x.begun = q.begun /\ x.stamp = q.stamp
          /\ x.config = configCache[q.user].config
      BY <1>0, <1>2, <2>1 DEF CallType
    <3>2. call' = [call EXCEPT ![c] = x]
      BY <1>0, <2>2
    <3>3. x.config # NoConfig => retired[x.user][x.config] > x.begun - Ttl
      <4>1. q.begun \in 0 .. instant
        BY <1>0, <1>1
      <4> QED
        BY <2>1, <2>2, <3>1, <4>1, FreshServes
    <3> HIDE DEF x
    <3>4. OneRenews' /\ configLock' \in [ModelUsers -> Calls \cup {NoCall}]
      BY <1>6, <2>2, <3>1, <3>2
    <3>5. /\ x.stage \notin {"idle", "read"} /\ x.user \in ModelUsers /\ x.begun <= instant /\ x.stamp <= instant
          /\ x.config # NoConfig => retired[x.user][x.config] > x.begun - Ttl
      BY <1>0, <1>1, <2>1, <3>1, <3>3
    <3> QED
      BY <1>5, <2>1, <3>1, <3>2, <3>4, <3>5
  <2>3. CASE call' = [call EXCEPT ![c].stage = "asking", ![c].stamp = instant] /\ configLock' = [configLock EXCEPT ![q.user] = c]
    <3> DEFINE x == [q EXCEPT !.stage = "asking", !.stamp = instant]
    <3>1. /\ x \in CallType /\ x.user = q.user /\ x.stage = "asking" /\ x.begun = q.begun /\ x.stamp = instant
          /\ x.config = q.config
      BY <1>0 DEF CallType
    <3>2. call' = [call EXCEPT ![c] = x]
      BY <1>0, <2>3
    <3> HIDE DEF x
    <3>3. OneRenews' /\ configLock' \in [ModelUsers -> Calls \cup {NoCall}]
      BY <1>6, <2>1, <2>3, <3>1, <3>2
    <3>4. /\ x.stage \notin {"idle", "read"} /\ x.user \in ModelUsers /\ x.begun <= instant /\ x.stamp <= instant
          /\ x.config # NoConfig => retired[x.user][x.config] > x.begun - Ttl
      BY <1>0, <1>1, <2>1, <3>1
    <3> QED
      BY <1>5, <2>1, <3>1, <3>2, <3>3, <3>4
  <2> QED
    BY <1>8, <2>2, <2>3 DEF TakeConfigLock
<1>9. CASE ReadConfig(c)
  <2>1. q.stage = "asking" /\ UNCHANGED <<instant, configRow, configCache, configLock, retired>> /\ q.user \in ModelUsers
    BY <1>1, <1>9 DEF ReadConfig, InStage
  <2>2. PICK found \in {configRow[q.user], NoConfig} : call' = [call EXCEPT ![c].stage = "read", ![c].config = found]
    BY <1>9 DEF ReadConfig
  <2>3. found \in 0 .. MaxSaves /\ (found # NoConfig => retired[q.user][found] = Never)
    BY <1>0, <1>1, <2>1 DEF RowPart, NoConfig
  <2> DEFINE x == [q EXCEPT !.stage = "read", !.config = found]
  <2>4. /\ x \in CallType /\ x.user = q.user /\ x.stage = "read" /\ x.begun = q.begun /\ x.stamp = q.stamp
        /\ x.config = found
    BY <1>0, <2>3 DEF CallType
  <2>5. call' = [call EXCEPT ![c] = x]
    BY <1>0, <2>2
  <2> HIDE DEF x
  <2>6. OneRenews' /\ configLock' \in [ModelUsers -> Calls \cup {NoCall}]
    BY <1>6, <2>1, <2>4, <2>5
  <2>7. x.config # NoConfig => retired[x.user][x.config] > x.begun - Ttl /\ retired[x.user][x.config] >= x.stamp
    BY <1>0, <1>1, <2>3, <2>4 DEF Never
  <2> QED
    BY <1>0, <1>1, <1>3, <1>4, <2>1, <2>4, <2>5, <2>6, <2>7 DEF Recent
<1>10. CASE StoreConfig(c)
  <2>1. q.stage = "read" /\ UNCHANGED <<instant, configRow, retired>> /\ q.user \in ModelUsers
        /\ configCache' = [configCache EXCEPT ![q.user] = Entry(c)]
        /\ configLock' = [configLock EXCEPT ![q.user] = NoCall]
        /\ call' = [call EXCEPT ![c].stage = "resolved"]
    BY <1>1, <1>10 DEF StoreConfig, InStage
  <2> DEFINE x == [q EXCEPT !.stage = "resolved"]
  <2>2. /\ x \in CallType /\ x.user = q.user /\ x.stage = "resolved" /\ x.begun = q.begun /\ x.stamp = q.stamp
        /\ x.config = q.config
    BY <1>0 DEF CallType
  <2>3. call' = [call EXCEPT ![c] = x]
    BY <1>0, <2>1
  <2> HIDE DEF x
  <2>4. Entry(c) \in EntryType /\ Entry(c).since = q.stamp /\ Entry(c).config = q.config
    <3>1. q.stamp \in -Ttl .. LastInstant
      BY <1>0, <1>1
    <3> QED
      BY <1>1, <3>1 DEF Entry, EntryType
  <2>5. configCache' \in [ModelUsers -> EntryType]
    BY <1>0, <2>1, <2>4
  <2>6. CachePart'
    BY <1>0, <1>1, <2>1, <2>4 DEF CachePart, Recent
  <2>7. configLock' \in [ModelUsers -> Calls \cup {NoCall}]
    BY <1>0, <2>1
  <2>8. OneRenews'
    <3>1. configLock[q.user] = c
      BY <1>0, <2>1 DEF OneRenews
    <3>2. ASSUME NEW d \in Calls \ {c}, call[d].stage \in {"asking", "read"} PROVE configLock'[call[d].user] = d
      <4>1. configLock[call[d].user] = d /\ call[d].user \in ModelUsers
        BY <1>0, <3>2 DEF OneRenews, CallPart
      <4> QED
        BY <1>0, <2>1, <3>1, <4>1
    <3>3. call'[c] = x /\ \A d \in Calls \ {c} : call'[d] = call[d]
      BY <1>0, <2>3
    <3> QED
      BY <2>2, <3>2, <3>3 DEF OneRenews
  <2> QED
    BY <1>1, <1>3, <2>1, <2>2, <2>3, <2>5, <2>6, <2>7, <2>8
<1>11. CASE Abandon(c)
  <2>1. /\ q.stage # "idle" /\ UNCHANGED <<instant, configRow, configCache, retired>> /\ q.user \in ModelUsers
        /\ configLock' = [u \in ModelUsers |-> IF configLock[u] = c THEN NoCall ELSE configLock[u]]
        /\ call' = [call EXCEPT ![c].stage = "over", ![c].config = NoConfig]
    BY <1>1, <1>11 DEF Abandon
  <2> DEFINE x == [q EXCEPT !.stage = "over", !.config = NoConfig]
  <2>2. /\ x \in CallType /\ x.user = q.user /\ x.stage = "over" /\ x.begun = q.begun /\ x.stamp = q.stamp
        /\ x.config = NoConfig
    BY <1>0, <1>1 DEF CallType, NoConfig
  <2>3. call' = [call EXCEPT ![c] = x]
    BY <1>0, <2>1
  <2> HIDE DEF x
  <2>4. configLock' \in [ModelUsers -> Calls \cup {NoCall}]
    BY <1>0, <2>1
  <2>5. OneRenews'
    <3>1. ASSUME NEW d \in Calls \ {c}, call[d].stage \in {"asking", "read"} PROVE configLock'[call[d].user] = d
      BY <1>0, <2>1, <3>1 DEF OneRenews, CallPart
    <3>2. call'[c] = x /\ \A d \in Calls \ {c} : call'[d] = call[d]
      BY <1>0, <2>3
    <3> QED
      BY <2>2, <3>1, <3>2 DEF OneRenews
  <2> QED
    BY <1>1, <1>3, <1>4, <2>1, <2>2, <2>3, <2>4, <2>5
\* from there on the call keeps what it read
<1>12. CASE Complete(c) \/ Stream(c) \/ TryAgain(c) \/ EndCall(c)
  <2>1. q.stage \in {"resolved", "calling"} /\ UNCHANGED <<instant, configRow, configCache, configLock, retired>>
    BY <1>12 DEF Complete, Stream, TryAgain, EndCall, InStage
  <2>2. \E x \in CallType : /\ call' = [call EXCEPT ![c] = x] /\ x.stage \in {"calling", "over"} /\ x.user = q.user
                            /\ x.begun = q.begun /\ x.stamp \in {q.stamp, 0} /\ x.config = q.config
    <3>1. 1 \in 0 .. MaxAttempts /\ 0 \in 0 .. MaxAttempts /\ MaxAttempts \in 0 .. MaxAttempts /\ 0 \in 0 .. LastInstant
      BY DEF ModelAssumption
    <3>2. CASE Complete(c)
      <4> DEFINE x == [q EXCEPT !.stage = "calling", !.permit = TRUE, !.attempt = 1]
      <4>1. x \in CallType /\ x.stage = "calling" /\ x.user = q.user /\ x.begun = q.begun /\ x.stamp = q.stamp /\ x.config = q.config
        BY <1>0, <3>1 DEF CallType
      <4>2. call' = [call EXCEPT ![c] = x]
        BY <1>0, <3>2 DEF Complete
      <4> HIDE DEF x
      <4> QED
        BY <4>1, <4>2
    <3>3. CASE Stream(c)
      <4> DEFINE x == [q EXCEPT !.stage = "calling", !.attempt = MaxAttempts]
      <4>1. x \in CallType /\ x.stage = "calling" /\ x.user = q.user /\ x.begun = q.begun /\ x.stamp = q.stamp /\ x.config = q.config
        BY <1>0, <3>1 DEF CallType
      <4>2. call' = [call EXCEPT ![c] = x]
        BY <1>0, <3>3 DEF Stream
      <4> HIDE DEF x
      <4> QED
        BY <4>1, <4>2
    <3>4. CASE TryAgain(c)
      <4> DEFINE x == [q EXCEPT !.attempt = q.attempt + 1]
      <4>0. q.attempt + 1 \in 0 .. MaxAttempts /\ q.stage = "calling"
        <5>1. q.attempt \in 0 .. MaxAttempts
          BY <1>0 DEF CallType
        <5> QED
          BY <3>4, <5>1 DEF TryAgain, InStage, ModelAssumption
      <4>1. x \in CallType /\ x.stage = q.stage /\ x.user = q.user /\ x.begun = q.begun /\ x.stamp = q.stamp /\ x.config = q.config
        BY <1>0, <4>0 DEF CallType
      <4>2. call' = [call EXCEPT ![c] = x]
        BY <1>0, <3>4 DEF TryAgain
      <4> HIDE DEF x
      <4> QED
        BY <4>0, <4>1, <4>2
    <3>5. CASE EndCall(c)
      <4> DEFINE x == [q EXCEPT !.stage = "over", !.permit = FALSE, !.attempt = 0, !.stamp = 0]
      <4>1. x \in CallType /\ x.stage = "over" /\ x.user = q.user /\ x.begun = q.begun /\ x.stamp = 0 /\ x.config = q.config
        BY <1>0, <3>1 DEF CallType
      <4>2. call' = [call EXCEPT ![c] = x]
        BY <3>5 DEF EndCall
      <4> HIDE DEF x
      <4> QED
        BY <4>1, <4>2
    <3> QED
      BY <1>12, <3>2, <3>3, <3>4, <3>5
  <2>3. PICK x \in CallType : /\ call' = [call EXCEPT ![c] = x] /\ x.stage \in {"calling", "over"} /\ x.user = q.user
                              /\ x.begun = q.begun /\ x.stamp \in {q.stamp, 0} /\ x.config = q.config
    BY <2>2
  <2>4. OneRenews' /\ configLock' \in [ModelUsers -> Calls \cup {NoCall}]
    BY <1>6, <2>1, <2>3
  <2>5. /\ x.stage \notin {"idle", "read"} /\ x.user \in ModelUsers /\ x.begun <= instant /\ x.stamp <= instant
        /\ x.config # NoConfig => retired[x.user][x.config] > x.begun - Ttl
    BY <1>0, <1>1, <2>1, <2>3
  <2> QED
    BY <1>5, <2>1, <2>3, <2>4, <2>5
<1> QED
  BY <1>7, <1>8, <1>9, <1>10, <1>11, <1>12

\* the user replaces the configuration of the table
LEMMA ReplaceStep ==
  ASSUME ModelAssumption, ModelInv, NEW u \in ModelUsers, NEW config \in 0 .. MaxSaves, Replace(u, config),
         config # NoConfig => retired[u][config] = Never /\ configRow[u] # config
  PROVE  ModelInv'
<1>0. /\ ModelTypeOK /\ RowPart /\ CachePart /\ CallPart /\ OneRenews /\ ReplacedConfigExpires
      /\ instant \in 0 .. LastInstant /\ instant \in Nat /\ Ttl \in Nat \ {0} /\ LastInstant \in Nat
      /\ configRow \in [ModelUsers -> 0 .. MaxSaves] /\ configCache \in [ModelUsers -> EntryType]
      /\ call \in [Calls -> CallType] /\ retired \in [ModelUsers -> [1 .. MaxSaves -> 0 .. Never]]
      /\ UNCHANGED <<instant, configCache, configLock, call>>
      /\ configRow' = [configRow EXCEPT ![u] = config]
  BY DEF ModelInv, ModelTypeOK, ModelAssumption, Replace
<1>1. configRow' \in [ModelUsers -> 0 .. MaxSaves]
  BY <1>0
<1>2. /\ retired' \in [ModelUsers -> [1 .. MaxSaves -> 0 .. Never]]
      /\ \A w \in ModelUsers, v \in 1 .. MaxSaves :
           \/ retired'[w][v] = retired[w][v]
           \/ w = u /\ v = configRow[u] /\ retired[w][v] = Never /\ retired'[w][v] = instant
  <2>1. CASE configRow[u] = NoConfig
    BY <1>0, <2>1 DEF Replace
  <2>2. CASE configRow[u] # NoConfig
    <3>1. configRow[u] \in 1 .. MaxSaves /\ retired[u][configRow[u]] = Never /\ instant \in 0 .. Never
      BY <1>0, <2>2 DEF RowPart, NoConfig, Never, ModelAssumption
    <3>2. retired' = [retired EXCEPT ![u] = [retired[u] EXCEPT ![configRow[u]] = instant]]
      BY <1>0, <2>2 DEF Replace
    <3> QED
      BY <1>0, <3>1, <3>2
  <2> QED
    BY <2>1, <2>2
<1>3. ModelTypeOK'
  BY <1>0, <1>1, <1>2 DEF ModelTypeOK, Never
<1>4. RowPart'
  BY <1>0, <1>1, <1>2 DEF RowPart, NoConfig
<1>5. \A w \in ModelUsers, v \in 0 .. MaxSaves, t \in Int :
        t <= instant /\ v # NoConfig =>
          /\ retired[w][v] >= t => retired'[w][v] >= t
          /\ retired[w][v] > t - Ttl => retired'[w][v] > t - Ttl
  <2> SUFFICES ASSUME NEW w \in ModelUsers, NEW v \in 0 .. MaxSaves, NEW t \in Int, t <= instant, v # NoConfig
               PROVE  /\ retired[w][v] >= t => retired'[w][v] >= t
                      /\ retired[w][v] > t - Ttl => retired'[w][v] > t - Ttl
    OBVIOUS
  <2>1. v \in 1 .. MaxSaves
    BY DEF NoConfig
  <2>2. instant >= t /\ instant > t - Ttl
    BY <1>0
  <2>3. CASE retired'[w][v] = retired[w][v]
    BY <2>3
  <2>4. CASE retired'[w][v] = instant
    BY <2>2, <2>4
  <2> QED
    BY <1>2, <2>1, <2>3, <2>4
<1>6. CachePart'
  <2>1. \A w \in ModelUsers : configCache[w].since \in Int /\ configCache[w].config \in 0 .. MaxSaves
    BY <1>0 DEF EntryType
  <2>2. SUFFICES ASSUME NEW w \in ModelUsers, configCache[w].config # NoConfig
                 PROVE  retired'[w][configCache[w].config] >= configCache[w].since
    BY <1>0 DEF CachePart, Recent
  <2>3. configCache[w].since <= instant /\ retired[w][configCache[w].config] >= configCache[w].since
    BY <1>0, <2>2 DEF CachePart, Recent
  <2>4. configCache[w].since \in Int /\ configCache[w].config \in 0 .. MaxSaves
    BY <2>1
  <2> QED
    BY ONLY <1>5, <2>2, <2>3, <2>4
<1>7. \A c \in Calls :
        /\ call[c].begun \in Int /\ call[c].stamp \in Int /\ call[c].config \in 0 .. MaxSaves
        /\ call[c].config # NoConfig => call[c].user \in ModelUsers
  BY <1>0 DEF CallType, CallPart, NoConfig
<1>8. ReplacedConfigExpires'
  <2> SUFFICES ASSUME NEW c \in Calls, call[c].config # NoConfig
               PROVE  retired'[call[c].user][call[c].config] > call[c].begun - Ttl
    BY <1>0 DEF ReplacedConfigExpires
  <2>1. call[c].begun <= instant /\ call[c].user \in ModelUsers
    BY <1>0, <1>7 DEF CallPart
  <2>2. retired[call[c].user][call[c].config] > call[c].begun - Ttl
    BY <1>0 DEF ReplacedConfigExpires
  <2>3. /\ call[c].user \in ModelUsers /\ call[c].config \in 0 .. MaxSaves /\ call[c].begun \in Int
    BY <1>7, <2>1
  <2>4. call[c].config # NoConfig
    OBVIOUS
  <2>5. retired[call[c].user][call[c].config] > call[c].begun - Ttl
        => retired'[call[c].user][call[c].config] > call[c].begun - Ttl
    BY ONLY <1>5, <2>1, <2>3, <2>4
  <2> QED
    BY ONLY <2>2, <2>5
<1>9. CallPart'
  <2> SUFFICES ASSUME NEW c \in Calls, call[c].stage = "read", call[c].user \in ModelUsers
               PROVE  Recent(call[c].user, call[c].config, call[c].stamp)'
    BY <1>0 DEF CallPart
  <2>1. call[c].stamp <= instant /\ Recent(call[c].user, call[c].config, call[c].stamp)
    BY <1>0 DEF CallPart
  <2>2. Recent(call[c].user, call[c].config, call[c].stamp)'
        <=> (call[c].config # NoConfig => retired'[call[c].user][call[c].config] >= call[c].stamp)
    BY <1>0 DEF Recent
  <2>3. /\ call[c].user \in ModelUsers /\ call[c].config \in 0 .. MaxSaves /\ call[c].stamp \in Int
    BY <1>7
  <2>4. call[c].config # NoConfig => (retired[call[c].user][call[c].config] >= call[c].stamp
                                      => retired'[call[c].user][call[c].config] >= call[c].stamp)
    BY ONLY <1>5, <2>1, <2>3
  <2>5. call[c].config # NoConfig => retired[call[c].user][call[c].config] >= call[c].stamp
    BY <2>1 DEF Recent
  <2> QED
    BY ONLY <2>2, <2>4, <2>5
<1>10. OneRenews'
  BY <1>0 DEF OneRenews
<1> QED
  BY <1>3, <1>4, <1>6, <1>8, <1>10, <1>9 DEF ModelInv

\* every step keeps the invariant
LEMMA ModelStep ==
  ASSUME ModelAssumption, ModelInv, [ModelNext]_modelVars PROVE ModelInv'
<1>0. /\ ModelTypeOK /\ RowPart /\ CachePart /\ CallPart /\ OneRenews /\ ReplacedConfigExpires
      /\ instant \in 0 .. LastInstant /\ LastInstant \in Nat
      /\ configRow \in [ModelUsers -> 0 .. MaxSaves] /\ configCache \in [ModelUsers -> EntryType]
      /\ call \in [Calls -> CallType]
  BY DEF ModelInv, ModelTypeOK, ModelAssumption
<1>1. CASE Pass
  <2>1. /\ instant' = instant + 1 /\ instant' \in 0 .. LastInstant
        /\ UNCHANGED <<configRow, configCache, configLock, retired, call>>
    BY <1>0, <1>1 DEF Pass
  <2>2. \A u \in ModelUsers : configCache[u].since \in Int
    BY <1>0 DEF EntryType
  <2>3. \A c \in Calls : call[c].begun \in Int /\ call[c].stamp \in Int
    BY <1>0 DEF CallType
  <2>4. ModelTypeOK' /\ RowPart' /\ OneRenews' /\ ReplacedConfigExpires'
    BY <1>0, <2>1 DEF ModelTypeOK, RowPart, OneRenews, ReplacedConfigExpires, Never
  <2>5. CachePart' /\ CallPart'
    BY <1>0, <2>1, <2>2, <2>3 DEF CachePart, CallPart, Recent
  <2> QED
    BY <2>4, <2>5 DEF ModelInv
<1>2. ASSUME NEW u \in ModelUsers, SavePreferences(u) \/ DeletePreferences(u) PROVE ModelInv'
  <2>1. CASE SavePreferences(u)
    <3>1. PICK v \in 1 .. MaxSaves :
            {w \in 1 .. MaxSaves : retired[u][w] # Never \/ configRow[u] = w} = 1 .. v - 1 /\ Replace(u, v)
      BY <2>1 DEF SavePreferences
    <3>2. retired[u][v] = Never /\ configRow[u] # v /\ v \in 0 .. MaxSaves
      BY <3>1 DEF ModelAssumption
    <3> QED
      BY <3>1, <3>2, ReplaceStep
  <2>2. CASE DeletePreferences(u)
    <3>1. NoConfig \in 0 .. MaxSaves
      BY DEF NoConfig, ModelAssumption
    <3> QED
      BY <2>2, <3>1, ReplaceStep DEF DeletePreferences
  <2> QED
    BY <1>2, <2>1, <2>2
<1>3. ASSUME NEW u \in ModelUsers, Invalidate(u) PROVE ModelInv'
  <2>1. /\ configCache' = [configCache EXCEPT ![u] = Uncached]
        /\ UNCHANGED <<instant, configRow, configLock, retired, call>>
    BY <1>3 DEF Invalidate
  <2>2. Uncached \in EntryType /\ Uncached.since = -Ttl /\ Uncached.config = NoConfig /\ -Ttl <= instant
    BY <1>0 DEF Uncached, EntryType, ModelAssumption, NoConfig
  <2>3. configCache' \in [ModelUsers -> EntryType]
    BY <1>0, <2>1, <2>2
  <2>4. CachePart'
    BY <1>0, <2>1, <2>2 DEF CachePart, Recent
  <2>5. ModelTypeOK' /\ RowPart' /\ OneRenews' /\ ReplacedConfigExpires'
    BY <1>0, <2>1, <2>3 DEF ModelTypeOK, RowPart, OneRenews, ReplacedConfigExpires, Never
  <2>6. CallPart'
    BY <1>0, <2>1 DEF CallPart, Recent
  <2> QED
    BY <2>4, <2>5, <2>6 DEF ModelInv
<1>4. ASSUME UNCHANGED modelVars \/ \E u \in ModelUsers : LeftCached(u) PROVE ModelInv'
  <2>1. UNCHANGED <<instant, configRow, configCache, configLock, retired, call>>
    BY <1>4 DEF modelVars, LeftCached
  <2> QED
    BY <1>0, <2>1 DEF ModelInv, ModelTypeOK, RowPart, CachePart, CallPart, OneRenews, ReplacedConfigExpires, Recent, Never
<1> QED
  BY <1>1, <1>2, <1>3, <1>4, CallStep DEF ModelNext

(***************************************************************************)
(* A replaced configuration is used by no call that begins a time to live  *)
(* later, for any number of users, calls and changes.                      *)
(***************************************************************************)
THEOREM ReplacedConfigExpiresHolds == ASSUME ModelAssumption PROVE ModelSpec => []ReplacedConfigExpires
<1>1. ModelInit => ModelInv
  BY ModelInit_Inv
<1>2. ModelInv /\ [ModelNext]_modelVars => ModelInv'
  BY ModelStep
<1>3. ModelInv => ReplacedConfigExpires
  BY DEF ModelInv
<1> QED
  BY <1>1, <1>2, <1>3, PTL DEF ModelSpec

(***************************************************************************)
(* However calls of one user begin, wait and are cancelled, one of them    *)
(* asks the table.                                                         *)
(***************************************************************************)
THEOREM OneRenewsHolds == ASSUME ModelAssumption PROVE ModelSpec => []OneRenews
<1>1. ModelInit => ModelInv
  BY ModelInit_Inv
<1>2. ModelInv /\ [ModelNext]_modelVars => ModelInv'
  BY ModelStep
<1>3. ModelInv => OneRenews
  BY DEF ModelInv
<1> QED
  BY <1>1, <1>2, <1>3, PTL DEF ModelSpec

-----------------------------------------------------------------------------
(***************************************************************************)
(* The runners of a validation: that the semaphore loses no permit, and    *)
(* that a lockfile belongs to its package.json.                            *)
(***************************************************************************)
\* the outcomes of a step, and a check of a feature's code
StepResults == {"ok", "warned", "failed"}
CheckType == [at : {"idle", "queued", "running", "read", "sent", "done"}, whole : BOOLEAN,
              doing : {"none", "install", "typecheck", "lint", "tests", "build"}, results : Seq(StepResults),
              before : Manifests \cup {NoManifest}, sent : Manifests \cup {NoManifest}, passed : BOOLEAN]

ValidationTypeOK ==
  /\ permits \in Nat
  /\ manifest \in [Checks -> Manifests] /\ lockfile \in [Checks -> Manifests \cup {NoManifest}]
  /\ check \in [Checks -> CheckType]
  /\ \A k \in Checks : check[k].at # "done" => Len(check[k].results) < Len(StepOrder)

\* the checks with a command that runs
Runs == {k \in Checks : check[k].at = "running"}
(***************************************************************************)
(* Every permit is free or held by one command that runs.                  *)
(***************************************************************************)
PermitsCounted == Cardinality(Runs) + permits = MaxRunners

ValidationInv == ValidationTypeOK /\ PermitsCounted

\* a check that did not begin
LEMMA NoCheckType == NoCheck \in CheckType /\ NoCheck.at = "idle" /\ NoCheck.results = <<>>
<1>1. <<>> \in Seq(StepResults)
  OBVIOUS
<1> HIDE DEF StepResults
<1> QED
  BY <1>1 DEF NoCheck, CheckType

\* what a command in hand becomes
LEMMA AdvanceMoves ==
  ASSUME ValidationTypeOK, NEW k \in Checks, check[k].at # "done", NEW r \in StepResults, Advance(k, r)
  PROVE  \E x \in CheckType : /\ Put(k, x) /\ x.at \in {"queued", "done"}
                              /\ x.at # "done" => Len(x.results) < Len(StepOrder)
<1> DEFINE c == check[k]
           results == Append(c.results, r)
<1>1. c \in CheckType /\ c.results \in Seq(StepResults) /\ Len(c.results) < 4 /\ Len(StepOrder) = 4
  BY DEF ValidationTypeOK, CheckType, StepOrder
<1>2. results \in Seq(StepResults) /\ Len(results) = Len(c.results) + 1 /\ Len(c.results) \in Nat
  <2> HIDE DEF StepResults
  <2> QED
    BY <1>1, AppendProperties
<1>3. ASSUME NEW whole \in BOOLEAN, NEW doing \in {"install", "typecheck", "lint", "tests", "build"},
             NEW s \in Seq(StepResults), Len(s) < 4, Queued(k, whole, doing, s)
      PROVE  \E x \in CheckType : /\ Put(k, x) /\ x.at \in {"queued", "done"}
                                  /\ x.at # "done" => Len(x.results) < Len(StepOrder)
  <2> DEFINE x == [NoCheck EXCEPT !.at = "queued", !.whole = whole, !.doing = doing, !.results = s]
  <2>1. x \in CheckType /\ x.at = "queued" /\ x.results = s
    <3> HIDE DEF StepResults
    <3> QED
      BY NoCheckType DEF CheckType
  <2>2. Put(k, x)
    BY <1>3 DEF Queued
  <2> HIDE DEF x
  <2> QED
    BY <1>1, <1>3, <2>1, <2>2
<1>4. ASSUME NEW s \in Seq(StepResults), NEW passed \in BOOLEAN, Put(k, Verdict(k, s, passed))
      PROVE  \E x \in CheckType : /\ Put(k, x) /\ x.at \in {"queued", "done"}
                                  /\ x.at # "done" => Len(x.results) < Len(StepOrder)
  <2> DEFINE x == [NoCheck EXCEPT !.at = "done", !.results = s, !.passed = passed]
  <2>1. x \in CheckType /\ x.at = "done"
    <3> HIDE DEF StepResults
    <3> QED
      BY NoCheckType DEF CheckType
  <2>2. Put(k, x)
    BY <1>4 DEF Verdict
  <2> HIDE DEF x
  <2> QED
    BY <2>1, <2>2
<1>5. <<>> \in Seq(StepResults) /\ Len(<<>>) < 4 /\ StepOrder[1] = "typecheck"
  BY DEF StepOrder
<1>6. (Len(StepOrder) - Len(results) = 0 /\ Succeeded(results)) \in BOOLEAN /\ c.whole \in BOOLEAN
  BY <1>1 DEF CheckType
<1>7. \A n \in 1 .. 4 : StepOrder[n] \in {"install", "typecheck", "lint", "tests", "build"}
  BY DEF StepOrder
<1>8. CASE c.doing = "install"
  BY <1>3, <1>4, <1>5, <1>8 DEF Advance
<1>9. CASE c.doing # "install"
  <2>1. CASE Put(k, Verdict(k, results, Len(StepOrder) - Len(results) = 0 /\ Succeeded(results)))
    <3> DEFINE passed == Len(StepOrder) - Len(results) = 0 /\ Succeeded(results)
    <3>1. passed \in BOOLEAN
      BY <1>6
    <3>2. Put(k, Verdict(k, results, passed))
      BY <2>1
    <3> HIDE DEF passed, results
    <3> QED
      BY <1>2, <1>4, <3>1, <3>2
  <2>2. CASE Len(StepOrder) - Len(results) # 0 /\ Queued(k, c.whole, StepOrder[Len(results) + 1], results)
    <3> DEFINE n == Len(results)
    <3> HIDE DEF results, c, n
    <3>0. n = Len(c.results) + 1 /\ Len(c.results) < 4 /\ Len(c.results) \in Nat
      BY <1>1, <1>2 DEF n
    <3>1. 4 - n # 0
      BY <1>1, <2>2 DEF n
    <3>2. n < 4 /\ n + 1 \in 1 .. 4
      <4> DEFINE m == Len(c.results)
      <4>1. n = m + 1 /\ m < 4 /\ m \in Nat
        BY <3>0
      <4> HIDE DEF m
      <4> QED
        BY ONLY <4>1, <3>1
    <3>3. Len(results) < 4 /\ StepOrder[Len(results) + 1] \in {"install", "typecheck", "lint", "tests", "build"}
      BY <1>7, <3>2 DEF n
    <3> QED
      BY <1>2, <1>3, <1>6, <2>2, <3>3
  <2> QED
    BY <1>9, <2>1, <2>2 DEF Advance
<1> QED
  BY <1>8, <1>9

\* a check that moves, with the permit it takes or gives back
LEMMA CheckMoves ==
  ASSUME ValidationAssumption, ValidationInv, NEW k \in Checks, NEW x \in CheckType, Put(k, x),
         x.at # "done" => Len(x.results) < Len(StepOrder),
         UNCHANGED manifest, lockfile' \in [Checks -> Manifests \cup {NoManifest}],
         \/ check[k].at = "running" /\ x.at # "running" /\ permits' = permits + 1
         \/ check[k].at # "running" /\ x.at # "running" /\ permits' = permits
         \/ check[k].at # "running" /\ x.at = "running" /\ permits > 0 /\ permits' = permits - 1
  PROVE  ValidationInv'
<1>0. /\ permits \in Nat /\ manifest \in [Checks -> Manifests] /\ check \in [Checks -> CheckType]
      /\ \A c \in Checks : check[c].at # "done" => Len(check[c].results) < Len(StepOrder)
      /\ Cardinality(Runs) + permits = MaxRunners
  BY DEF ValidationInv, ValidationTypeOK, PermitsCounted
<1>1. check' \in [Checks -> CheckType] /\ check'[k] = x /\ \A c \in Checks \ {k} : check'[c] = check[c]
  BY <1>0 DEF Put
<1>2. permits' \in Nat
  BY <1>0
<1>3. ValidationTypeOK'
  <2>1. \A c \in Checks : check'[c].at # "done" => Len(check'[c].results) < Len(StepOrder)
    BY <1>0, <1>1
  <2> QED
    BY <1>0, <1>1, <1>2, <2>1 DEF ValidationTypeOK
<1>4. IsFiniteSet(Runs) /\ Cardinality(Runs) \in Nat
  BY FS_Subset, FS_CardinalityType DEF Runs, ValidationAssumption
<1>5. CASE check[k].at = "running" /\ x.at # "running" /\ permits' = permits + 1
  <2>1. Runs' = Runs \ {k} /\ k \in Runs
    BY <1>1, <1>5 DEF Runs
  <2>2. Cardinality(Runs \ {k}) = Cardinality(Runs) - 1
    BY <1>4, <2>1, FS_RemoveElement
  <2> QED
    BY <1>0, <1>3, <1>4, <1>5, <2>1, <2>2 DEF ValidationInv, PermitsCounted
<1>6. CASE check[k].at # "running" /\ x.at # "running" /\ permits' = permits
  <2>1. Runs' = Runs
    BY <1>1, <1>6 DEF Runs
  <2> QED
    BY <1>0, <1>3, <1>6, <2>1 DEF ValidationInv, PermitsCounted
<1>7. CASE check[k].at # "running" /\ x.at = "running" /\ permits > 0 /\ permits' = permits - 1
  <2>1. Runs' = Runs \cup {k} /\ k \notin Runs
    BY <1>1, <1>7 DEF Runs
  <2>2. Cardinality(Runs \cup {k}) = Cardinality(Runs) + 1
    BY <1>4, <2>1, FS_AddElement
  <2> QED
    BY <1>0, <1>3, <1>4, <1>7, <2>1, <2>2 DEF ValidationInv, PermitsCounted
<1> QED
  BY <1>5, <1>6, <1>7

\* every step keeps the invariant, and the lockfile of its manifest
LEMMA ValidationStep ==
  ASSUME ValidationAssumption, ValidationInv, [ValidationNext]_validationVars
  PROVE  /\ ValidationInv'
         /\ \A k \in Checks : lockfile'[k] # lockfile[k] => lockfile'[k] = manifest[k]
<1>0. /\ ValidationTypeOK /\ permits \in Nat /\ manifest \in [Checks -> Manifests]
      /\ lockfile \in [Checks -> Manifests \cup {NoManifest}] /\ check \in [Checks -> CheckType]
      /\ \A c \in Checks : check[c].at # "done" => Len(check[c].results) < Len(StepOrder)
  BY DEF ValidationInv, ValidationTypeOK
<1> DEFINE Kept == \A k \in Checks : lockfile'[k] # lockfile[k] => lockfile'[k] = manifest[k]
<1>1. NoCheck \in CheckType /\ NoCheck.at = "idle" /\ Len(NoCheck.results) = 0 /\ Len(StepOrder) = 4
  BY NoCheckType DEF StepOrder
<1>2. ASSUME NEW k \in Checks, NEW whole \in BOOLEAN, NEW doing \in {"install", "typecheck"},
             Queued(k, whole, doing, <<>>)
      PROVE  \E x \in CheckType : Put(k, x) /\ x.at = "queued" /\ Len(x.results) = 0
  <2> DEFINE x == [NoCheck EXCEPT !.at = "queued", !.whole = whole, !.doing = doing, !.results = <<>>]
  <2>1. x \in CheckType /\ x.at = "queued" /\ x.results = <<>>
    BY NoCheckType DEF CheckType
  <2>2. Put(k, x)
    BY <1>2 DEF Queued
  <2> HIDE DEF x
  <2> QED
    BY <2>1, <2>2
<1>3. ASSUME NEW k \in Checks, NEW s \in Seq(StepResults), NEW passed \in BOOLEAN
      PROVE  Verdict(k, s, passed) \in CheckType /\ Verdict(k, s, passed).at = "done"
  <2> HIDE DEF StepResults
  <2> QED
    BY NoCheckType DEF CheckType, Verdict
<1>4. <<>> \in Seq(StepResults) /\ StepOrder[1] = "typecheck"
  BY DEF StepOrder
<1>5. ASSUME NEW k \in Checks, BeginPipeline(k) \/ BeginEndpoint(k) PROVE ValidationInv' /\ Kept
  <2>1. PICK x \in CheckType : Put(k, x) /\ x.at = "queued" /\ Len(x.results) = 0
    BY <1>2, <1>4, <1>5 DEF BeginPipeline, BeginEndpoint
  <2>2. check[k].at = "idle" /\ UNCHANGED <<permits, manifest, lockfile>>
    BY <1>5 DEF BeginPipeline, BeginEndpoint
  <2> QED
    BY <1>0, <1>1, <2>1, <2>2, CheckMoves
<1>6. ASSUME NEW k \in Checks, TakePermit(k) PROVE ValidationInv' /\ Kept
  <2> DEFINE x == [check[k] EXCEPT !.at = "running"]
  <2>1. check[k] \in CheckType
    BY <1>0
  <2>2. x \in CheckType /\ x.at = "running" /\ x.results = check[k].results
    BY <2>1 DEF CheckType
  <2>3. Put(k, x)
    BY <1>6 DEF TakePermit
  <2> HIDE DEF x
  <2>4. /\ check[k].at = "queued" /\ permits > 0 /\ permits' = permits - 1 /\ UNCHANGED <<manifest, lockfile>>
    BY <1>6 DEF TakePermit
  <2> QED
    BY <1>0, <2>2, <2>3, <2>4, CheckMoves
<1>7. ASSUME NEW k \in Checks, QueueTimeout(k) \/ CommandEnds(k) \/ CommandTimeout(k) PROVE ValidationInv' /\ Kept
  <2>1. \E r \in StepResults : Advance(k, r)
    BY <1>7 DEF QueueTimeout, CommandEnds, CommandTimeout, StepResults
  <2>2. /\ check[k].at # "done" /\ UNCHANGED <<manifest, lockfile>>
        /\ \/ check[k].at = "running" /\ permits' = permits + 1
           \/ check[k].at # "running" /\ permits' = permits
    BY <1>7 DEF QueueTimeout, CommandEnds, CommandTimeout
  <2>3. PICK x \in CheckType : /\ Put(k, x) /\ x.at \in {"queued", "done"}
                               /\ x.at # "done" => Len(x.results) < Len(StepOrder)
    BY <1>0, <2>1, <2>2, AdvanceMoves
  <2> QED
    BY <1>0, <2>2, <2>3, CheckMoves
<1>8. ASSUME NEW k \in Checks, CheckCancelled(k) PROVE ValidationInv' /\ Kept
  <2>1. Verdict(k, <<>>, FALSE) \in CheckType /\ Verdict(k, <<>>, FALSE).at = "done" /\ Put(k, Verdict(k, <<>>, FALSE))
    BY <1>3, <1>4, <1>8 DEF CheckCancelled
  <2>2. /\ UNCHANGED <<manifest, lockfile>>
        /\ \/ check[k].at = "running" /\ permits' = permits + 1
           \/ check[k].at # "running" /\ permits' = permits
    BY <1>0, <1>8 DEF CheckCancelled
  <2> QED
    BY <1>0, <2>1, <2>2, CheckMoves
<1>9. ASSUME NEW k \in Checks, NEW x \in CheckType, Put(k, x), check[k].at \notin {"running", "done"},
             x.results \in {check[k].results, <<>>}, x.at # "running",
             UNCHANGED <<permits, manifest, lockfile>>
      PROVE  ValidationInv' /\ Kept
  <2>1. Len(x.results) < Len(StepOrder)
    BY <1>0, <1>1, <1>9
  <2> QED
    BY <1>0, <1>9, <2>1, CheckMoves
<1>10. ASSUME NEW k \in Checks, ReadManifest(k) PROVE ValidationInv' /\ Kept
  <2> DEFINE x == [NoCheck EXCEPT !.at = "read", !.whole = TRUE, !.before = manifest[k]]
  <2>1. x \in CheckType /\ x.at = "read" /\ x.results = <<>>
    BY <1>0, NoCheckType DEF CheckType
  <2>2. Put(k, x)
    BY <1>10 DEF ReadManifest
  <2> HIDE DEF x
  <2> QED
    BY <1>9, <1>10, <2>1, <2>2 DEF ReadManifest
<1>11. ASSUME NEW k \in Checks, PackWorkspace(k) PROVE ValidationInv' /\ Kept
  <2> DEFINE x == [check[k] EXCEPT !.at = "sent", !.sent = manifest[k]]
  <2>1. check[k] \in CheckType
    BY <1>0
  <2>2. x \in CheckType /\ x.at = "sent" /\ x.results = check[k].results
    BY <1>0, <2>1 DEF CheckType
  <2>3. Put(k, x)
    BY <1>11 DEF PackWorkspace
  <2> HIDE DEF x
  <2> QED
    BY <1>9, <1>11, <2>2, <2>3 DEF PackWorkspace
<1>12. ASSUME NEW k \in Checks, RunnerFails(k) PROVE ValidationInv' /\ Kept
  BY <1>9, <1>12, NoCheckType DEF RunnerFails
<1>13. ASSUME NEW k \in Checks, RunnerAnswers(k) PROVE ValidationInv' /\ Kept
  <2>1. check[k].at = "sent" /\ UNCHANGED <<permits, manifest>> /\ check[k].sent \in Manifests \cup {NoManifest}
    BY <1>0, <1>13 DEF RunnerAnswers, CheckType
  <2>2. /\ lockfile' \in [Checks -> Manifests \cup {NoManifest}]
        /\ \A j \in Checks : lockfile'[j] # lockfile[j] => lockfile'[j] = manifest[j]
    BY <1>0, <1>13, <2>1 DEF RunnerAnswers, Persistable
  <2>3. \E x \in CheckType : Put(k, x) /\ x.at \in {"done", "idle"} /\ (x.at = "idle" => x.results = <<>>)
    <3>1. ASSUME NEW results \in Served
          PROVE  results \in Seq(StepResults)
      <4>1. CASE results = <<>>
        BY <1>4, <4>1
      <4>2. CASE results # <<>>
        <5>1. results \in UNION {[1 .. m -> StepResults] : m \in 0 .. Len(StepOrder)}
          BY <4>2 DEF Served, BoundedSeq, SeqOf, StepResults
        <5>2. PICK m \in 0 .. Len(StepOrder) : results \in [1 .. m -> StepResults]
          BY <5>1
        <5>3. m \in Nat
          BY <1>1, <5>2
        <5> HIDE DEF StepResults
        <5> QED
          BY <5>2, <5>3
      <4> QED
        BY <4>1, <4>2
    <3>2. \/ Put(k, Verdict(k, <<>>, FALSE)) \/ Put(k, NoCheck)
          \/ \E results \in Served : Put(k, Verdict(k, results, Len(results) = Len(StepOrder) /\ "failed" \notin ToSet(results)))
      BY <1>13 DEF RunnerAnswers
    <3>3. ASSUME NEW results \in Served, Put(k, Verdict(k, results, Len(results) = Len(StepOrder) /\ "failed" \notin ToSet(results)))
          PROVE  \E passed \in BOOLEAN : Put(k, Verdict(k, results, passed))
      BY <3>3
    <3> HIDE DEF StepResults
    <3> QED
      BY <1>1, <1>3, <1>4, <3>1, <3>2, <3>3, NoCheckType
  <2>4. PICK x \in CheckType : Put(k, x) /\ x.at \in {"done", "idle"} /\ (x.at = "idle" => Len(x.results) = 0)
    BY <2>3
  <2> QED
    BY <1>1, <2>1, <2>2, <2>4, CheckMoves
<1>14. ASSUME NEW k \in Checks, VerdictUsed(k) PROVE ValidationInv' /\ Kept
  BY <1>0, <1>1, <1>14, CheckMoves DEF VerdictUsed
<1>15. ASSUME NEW k \in Checks, EditManifest(k) PROVE ValidationInv' /\ Kept
  <2>1. manifest' \in [Checks -> Manifests] /\ UNCHANGED <<permits, lockfile, check>>
    BY <1>0, <1>15 DEF EditManifest
  <2> QED
    BY <1>0, <2>1 DEF ValidationInv, ValidationTypeOK, PermitsCounted, Runs
<1>16. CASE UNCHANGED validationVars
  BY <1>0, <1>16 DEF validationVars, ValidationInv, ValidationTypeOK, PermitsCounted, Runs
<1> QED
  BY <1>5, <1>6, <1>7, <1>8, <1>10, <1>11, <1>12, <1>13, <1>14, <1>15, <1>16 DEF ValidationNext

\* the first state
LEMMA ValidationStarts == ASSUME ValidationAssumption, ValidationInit PROVE ValidationInv
<1>1. Runs = {}
  BY NoCheckType DEF Runs, ValidationInit
<1>2. ValidationTypeOK
  <2>1. Len(NoCheck.results) = 0 /\ Len(StepOrder) = 4
    BY NoCheckType DEF StepOrder
  <2>2. check \in [Checks -> CheckType] /\ \A k \in Checks : check[k] = NoCheck
    BY NoCheckType DEF ValidationInit
  <2>3. manifest \in [Checks -> Manifests] /\ lockfile \in [Checks -> Manifests \cup {NoManifest}]
    BY DEF ValidationInit
  <2> QED
    BY <2>1, <2>2, <2>3 DEF ValidationInit, ValidationTypeOK, ValidationAssumption
<1> QED
  BY <1>1, <1>2, FS_EmptySet DEF ValidationInit, ValidationInv, PermitsCounted, ValidationAssumption

(***************************************************************************)
(* The semaphore loses no permit, whether a command ends, is timed out,    *)
(* waits in vain for its permit or is cancelled: at most MaxRunners run.   *)
(***************************************************************************)
THEOREM PermitsCountedHolds == ASSUME ValidationAssumption PROVE ValidationSpec => []PermitsCounted
<1>1. ValidationInit => ValidationInv
  BY ValidationStarts
<1>2. ValidationInv /\ [ValidationNext]_validationVars => ValidationInv'
  BY ValidationStep
<1>3. ValidationInv => PermitsCounted
  BY DEF ValidationInv
<1> QED
  BY <1>1, <1>2, <1>3, PTL DEF ValidationSpec

(***************************************************************************)
(* The lockfile that is replaced belongs to the package.json that is there.*)
(***************************************************************************)
THEOREM LockOfItsManifestHolds == ASSUME ValidationAssumption PROVE ValidationSpec => LockOfItsManifest
<1>1. ValidationInit => ValidationInv
  BY ValidationStarts
<1>2. ValidationInv /\ [ValidationNext]_validationVars =>
        ValidationInv' /\ [\A k \in Checks : lockfile'[k] # lockfile[k] => lockfile'[k] = manifest[k]]_validationVars
  BY ValidationStep
<1> QED
  BY <1>1, <1>2, PTL DEF ValidationSpec, LockOfItsManifest
=============================================================================
