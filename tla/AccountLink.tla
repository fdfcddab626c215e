------------------------------ MODULE AccountLink ------------------------------
(***************************************************************************)
(* The row with a user's credentials at GitHub or Railway                  *)
(* (user_integrations): the user links the account by an OAuth code,       *)
(* unlinks it, and deployments, their monitors and their removals renew    *)
(* an expired token with the refresh token they read earlier.  Every save  *)
(* inserts or updates the row whatever is there.                           *)
(*                                                                         *)
(* Credentials are the authorization they come from (grant) and, of it,    *)
(* the refresh token they hold (turn).  Railway replaces the refresh token *)
(* at each renewal, or never does (rotates); a replaced one is refused.    *)
(***************************************************************************)
EXTENDS Naturals

CONSTANTS Callers,      \* requests and polling tasks
          Unlinked,     \* no row
          MaxGrants,    \* bound: codes exchanged
          MaxTurns      \* bound: renewals of an authorization

VARIABLES
  provider,     \* whose row it is
  rotates,
  grants,       \* codes exchanged so far
  newest,       \* newest[g]: the refresh token of g that Railway accepts
  credentials,  \* the row
  profile,      \* the user's name and picture are those of GitHub
  caller,       \* caller[c]: a request or a task
  lost          \* history: authorizations whose newest refresh token nobody kept

linkVars == <<provider, rotates, grants, newest, credentials, profile, caller, lost>>
outside == <<provider, rotates, grants, newest, lost>>

Pasted == 0   \* a token of the account given in place of a code
Credentials == [grant : 0 .. MaxGrants, turn : 0 .. MaxTurns, renewable : BOOLEAN]
ASSUME LinkAssumption == MaxGrants \in Nat /\ MaxTurns \in Nat /\ Unlinked \notin Credentials
NoCaller == [at |-> "idle", purpose |-> "none", hold |-> Unlinked, renewed |-> FALSE]

LinkTypeOK ==
  /\ provider \in {"github", "railway"} /\ rotates \in BOOLEAN
  /\ grants \in 0 .. MaxGrants /\ newest \in [1 .. MaxGrants -> 0 .. MaxTurns]
  /\ credentials \in Credentials \cup {Unlinked} /\ profile \in BOOLEAN
  /\ caller \in [Callers -> [at : {"idle", "exchange", "save", "profile", "use", "renew", "keep", "drop"},
                             purpose : {"none", "connect", "disconnect", "deploy", "monitor", "erase"},
                             hold : Credentials \cup {Unlinked}, renewed : BOOLEAN]]
  /\ lost \subseteq 1 .. MaxGrants

LinkInit ==
  /\ provider \in {"github", "railway"} /\ rotates \in BOOLEAN
  /\ grants = 0 /\ newest = [g \in 1 .. MaxGrants |-> 0]
  /\ credentials = Unlinked /\ profile = FALSE
  /\ caller = [c \in Callers |-> NoCaller]
  /\ lost = {}

CallerAt(c, s) == caller[c].at = s
Leaves(c) == caller' = [caller EXCEPT ![c] = NoCaller]
Takes(c, at, hold) == caller' = [caller EXCEPT ![c].at = at, ![c].hold = hold]
-----------------------------------------------------------------------------
(***************************************************************************)
(* POST /{provider}/connect.                                               *)
(***************************************************************************)
ConnectOauth(c) ==
  /\ CallerAt(c, "idle")
  /\ caller' = [caller EXCEPT ![c].at = "exchange", ![c].purpose = "connect"]
  /\ UNCHANGED <<outside, credentials, profile>>

NewGrant(renewable) == [grant |-> grants + 1, turn |-> 0, renewable |-> renewable]

\* the profile at Railway may be unknown, the link is made all the same
ExchangeAtRailway(c) ==
  /\ CallerAt(c, "exchange") /\ provider = "railway"
  /\ \/ /\ Takes(c, "save", [grant |-> Pasted, turn |-> 0, renewable |-> FALSE])
        /\ UNCHANGED grants
     \/ /\ grants < MaxGrants /\ grants' = grants + 1
        /\ \E renewable \in BOOLEAN : Takes(c, "save", NewGrant(renewable))
  /\ UNCHANGED <<provider, rotates, newest, credentials, profile, lost>>

\* without the scope "repo", or without the profile, the token is thrown away
ExchangeAtGitHub(c) ==
  /\ CallerAt(c, "exchange") /\ provider = "github"
  /\ grants < MaxGrants /\ grants' = grants + 1
  /\ Takes(c, "save", NewGrant(FALSE)) \/ Leaves(c)
  /\ UNCHANGED <<provider, rotates, newest, credentials, profile, lost>>

CodeRefused(c) ==
  /\ CallerAt(c, "exchange") /\ Leaves(c)
  /\ UNCHANGED <<outside, credentials, profile>>

\* select, then insert or update
SaveCredentials(c) == credentials' = caller[c].hold

SaveLink(c) ==
  /\ CallerAt(c, "save") /\ SaveCredentials(c)
  /\ IF provider = "github" THEN Takes(c, "profile", caller[c].hold) ELSE Leaves(c)
  /\ UNCHANGED <<outside, profile>>

UpdateProfile(c) ==
  /\ CallerAt(c, "profile") /\ profile' = TRUE /\ Leaves(c)
  /\ UNCHANGED <<outside, credentials>>
-----------------------------------------------------------------------------
(***************************************************************************)
(* DELETE /{provider}: nothing is revoked at the provider.                 *)
(***************************************************************************)
DisconnectAccount(c) ==
  /\ CallerAt(c, "idle") /\ credentials # Unlinked
  /\ caller' = [caller EXCEPT ![c].at = "drop", ![c].purpose = "disconnect"]
  /\ UNCHANGED <<outside, credentials, profile>>

DropCredentials(c) ==
  /\ CallerAt(c, "drop") /\ credentials' = Unlinked /\ Leaves(c)
  /\ UNCHANGED <<outside, profile>>
-----------------------------------------------------------------------------
(***************************************************************************)
(* Use of the Railway account.  A token may be refused at any call.        *)
(***************************************************************************)
ReadCredentials(c, purpose) ==
  /\ CallerAt(c, "idle") /\ provider = "railway" /\ credentials # Unlinked
  /\ caller' = [caller EXCEPT ![c] = [at |-> "use", purpose |-> purpose, hold |-> credentials, renewed |-> FALSE]]
  /\ UNCHANGED <<outside, credentials, profile>>

Accepted(c) ==
  /\ CallerAt(c, "use") /\ Leaves(c)
  /\ UNCHANGED <<outside, credentials, profile>>

\* 401: the first time the token is renewed; then a deployment deletes the
\* user's row, whichever it is by now, and the others give up
Unauthorized401(c) ==
  /\ CallerAt(c, "use")
  /\ IF caller[c].hold.renewable /\ ~caller[c].renewed THEN Takes(c, "renew", caller[c].hold)
     ELSE IF caller[c].purpose = "deploy" THEN Takes(c, "drop", caller[c].hold)
     ELSE Leaves(c)
  /\ UNCHANGED <<outside, credentials, profile>>

RefreshAccessToken(c) ==
  LET h == caller[c].hold IN
  /\ CallerAt(c, "renew") /\ h.turn = newest[h.grant]
  /\ IF rotates
     THEN /\ h.turn < MaxTurns
          /\ newest' = [newest EXCEPT ![h.grant] = h.turn + 1]
          /\ Takes(c, "keep", [h EXCEPT !.turn = @ + 1])
     ELSE UNCHANGED newest /\ Takes(c, "keep", h)
  /\ UNCHANGED <<provider, rotates, grants, credentials, profile, lost>>

\* refused, or the answer does not arrive; with or without a deletion to do,
\* the caller ends here
RefreshFails(c) ==
  LET h == caller[c].hold IN
  /\ CallerAt(c, "renew") /\ Leaves(c)
  /\ \/ UNCHANGED <<newest, lost>>
     \/ /\ rotates /\ h.turn = newest[h.grant] /\ h.turn < MaxTurns
        /\ newest' = [newest EXCEPT ![h.grant] = h.turn + 1]
        /\ lost' = lost \cup {h.grant}
  /\ UNCHANGED <<provider, rotates, grants, credentials, profile>>

Mutant_KeepsOldRefreshToken(c) ==
  /\ CallerAt(c, "keep")
  /\ credentials' = [caller[c].hold EXCEPT !.turn = IF @ > 0 THEN @ - 1 ELSE 0]
  /\ caller' = [caller EXCEPT ![c].at = "use", ![c].renewed = TRUE]
  /\ UNCHANGED <<outside, profile>>
SaveRenewed(c) ==
  /\ CallerAt(c, "keep") /\ SaveCredentials(c)
  /\ caller' = [caller EXCEPT ![c].at = "use", ![c].renewed = TRUE]
  /\ UNCHANGED <<outside, profile>>

CallerDies(c) ==
  /\ ~CallerAt(c, "idle") /\ Leaves(c)
  /\ lost' = IF CallerAt(c, "keep") /\ rotates THEN lost \cup {caller[c].hold.grant} ELSE lost
  /\ UNCHANGED <<provider, rotates, grants, newest, credentials, profile>>

LinkNext == \E c \in Callers :
  \/ ConnectOauth(c) \/ ExchangeAtRailway(c) \/ ExchangeAtGitHub(c) \/ CodeRefused(c)
  \/ SaveLink(c) \/ UpdateProfile(c) \/ DisconnectAccount(c) \/ DropCredentials(c)
  \/ \E purpose \in {"deploy", "monitor", "erase"} : ReadCredentials(c, purpose)
  \/ Accepted(c) \/ Unauthorized401(c) \/ RefreshAccessToken(c) \/ RefreshFails(c)
  \/ SaveRenewed(c) \/ CallerDies(c)

LinkSpec == LinkInit /\ [][LinkNext]_linkVars
-----------------------------------------------------------------------------
(***************************************************************************)
(* The refresh token of the row is the one Railway accepts, although three *)
(* places renew it from a row they read earlier and save it whole: unless  *)
(* the one who renewed it is about to save it, or died before.             *)
(***************************************************************************)
StoredIsNewest ==
  credentials # Unlinked /\ credentials.renewable =>
    \/ credentials.turn = newest[credentials.grant]
    \/ credentials.grant \in lost
    \/ \E c \in Callers : CallerAt(c, "keep") /\ caller[c].hold.grant = credentials.grant
=============================================================================
