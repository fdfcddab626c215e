------------------------------ MODULE ModelClient ------------------------------
(***************************************************************************)
(* The language model that a request of a user is sent to: the client that *)
(* keeps each user's provider, model and key in memory for a time          *)
(* (infrastructure/llm/dynamic_llm_client.py), the endpoints that change   *)
(* them (api/routers/ai_config.py, application/ai) and the calls with      *)
(* their permits and their second attempt (pydantic_ai_adapter.py).  One   *)
(* worker; a change that another worker serves is one that does not        *)
(* invalidate here.  A saved configuration is a number, 0 is none.         *)
(***************************************************************************)
EXTENDS Integers

CONSTANTS ModelUsers, Calls,
          Ttl,          \* user_ai_config_cache_ttl_seconds
          Permits,      \* llm_max_concurrency
          MaxAttempts,  \* _RETRY_ATTEMPTS (2)
          LastInstant,  \* bound of the clock
          MaxSaves      \* bound: configurations a user saves

ASSUME ModelAssumption ==
  /\ Ttl \in Nat \ {0} /\ LastInstant \in Nat /\ MaxSaves \in Nat /\ MaxAttempts \in Nat \ {0}
  /\ 0 \notin Calls    \* NoCall

VARIABLES
  instant,      \* the event loop's clock
  configRow,    \* user -> the configuration in the table
  configCache,  \* user -> [since, config], or Uncached
  configLock,   \* user -> the call that renews the entry, or NoCall
  retired,      \* user -> saved configuration -> when it was replaced
  changed,      \* users whose change is committed and not yet invalidated
  call,         \* the calls
  used          \* permits taken

modelVars == <<instant, configRow, configCache, configLock, retired, changed, call, used>>

NoConfig == 0
NoCall == 0
Never == LastInstant + 1
Uncached == [since |-> -Ttl, config |-> NoConfig]

Unasked == [user |-> NoCall, stage |-> "idle", begun |-> 0, stamp |-> 0, config |-> NoConfig,
            permit |-> FALSE, attempt |-> 0]

ModelInit ==
  /\ instant = 0 /\ used = 0 /\ changed = {}
  /\ configRow = [u \in ModelUsers |-> NoConfig]
  /\ configCache = [u \in ModelUsers |-> Uncached]
  /\ configLock = [u \in ModelUsers |-> NoCall]
  /\ retired = [u \in ModelUsers |-> [v \in 1..MaxSaves |-> Never]]
  /\ call = [c \in Calls |-> Unasked]

InStage(c, stage) == call[c].stage = stage
-----------------------------------------------------------------------------
(***************************************************************************)
(* _resolve_config: without the lock if the entry is fresh; else under the *)
(* user's lock, where it is looked at again.                               *)
(***************************************************************************)
Fresh(u) == instant - configCache[u].since < Ttl

BeginCall(c, u) ==
  /\ InStage(c, "idle")
  /\ \/ /\ Fresh(u)
        /\ call' = [call EXCEPT ![c] = [@ EXCEPT !.user = u, !.stage = "resolved", !.begun = instant,
                                                 !.config = configCache[u].config]]
        /\ UNCHANGED configLock
     \/ /\ ~Fresh(u) /\ configLock[u] = NoCall
        /\ call' = [call EXCEPT ![c] = [@ EXCEPT !.user = u, !.stage = "asking", !.begun = instant,
                                                 !.stamp = instant]]
        /\ configLock' = [configLock EXCEPT ![u] = c]
     \/ /\ ~Fresh(u) /\ configLock[u] # NoCall
        /\ call' = [call EXCEPT ![c] = [@ EXCEPT !.user = u, !.stage = "waiting", !.begun = instant]]
        /\ UNCHANGED configLock
  /\ UNCHANGED <<instant, configRow, configCache, retired, changed, used>>

TakeConfigLock(c) ==
  LET u == call[c].user
  IN /\ InStage(c, "waiting") /\ configLock[u] = NoCall
     /\ IF Fresh(u)
        THEN /\ call' = [call EXCEPT ![c].stage = "resolved", ![c].config = configCache[u].config]
             /\ UNCHANGED configLock
        ELSE /\ call' = [call EXCEPT ![c].stage = "asking", ![c].stamp = instant]
             /\ configLock' = [configLock EXCEPT ![u] = c]
     /\ UNCHANGED <<instant, configRow, configCache, retired, changed, used>>

\* the query; a failure of it, or of the decryption, leaves the platform's own
\* model, and so does a row without a key
ReadConfig(c) ==
  /\ InStage(c, "asking")
  /\ \E found \in {configRow[call[c].user], NoConfig} :
       call' = [call EXCEPT ![c].stage = "read", ![c].config = found]
  /\ UNCHANGED <<instant, configRow, configCache, configLock, retired, changed, used>>

Mutant_StampsLate(c) == [since |-> instant, config |-> call[c].config]
\* what is stored is dated before the query
Entry(c) == [since |-> call[c].stamp, config |-> call[c].config]

StoreConfig(c) ==
  /\ InStage(c, "read")
  /\ configCache' = [configCache EXCEPT ![call[c].user] = Entry(c)]
  /\ configLock' = [configLock EXCEPT ![call[c].user] = NoCall]
  /\ call' = [call EXCEPT ![c].stage = "resolved"]
  /\ UNCHANGED <<instant, configRow, retired, changed, used>>

\* a cancelled request frees the lock and stores nothing
Abandon(c) ==
  /\ call[c].stage \in {"waiting", "asking", "read"}
  /\ configLock' = [u \in ModelUsers |-> IF configLock[u] = c THEN NoCall ELSE configLock[u]]
  /\ call' = [call EXCEPT ![c].stage = "over", ![c].config = NoConfig]
  /\ UNCHANGED <<instant, configRow, configCache, retired, changed, used>>
-----------------------------------------------------------------------------
(***************************************************************************)
(* The call itself: complete, complete_json and complete_typed take a      *)
(* permit and try twice; a stream takes none and tries once.               *)
(***************************************************************************)
Complete(c) ==
  /\ InStage(c, "resolved") /\ used < Permits
  /\ used' = used + 1
  /\ call' = [call EXCEPT ![c].stage = "calling", ![c].permit = TRUE, ![c].attempt = 1]
  /\ UNCHANGED <<instant, configRow, configCache, configLock, retired, changed>>

Stream(c) ==
  /\ InStage(c, "resolved")
  /\ call' = [call EXCEPT ![c].stage = "calling", ![c].attempt = MaxAttempts]
  /\ UNCHANGED <<instant, configRow, configCache, configLock, retired, changed, used>>

\* an error or a timeout of the provider, other than a ValueError
TryAgain(c) ==
  /\ InStage(c, "calling") /\ call[c].attempt < MaxAttempts
  /\ call' = [call EXCEPT ![c].attempt = @ + 1]
  /\ UNCHANGED <<instant, configRow, configCache, configLock, retired, changed, used>>

\* an answer, the last error, a ValueError, an error of the key or a cancellation
EndCall(c) ==
  /\ InStage(c, "calling")
  /\ call' = [call EXCEPT ![c] = [@ EXCEPT !.stage = "over", !.permit = FALSE, !.attempt = 0, !.stamp = 0]]
  /\ used' = used - (IF call[c].permit THEN 1 ELSE 0)
  /\ UNCHANGED <<instant, configRow, configCache, configLock, retired, changed>>
-----------------------------------------------------------------------------
(***************************************************************************)
(* The user's preferences: the row is committed, and then the entry of     *)
(* this worker is dropped.                                                 *)
(***************************************************************************)
Replace(u, config) ==
  /\ configRow' = [configRow EXCEPT ![u] = config]
  /\ retired' = IF configRow[u] = NoConfig THEN retired
                ELSE [retired EXCEPT ![u][configRow[u]] = instant]
  /\ changed' = changed \union {u}
  /\ UNCHANGED <<instant, configCache, configLock, call, used>>

SavePreferences(u) ==
  LET saved == {v \in 1..MaxSaves : retired[u][v] # Never \/ configRow[u] = v}
  IN \E v \in 1..MaxSaves : saved = 1..v - 1 /\ Replace(u, v)

DeletePreferences(u) == configRow[u] # NoConfig /\ Replace(u, NoConfig)

Invalidate(u) ==
  /\ u \in changed
  /\ changed' = changed \ {u}
  /\ configCache' = [configCache EXCEPT ![u] = Uncached]
  /\ UNCHANGED <<instant, configRow, configLock, retired, call, used>>

\* another worker served the change, or the request died after its commit
LeftCached(u) ==
  /\ u \in changed
  /\ changed' = changed \ {u}
  /\ UNCHANGED <<instant, configRow, configCache, configLock, retired, call, used>>

Pass ==
  /\ instant < LastInstant
  /\ instant' = instant + 1
  /\ UNCHANGED <<configRow, configCache, configLock, retired, changed, call, used>>

ModelNext ==
  \/ Pass
  \/ \E c \in Calls :
       \/ \E u \in ModelUsers : BeginCall(c, u)
       \/ TakeConfigLock(c) \/ ReadConfig(c) \/ StoreConfig(c) \/ Abandon(c)
       \/ Complete(c) \/ Stream(c) \/ TryAgain(c) \/ EndCall(c)
  \/ \E u \in ModelUsers :
       SavePreferences(u) \/ DeletePreferences(u) \/ Invalidate(u) \/ LeftCached(u)

ModelSpec == ModelInit /\ [][ModelNext]_modelVars
-----------------------------------------------------------------------------
(***************************************************************************)
(* A configuration that the user has replaced or deleted is used by no     *)
(* call that begins a time to live later, whatever happened to the         *)
(* invalidation: not on this worker, not on another, not when the query    *)
(* that renews the entry and the change overlap.                           *)
(***************************************************************************)
ReplacedConfigExpires ==
  \A c \in Calls :
    call[c].config # NoConfig => retired[call[c].user][call[c].config] > call[c].begun - Ttl
=============================================================================
