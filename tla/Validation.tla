------------------------------ MODULE Validation ------------------------------
(***************************************************************************)
(* The deterministic validation of a generated workspace: typecheck, lint, *)
(* tests and build, run in subprocesses under one semaphore                *)
(* (SubprocessCodeRunner) or in a separate container that is sent an       *)
(* archive (RemoteCodeRunner and docker/code-runner/server.js).  Each      *)
(* check has a workspace of its own, as each project has.  The Docker      *)
(* runner is composed only when there is no other, which never happens.    *)
(***************************************************************************)
EXTENDS Naturals, Sequences, FiniteSets, SequencesExt

CONSTANTS Checks,       \* validations, each of one workspace
          MaxRunners,   \* KOSMO_MAX_CONCURRENT_RUNNERS (4)
          Manifests,    \* contents package.json can have
          MaxManifestEdits,     \* bound: edits of a package.json
          NoManifest

VARIABLES
  isolated,   \* settings.code_runner_base_url: the remote runner is used
  permits,    \* _runner_semaphore
  modules,    \* workspaces with node_modules
  manifest,   \* manifest[k]: package.json of k's workspace
  lockfile,   \* the package.json that package-lock.json belongs to, if there is one
  check,      \* check[k]: a validation
  manifestEdits

validationVars == <<isolated, permits, modules, manifest, lockfile, check, manifestEdits>>

ASSUME ValidationAssumption == IsFiniteSet(Checks) /\ MaxRunners \in Nat

\* DEFAULT_VALIDATION_STEPS
StepOrder == <<"typecheck", "lint", "tests", "build">>
NoCheck == [at |-> "idle", whole |-> FALSE, doing |-> "none", results |-> <<>>,
            before |-> NoManifest, sent |-> NoManifest, passed |-> FALSE]
Succeeded(results) == \A i \in DOMAIN results : results[i] = "ok"

ValidationInit ==
  /\ isolated \in BOOLEAN /\ permits = MaxRunners
  /\ modules \in {{}, Checks}
  /\ manifest \in [Checks -> Manifests]
  /\ lockfile \in {manifest, [k \in Checks |-> NoManifest]}
  /\ check = [k \in Checks |-> NoCheck]
  /\ manifestEdits = 0

Put(k, new) == check' = [check EXCEPT ![k] = new]
Verdict(k, results, passed) ==
  [NoCheck EXCEPT !.at = "done", !.results = results, !.passed = passed]
-----------------------------------------------------------------------------
(***************************************************************************)
(* SubprocessCodeRunner.  whole: the run_pipeline of a generation, which   *)
(* gathers every diagnosis; otherwise the use case of the validate         *)
(* endpoint, which calls run_step and stops at the first failure.          *)
(***************************************************************************)
Queued(k, whole, doing, results) ==
  Put(k, [NoCheck EXCEPT !.at = "queued", !.whole = whole, !.doing = doing, !.results = results])

BeginPipeline(k) ==
  /\ ~isolated /\ check[k].at = "idle"
  /\ Queued(k, TRUE, IF k \in modules THEN StepOrder[1] ELSE "install", <<>>)
  /\ UNCHANGED <<isolated, permits, modules, manifest, lockfile, manifestEdits>>

BeginEndpoint(k) ==
  /\ ~isolated /\ check[k].at = "idle"
  /\ Queued(k, FALSE, StepOrder[1], <<>>)
  /\ UNCHANGED <<isolated, permits, modules, manifest, lockfile, manifestEdits>>

\* what follows the result r of the command in hand
Advance(k, r) ==
  LET c == check[k]
      results == Append(c.results, r)
      left == Len(StepOrder) - Len(results)
  IN IF c.doing = "install"
     THEN IF r = "ok" THEN Queued(k, TRUE, StepOrder[1], <<>>) ELSE Put(k, Verdict(k, <<>>, FALSE))
     ELSE IF left = 0 \/ (~Succeeded(results) /\ (~c.whole \/ left = 1))
          THEN Put(k, Verdict(k, results, left = 0 /\ Succeeded(results)))
          ELSE Queued(k, c.whole, StepOrder[Len(results) + 1], results)

TakePermit(k) ==
  /\ check[k].at = "queued" /\ permits > 0
  /\ permits' = permits - 1
  /\ Put(k, [check[k] EXCEPT !.at = "running"])
  /\ UNCHANGED <<isolated, modules, manifest, lockfile, manifestEdits>>

\* wait_for(semaphore.acquire(), 180 s): the step fails without a permit
QueueTimeout(k) ==
  /\ check[k].at = "queued"
  /\ Advance(k, "failed")
  /\ UNCHANGED <<isolated, permits, modules, manifest, lockfile, manifestEdits>>

\* the command ends, or there is no such executable; parse_step_output fails
\* the step for an exit code or for any problem it reads in the output
CommandEnds(k) ==
  /\ check[k].at = "running"
  /\ permits' = permits + 1
  /\ \E r \in {"ok", "warned", "failed"} :
       /\ r = "warned" => check[k].doing # "install"
       /\ Advance(k, r)
       /\ modules' = IF check[k].doing = "install" /\ r = "ok" THEN modules \union {k} ELSE modules
  /\ UNCHANGED <<isolated, manifest, lockfile, manifestEdits>>

\* _kill_process_tree: off Windows only the process itself is killed, what npx
\* started goes on
CommandTimeout(k) ==
  /\ check[k].at = "running"
  /\ permits' = permits + 1
  /\ Advance(k, "failed")
  /\ UNCHANGED <<isolated, modules, manifest, lockfile, manifestEdits>>

\* CancelledError passes through the finally blocks: nothing is killed
CheckCancelled(k) ==
  /\ check[k].at \in {"queued", "running"}
  /\ permits' = permits + (IF check[k].at = "running" THEN 1 ELSE 0)
  /\ Put(k, Verdict(k, <<>>, FALSE))
  /\ UNCHANGED <<isolated, modules, manifest, lockfile, manifestEdits>>
-----------------------------------------------------------------------------
(***************************************************************************)
(* RemoteCodeRunner.run_pipeline: package.json is read, then the workspace *)
(* is packed, then the runner is asked.                                    *)
(***************************************************************************)
ReadManifest(k) ==
  /\ isolated /\ check[k].at = "idle"
  /\ Put(k, [NoCheck EXCEPT !.at = "read", !.whole = TRUE, !.before = manifest[k]])
  /\ UNCHANGED <<isolated, permits, modules, manifest, lockfile, manifestEdits>>

PackWorkspace(k) ==
  /\ check[k].at = "read"
  /\ Put(k, [check[k] EXCEPT !.at = "sent", !.sent = manifest[k]])
  /\ UNCHANGED <<isolated, permits, modules, manifest, lockfile, manifestEdits>>

\* npm install, then the steps until one exits with a code; a step with
\* problems but exit code 0 goes on
Served ==
  {<<>>} \union { results \in BoundedSeq({"ok", "warned", "failed"}, Len(StepOrder)) :
      /\ results # <<>>
      /\ \A i \in 1..Len(results) - 1 : results[i] # "failed"
      /\ Len(results) < Len(StepOrder) => Last(results) = "failed" }

Mutant_LockOfTheRequest(k) == check[k].sent = check[k].before
\* _persist_package_lock: package.json is still the one read before, and the
\* root of the lockfile, generated in the runner, lists its dependencies
Persistable(k) == manifest[k] = check[k].before /\ check[k].sent = check[k].before

\* a failed install answers without a lockfile
RunnerAnswers(k) ==
  /\ check[k].at = "sent"
  /\ \E results \in Served :
       LET passed == Len(results) = Len(StepOrder) /\ "failed" \notin ToSet(results)
       IN IF results = <<>> THEN Put(k, Verdict(k, <<>>, FALSE)) /\ UNCHANGED lockfile
          ELSE IF Persistable(k)
               THEN /\ lockfile' = [lockfile EXCEPT ![k] = check[k].sent]
                    /\ Put(k, Verdict(k, results, passed))
               ELSE Put(k, NoCheck) /\ UNCHANGED lockfile
  /\ UNCHANGED <<isolated, permits, modules, manifest, manifestEdits>>

\* an HTTP error, or 900 s without an answer: the runner goes on with the work
RunnerFails(k) ==
  /\ check[k].at = "sent"
  /\ Put(k, NoCheck)
  /\ UNCHANGED <<isolated, permits, modules, manifest, lockfile, manifestEdits>>
-----------------------------------------------------------------------------
\* an agent or a person changes package.json
EditManifest(k) ==
  /\ manifestEdits < MaxManifestEdits /\ manifestEdits' = manifestEdits + 1
  /\ \E m \in Manifests \ {manifest[k]} : manifest' = [manifest EXCEPT ![k] = m]
  /\ UNCHANGED <<isolated, permits, modules, lockfile, check>>

\* the verdict is used, and a later turn validates again
VerdictUsed(k) ==
  /\ check[k].at = "done"
  /\ Put(k, NoCheck)
  /\ UNCHANGED <<isolated, permits, modules, manifest, lockfile, manifestEdits>>

ValidationNext ==
  \E k \in Checks :
    \/ BeginPipeline(k) \/ BeginEndpoint(k) \/ TakePermit(k) \/ QueueTimeout(k)
    \/ CommandEnds(k) \/ CommandTimeout(k) \/ CheckCancelled(k)
    \/ ReadManifest(k) \/ PackWorkspace(k) \/ RunnerAnswers(k) \/ RunnerFails(k)
    \/ EditManifest(k) \/ VerdictUsed(k)

ValidationSpec == ValidationInit /\ [][ValidationNext]_validationVars
-----------------------------------------------------------------------------
(***************************************************************************)
(* A lockfile is replaced only by the one generated from the package.json  *)
(* that is there: not by that of an archive made before or after an edit.  *)
(***************************************************************************)
LockOfItsManifest ==
  [][\A k \in Checks : lockfile'[k] # lockfile[k] => lockfile'[k] = manifest[k]]_validationVars
=============================================================================
