------------------------------ MODULE Generation ------------------------------
(***************************************************************************)
(* The generation of one document of a project by the agent: the loop of   *)
(* application/pipeline/generation_loop.py (ask, validate, ask again), the *)
(* use cases that save or refuse what it returns, and the memory it feeds: *)
(* a session of the agent per run, the job that reflects on it, and the    *)
(* patterns consolidated from the reflections.  Of a text only its worth   *)
(* is kept: "valid", "invalid" (it failed the validation of its phase),    *)
(* "blank" (nothing in it) or "none".                                      *)
(***************************************************************************)
EXTENDS Naturals, FiniteSets

CONSTANTS Generations,     \* runs of the agent; each makes one
          MaxIterations,   \* calls to the LLM in a run (8 in the code)
          Threshold,       \* completed sessions between consolidations (5)
          EnoughSnippets   \* lessons a consolidation needs (3)

VARIABLES
  owner,       \* the row of the project is there
  body,        \* what the document holds
  gen,         \* gen[g]: the run g
  session,     \* session[g]: the row of its session: "none", "there" or "gone"
  lesson,      \* lesson[g]: the row has a reflection
  reflection,  \* reflection[g]: the job reflect_and_consolidate of g
  patterns     \* the phase has knowledge patterns

generationVars == <<owner, body, gen, session, lesson, reflection, patterns>>
memory == <<session, lesson, reflection, patterns>>

FromScratch == {"ears", "features", "discovery", "diagram"}
OnOriginal == {"refine", "regenerate"}
Worths == {"none", "blank", "invalid", "valid"}

Completed(g) == gen[g].output = "valid"
\* user_instructions makes a refinement of a run, and is itself a lesson
Instructed(g) == gen[g].kind \in OnOriginal

GenerationInit ==
  /\ owner = TRUE /\ patterns = FALSE
  /\ body \in {"none", "valid"}
  /\ gen = [g \in Generations |-> [at |-> "idle", kind |-> "none", calls |-> 0, output |-> "none"]]
  /\ session = [g \in Generations |-> "none"]
  /\ lesson = [g \in Generations |-> FALSE]
  /\ reflection = [g \in Generations |-> "none"]
-----------------------------------------------------------------------------
(***************************************************************************)
(* The loop.                                                               *)
(***************************************************************************)
StartRun(g, kind) ==
  /\ gen[g].at = "idle" /\ owner
  /\ kind \in OnOriginal => body \notin {"none", "blank"}
  /\ gen' = [gen EXCEPT ![g] = [@ EXCEPT !.at = "asking", !.kind = kind]]
  /\ UNCHANGED <<owner, body, memory>>

\* complete_typed and validate_output: a valid answer ends the loop, and so
\* does the last iteration
Ask(g) ==
  /\ gen[g].at = "asking"
  /\ \E worth \in Worths \ {"none"} :
       LET n == gen[g].calls + 1
       IN  gen' = [gen EXCEPT ![g] = [@ EXCEPT !.calls = n, !.output = worth,
                     !.at = IF worth = "valid" \/ n = MaxIterations THEN "recording" ELSE "asking"]]
  /\ UNCHANGED <<owner, body, memory>>

\* the exception of the LLM leaves the loop with what the last call returned
AskFails(g) ==
  /\ gen[g].at = "asking"
  /\ gen' = [gen EXCEPT ![g].at = "recording"]
  /\ UNCHANGED <<owner, body, memory>>

SaveSession(g) ==
  /\ gen[g].at = "recording" /\ owner
  /\ session' = [session EXCEPT ![g] = "there"]
  /\ gen' = [gen EXCEPT ![g].at = "recorded"]
  /\ UNCHANGED <<owner, body, lesson, reflection, patterns>>

EnqueueReflection(g) ==
  /\ gen[g].at = "recorded"
  /\ reflection' = [reflection EXCEPT ![g] = "queued"]
  /\ gen' = [gen EXCEPT ![g].at = "built"]
  /\ UNCHANGED <<owner, body, session, lesson, patterns>>

\* the embedding, the session or the job cannot be saved (the project may be
\* gone): the exception reaches the use case, which answers 502
RunFails(g) ==
  /\ gen[g].at \in {"recording", "recorded"}
  /\ gen' = [gen EXCEPT ![g].at = "ended"]
  /\ UNCHANGED <<owner, body, memory>>
-----------------------------------------------------------------------------
(***************************************************************************)
(* The use cases on the result of the loop.                                *)
(***************************************************************************)
Accepts(kind, output) ==
  CASE kind \in {"ears", "features"} -> TRUE
    [] kind \in {"discovery", "diagram"} -> output \notin {"none", "blank"}
    [] kind \in OnOriginal -> output = "valid"

\* a result without text is saved as an empty one
SaveResult(g) ==
  /\ gen[g].at = "built" /\ owner
  /\ Accepts(gen[g].kind, gen[g].output)
  /\ body' = IF gen[g].output = "none" THEN "blank" ELSE gen[g].output
  /\ gen' = [gen EXCEPT ![g].at = "ended"]
  /\ UNCHANGED <<owner, memory>>

RefuseResult(g) ==
  /\ gen[g].at = "built"
  /\ ~owner \/ ~Accepts(gen[g].kind, gen[g].output)
  /\ gen' = [gen EXCEPT ![g].at = "ended"]
  /\ UNCHANGED <<owner, body, memory>>
-----------------------------------------------------------------------------
(***************************************************************************)
(* The job: the reflection on the run, then the consolidation.             *)
(***************************************************************************)
There == {g \in Generations : session[g] = "there"}
CompletedRows == {g \in There : Completed(g)}
CleanRun(g) == Completed(g) /\ gen[g].calls <= 1

\* update_reflection finds the row or does nothing; the LLM may have no lesson
Mutant_Upserts(g) ==
  /\ reflection[g] = "queued"
  /\ \E learned \in BOOLEAN :
       /\ learned => ~CleanRun(g)
       /\ lesson' = [lesson EXCEPT ![g] = @ \/ learned]
       /\ session' = [session EXCEPT ![g] = IF learned THEN "there" ELSE @]
  /\ reflection' = [reflection EXCEPT ![g] = IF Completed(g) THEN "reflected" ELSE "none"]
  /\ UNCHANGED <<owner, body, gen, patterns>>
Reflect(g) ==
  /\ reflection[g] = "queued"
  /\ \E learned \in BOOLEAN :
       /\ learned => ~CleanRun(g)
       /\ lesson' = [lesson EXCEPT ![g] = @ \/ (learned /\ session[g] = "there")]
  /\ reflection' = [reflection EXCEPT ![g] = IF Completed(g) THEN "reflected" ELSE "none"]
  /\ UNCHANGED <<owner, body, gen, session, patterns>>

\* replace_patterns: with none when the LLM failed or answered no JSON
Consolidate(g) ==
  LET due == CompletedRows # {} /\ Cardinality(CompletedRows) % Threshold = 0
      snippets == {c \in CompletedRows : lesson[c] \/ Instructed(c)}
  IN  /\ reflection[g] = "reflected"
      /\ reflection' = [reflection EXCEPT ![g] = "none"]
      /\ IF due /\ Cardinality(snippets) >= EnoughSnippets
         THEN patterns' \in BOOLEAN
         ELSE UNCHANGED patterns
      /\ UNCHANGED <<owner, body, gen, session, lesson>>

\* the worker dies or the handler raises: the job is tried again, or dropped
\* after its last attempt
JobRetried(g) ==
  /\ reflection[g] # "none"
  /\ reflection' \in {[reflection EXCEPT ![g] = "queued"], [reflection EXCEPT ![g] = "none"]}
  /\ UNCHANGED <<owner, body, gen, session, lesson, patterns>>

\* the periodic purge: rows of 7 days that did not complete
Purge ==
  /\ \E g \in There : ~Completed(g)
  /\ session' = [g \in Generations |-> IF g \in There /\ ~Completed(g) THEN "gone" ELSE session[g]]
  /\ UNCHANGED <<owner, body, gen, lesson, reflection, patterns>>

\* delete_by_project and the CASCADE; the patterns are of all projects
RemoveProject ==
  /\ owner /\ owner' = FALSE
  /\ body' = "none"
  /\ session' = [g \in Generations |-> IF session[g] = "there" THEN "gone" ELSE session[g]]
  /\ UNCHANGED <<gen, lesson, reflection, patterns>>

GenerationNext ==
  \/ \E g \in Generations :
       \/ \E kind \in FromScratch \cup OnOriginal : StartRun(g, kind)
       \/ Ask(g) \/ AskFails(g) \/ SaveSession(g) \/ EnqueueReflection(g) \/ RunFails(g)
       \/ SaveResult(g) \/ RefuseResult(g) \/ Reflect(g) \/ Consolidate(g) \/ JobRetried(g)
  \/ Purge
  \/ RemoveProject

GenerationSpec == GenerationInit /\ [][GenerationNext]_generationVars
-----------------------------------------------------------------------------
(***************************************************************************)
(* A session that was purged, or went with its project, is not brought     *)
(* back by the job that reflects on it, however late or often the outbox   *)
(* delivers that job.                                                      *)
(***************************************************************************)
PurgedStaysPurged ==
  [][\A g \in Generations : session[g] = "gone" => session'[g] = "gone"]_generationVars
=============================================================================
