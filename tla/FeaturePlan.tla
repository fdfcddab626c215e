------------------------------ MODULE FeaturePlan ------------------------------
(***************************************************************************)
(* The plan of a feature's implementation: how the feature fits with those *)
(* already implemented (domain/codegen/integration_rules.py), the agent's  *)
(* list of file operations or the canonical one (planning_service.py and   *)
(* implementation_context_builder.py), the rules a plan is checked with    *)
(* (plan_rules.py, path_safety.py) and the structure the result must have  *)
(* (structural_validator.py).  One feature; the others are a sequence.     *)
(***************************************************************************)
EXTENDS Naturals, Sequences, FiniteSets, SequencesExt

CONSTANTS OtherFeatures,  \* sequence: the project's other features, in their order
          RawPaths,      \* raw paths an agent writes: records [form, file]
          MaxOperations,  \* bound: operations of an agent's plan
          BuildAnswers,   \* its answers to the build prompt: sequences of parts [kind, raw]
          NoTarget

ASSUME PlanAssumption == MaxOperations \in Nat

VARIABLES
  nature,       \* words of the feature: of a panel, of a step, or neither
  akin,         \* other features whose words it shares
  implemented,  \* other features with an IMPLEMENTED row
  files,        \* files of the workspace that matter to the feature
  planning,     \* where the planning is
  placing,      \* the feature's disposition in the product map
  listed,       \* manifest_files: files when the planning began
  plan,         \* the operations of the plan
  canonical,    \* the plan is the fallback
  left,         \* operations that are still to be carried out
  generated     \* generated_files of the build

planVars == <<nature, akin, implemented, files, planning, placing, listed, plan, canonical, left, generated>>

\* the files of the feature: its slice, its page, its tests and the registry
Slice == {"logic", "actions", "manifest"}
FeatureFiles == Slice \union {"page", "registry", "tests"}
Protected == {"package"}    \* PROTECTED_WORKSPACE_FILES
FileActions == {"create", "modify", "delete"}

Nowhere == [kind |-> "none", target |-> NoTarget]

PlanInit ==
  /\ nature \in {"plain", "step", "panel"}
  /\ akin \in SUBSET ToSet(OtherFeatures)
  /\ implemented \in SUBSET ToSet(OtherFeatures)
  /\ files \in {Protected \union known : known \in SUBSET {"logic", "page", "registry"}}
  /\ planning = "idle" /\ placing = Nowhere
  /\ listed = {} /\ plan = <<>> /\ canonical = FALSE /\ left = {}
  /\ generated = {}
-----------------------------------------------------------------------------
(***************************************************************************)
(* determine_feature_disposition: a panel composes what others have; a     *)
(* step joins the FIRST implemented feature, whatever they share; then a   *)
(* shared word extends, and otherwise the feature founds.                  *)
(***************************************************************************)
Disposition(known) ==
  LET done == SelectSeq(OtherFeatures, LAMBDA f : f \in known)
      fits(kind) == [kind |-> kind, target |-> NoTarget]
  IN CASE nature = "panel" -> fits("compose")
       [] nature = "step" /\ done # <<>> -> [kind |-> "integrate", target |-> Head(done)]
       [] OTHER -> fits(IF akin \intersect known # {} THEN "extend" ELSE "create")

\* build_product_map; its actors, entities and flows are text for the prompts
ProductMapEntry(known) == Disposition(known)

\* AnalyzeFeatureIntegration: a failed query of the implementations leaves
\* none; a failed analysis leaves no map, and then the feature founds
Analyze ==
  /\ planning = "idle"
  /\ listed' = files
  /\ \/ placing' = ProductMapEntry(implemented)
     \/ placing' = ProductMapEntry({})
     \/ placing' = [kind |-> "create", target |-> NoTarget]
  /\ planning' = "analyzed"
  /\ UNCHANGED <<nature, akin, implemented, files, plan, canonical, left, generated>>
-----------------------------------------------------------------------------
(***************************************************************************)
(* Paths.  A proposal is written relative, with dots, as an absolute path  *)
(* inside or outside of the workspace, upward, blank, with a drive letter, *)
(* or through a link that leaves the workspace.                            *)
(***************************************************************************)
\* sanitize_relative_path refuses blanks and "..", and cleans the rest
Sanitizable(form) == form \notin {"blank", "upward"}

\* normalize_generated_file_path: operations without a usable path are left out
Normalizable(form) == Sanitizable(form) /\ form # "outside"

\* validate_safe_path, of a path that normalisation has let through
Safe(form) == form \in {"relative", "dotted", "inside"}

Operation(action, raw) == [action |-> action, file |-> raw.file, safe |-> Safe(raw.form)]

\* the PLAN_COMPLETE event with a list of operations; the one that the HTTP
\* client makes of an answer has the files and never a list
AgentPlans ==
  /\ planning = "analyzed"
  /\ \E n \in 1..MaxOperations : \E actions \in [1..n -> FileActions], raws \in [1..n -> RawPaths] :
       LET usable == {i \in 1..n : Normalizable(raws[i].form)}
       IN /\ usable # {}
          /\ \E nth \in [1..Cardinality(usable) -> usable] :
               /\ \A j, k \in DOMAIN nth : j < k => nth[j] < nth[k]
               /\ plan' = [j \in DOMAIN nth |-> Operation(actions[nth[j]], raws[nth[j]])]
  /\ planning' = "planned" /\ canonical' = FALSE
  /\ UNCHANGED <<nature, akin, implemented, files, placing, listed, left, generated>>

Canonical(action, file) == [action |-> action, file |-> file, safe |-> TRUE]
RegistryOperation == Canonical(IF "registry" \in listed THEN "modify" ELSE "create", "registry")
SliceOperations == <<Canonical("create", "logic"), Canonical("create", "actions"), Canonical("create", "manifest")>>
\* build_fallback_plan_operations: only the registry is looked up among the
\* files, a page is for what is not integrated
FallbackOperations ==
  LET page == IF placing.kind = "integrate" THEN <<>> ELSE <<Canonical("create", "page")>>
  IN SliceOperations \o page \o <<RegistryOperation, Canonical("create", "tests")>>

\* no event, no list, or no operation with a usable path
AgentGivesNothing ==
  /\ planning = "analyzed"
  /\ plan' = FallbackOperations
  /\ planning' = "planned" /\ canonical' = TRUE
  /\ UNCHANGED <<nature, akin, implemented, files, placing, listed, left, generated>>

\* send_prompt turns the parts of an answer into events: a file, or a call of a
\* tool that writes files and says which, is an edit; other calls, reasoning and
\* text are progress.  The last event names the edited files again.
Edits(parts) == {part.raw : part \in {p \in ToSet(parts) : p.kind \in {"file", "writer"}}}

\* instead, one ERROR event and no other: an HTTP status, an error of the
\* model, a timeout, a lost connection
AgentFails ==
  /\ planning = "analyzed"
  /\ planning' = "failed"
  /\ UNCHANGED <<nature, akin, implemented, files, placing, listed, plan, canonical, left, generated>>
-----------------------------------------------------------------------------
(***************************************************************************)
(* validate_plan, and what is done with it.                                *)
(***************************************************************************)
Kept(i) == \A j \in 1..i - 1 : ~(plan[j].safe /\ plan[j].file = plan[i].file)
Mutant_NoDuplicates ==
  { i \in DOMAIN plan : \/ ~plan[i].safe
                        \/ plan[i].action = "create" /\ plan[i].file \in listed
                        \/ plan[i].action # "create" /\ plan[i].file \notin listed
                        \/ plan[i].action = "delete" /\ plan[i].file \in Protected }
\* the operations that break a rule: an unsafe path, a repeated one, one that
\* is there already or is missing, a protected file deleted
Violations ==
  { i \in DOMAIN plan : \/ ~plan[i].safe
                        \/ ~Kept(i)
                        \/ plan[i].action = "create" /\ plan[i].file \in listed
                        \/ plan[i].action # "create" /\ plan[i].file \notin listed
                        \/ plan[i].action = "delete" /\ plan[i].file \in Protected }

\* validate_plan is called, its result is not looked at, and the row is saved
SavePlan ==
  /\ planning = "planned"
  /\ planning' = "saved" /\ left' = DOMAIN plan
  /\ UNCHANGED <<nature, akin, implemented, files, placing, listed, plan, canonical, generated>>

\* the build agent carries out the plan to the letter, in any order
Applicable(op) == IF op.action = "create" THEN op.file \notin files ELSE op.file \in files
CarryOut(i) ==
  /\ planning = "saved" /\ i \in left
  /\ left' = left \ {i}
  /\ files' = CASE ~plan[i].safe -> files
                [] plan[i].safe /\ plan[i].action = "delete" -> files \ {plan[i].file}
                [] OTHER -> files \union {plan[i].file}
  /\ UNCHANGED <<nature, akin, implemented, planning, placing, listed, plan, canonical, generated>>

\* validate_feature_structure, with the registry and the page read from the
\* workspace: what was carried out mentions the feature
WellStructured ==
  IF placing.kind = "integrate" THEN files \intersect FeatureFiles # {}
  ELSE "page" \in files /\ files \intersect Slice # {} /\ "registry" \in files

\* collect_workspace_feature_files: what is on disk, whoever wrote it
Collected == files \intersect (FeatureFiles \ {"tests"})

\* the answer to the build prompt: what it says was edited, and what is there
BuildEnds ==
  /\ planning = "saved"
  /\ \E parts \in BuildAnswers :
       generated' = Collected \union {raw.file : raw \in {e \in Edits(parts) : Normalizable(e.form)}}
  /\ planning' = "built" /\ left' = {}
  /\ UNCHANGED <<nature, akin, implemented, files, placing, listed, plan, canonical>>

\* an ERROR event while it builds: with a structure on disk, be it from before,
\* the pipeline goes on to validate it; without one it goes back to the commit
BuildBreaks ==
  /\ planning = "saved"
  /\ IF WellStructured
     THEN planning' = "built" /\ generated' = Collected /\ UNCHANGED files
     ELSE planning' = "failed" /\ files' = listed /\ UNCHANGED generated
  /\ left' = {}
  /\ UNCHANGED <<nature, akin, implemented, placing, listed, plan, canonical>>

PlanNext ==
  \/ Analyze \/ AgentPlans \/ AgentGivesNothing \/ AgentFails \/ SavePlan
  \/ BuildEnds \/ BuildBreaks
  \/ \E i \in left : CarryOut(i)

PlanSpec == PlanInit /\ [][PlanNext]_planVars
-----------------------------------------------------------------------------
(***************************************************************************)
(* A plan without violations can be carried out in any order: no operation *)
(* takes from another what it needs, and what is protected stays.          *)
(***************************************************************************)
ValidPlanApplies ==
  planning = "saved" /\ Violations = {} =>
    /\ \A i \in left : Applicable(plan[i])
    /\ Protected \subseteq files

=============================================================================
