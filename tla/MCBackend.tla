------------------------------- MODULE MCBackend -------------------------------
(***************************************************************************)
(* TLC instance of the parts of the backend that only have safety          *)
(* properties and share no state: a behaviour is one of one part, and the  *)
(* variables of the others stay at rest.                                   *)
(***************************************************************************)
EXTENDS ConsistencyReview, ConsistencyReport, Documents, FeatureRemoval, Generation, Chat, Login,
        Validation, FeaturePlan, ValidationOutput, PhaseOutput, ModelClient, AccountLink

CONSTANTS features, a, s1, f1, f2, m1,
          Parts    \* the parts a run takes

MCPhases == <<features>>
MCOrder == <<"requirements", "implementation">>
MCOthers == <<f1, f2>>
MCRawPaths == {[form |-> "relative", file |-> "logic"], [form |-> "dotted", file |-> "logic"],
               [form |-> "inside", file |-> "page"], [form |-> "drive", file |-> "page"],
               [form |-> "outside", file |-> "logic"], [form |-> "relative", file |-> "package"]}
MCBuildAnswers == {<<>>,
  <<[kind |-> "text", raw |-> [form |-> "relative", file |-> "page"]],
    [kind |-> "file", raw |-> [form |-> "dotted", file |-> "logic"]]>>,
  <<[kind |-> "writer", raw |-> [form |-> "outside", file |-> "logic"]],
    [kind |-> "writer", raw |-> [form |-> "inside", file |-> "page"]]>>}

VARIABLE part

\* where a part has many initial states, the others see one of them
AtRest ==
  /\ source = s1 /\ text \in [Targets -> {<<a>>, Gone}]   \* all that a renaming tells apart
  /\ part # "review" => text = [t \in Targets |-> Gone]
  /\ part # "report" => mode = "report" /\ has = [p \in ReportPhases |-> {}] /\ reqs = [f \in ReportFeatures |-> {}]
  /\ part # "documents" => number = [f \in DocFeatures |-> IF f = f1 THEN 1 ELSE 0] /\ specified = {} /\ diagrams = {}
  /\ part # "generation" => body = "none"
  /\ part # "login" => account = TRUE
  /\ part # "validation" => isolated = FALSE /\ modules = {} /\ manifest = [k \in Checks |-> m1] /\ lockfile = manifest
  /\ part # "plan" => nature = "plain" /\ akin = {} /\ implemented = {} /\ files = Protected
  /\ part # "output" => step = "lint" /\ output = <<>> /\ exitCode = 0
  /\ part # "link" => provider = "github" /\ rotates = FALSE
  /\ part # "phase" => phase = "diagram" /\ answer = [tags |-> FALSE, lines |-> <<>>] /\ known = {}

Init ==
  /\ part \in Parts /\ AtRest
  /\ ReviewInit /\ ReportInit /\ DocumentInit /\ RemovalInit
  /\ GenerationInit /\ ChatInit /\ LoginInit /\ ValidationInit
  /\ PlanInit /\ OutputInit /\ PhaseInit /\ ModelInit /\ LinkInit

Elsewhere(p) ==
  /\ p # "review" => UNCHANGED reviewVars
  /\ p # "report" => UNCHANGED reportVars
  /\ p # "documents" => UNCHANGED documentVars
  /\ p # "removal" => UNCHANGED removalVars
  /\ p # "generation" => UNCHANGED generationVars
  /\ p # "chat" => UNCHANGED chatVars
  /\ p # "login" => UNCHANGED loginVars
  /\ p # "validation" => UNCHANGED validationVars
  /\ p # "plan" => UNCHANGED planVars
  /\ p # "output" => UNCHANGED outputVars
  /\ p # "phase" => UNCHANGED phaseVars
  /\ p # "model" => UNCHANGED modelVars
  /\ p # "link" => UNCHANGED linkVars

Next ==
  \/ part = "review" /\ ReviewNext /\ UNCHANGED part /\ Elsewhere("review")
  \/ part = "report" /\ ReportNext /\ UNCHANGED part /\ Elsewhere("report")
  \/ part = "documents" /\ DocumentNext /\ UNCHANGED part /\ Elsewhere("documents")
  \/ part = "removal" /\ RemovalNext /\ UNCHANGED part /\ Elsewhere("removal")
  \/ part = "generation" /\ GenerationNext /\ UNCHANGED part /\ Elsewhere("generation")
  \/ part = "chat" /\ ChatNext /\ UNCHANGED part /\ Elsewhere("chat")
  \/ part = "login" /\ LoginNext /\ UNCHANGED part /\ Elsewhere("login")
  \/ part = "validation" /\ ValidationNext /\ UNCHANGED part /\ Elsewhere("validation")
  \/ part = "plan" /\ PlanNext /\ UNCHANGED part /\ Elsewhere("plan")
  \/ part = "output" /\ OutputNext /\ UNCHANGED part /\ Elsewhere("output")
  \/ part = "phase" /\ PhaseNext /\ UNCHANGED part /\ Elsewhere("phase")
  \/ part = "model" /\ ModelNext /\ UNCHANGED part /\ Elsewhere("model")
  \/ part = "link" /\ LinkNext /\ UNCHANGED part /\ Elsewhere("link")

backendVars == <<part, reviewVars, reportVars, documentVars, removalVars, generationVars, chatVars,
                 loginVars, validationVars, planVars, outputVars, phaseVars, modelVars, linkVars>>
Spec == Init /\ [][Next]_backendVars

\* bound: a second request or a second attempt of a job, not both
OneExtra == requests > 1 => \A j \in Jobs : job[j].tries <= 1

(***************************************************************************)
(* The types of the parts whose rows and requests have one.                *)
(***************************************************************************)
BackendTypes ==
  CASE part = "review" -> ReviewTypeOK
    [] part = "documents" -> DocumentTypeOK
    [] part = "removal" -> RemovalTypeOK
    [] part = "login" -> LoginTypeOK
    [] part = "link" -> LinkTypeOK
    [] OTHER -> TRUE
=============================================================================
