------------------------------ MODULE Documents ------------------------------
(***************************************************************************)
(* The documents of one project and the requests that write them: the use  *)
(* cases of application/discovery, features, requirements, modelo and      *)
(* projects on their repositories.  Nothing locks a document: a request    *)
(* reads, asks the LLM, and then commits one statement after the other,    *)
(* with any other request in between.  What is left of a request is the    *)
(* sequence of its steps (todo).  A text is only there or not; that        *)
(* references between rows hold is the database's doing (CASCADE).         *)
(***************************************************************************)
EXTENDS Naturals, Sequences, FiniteSets

CONSTANTS DocRequests,   \* requests; each makes one call
          DocFeatures,   \* ids of features
          NoFeature,     \* the request has none
          MaxNumber      \* bound: numbers of features

ASSUME DocumentAssumption == MaxNumber \in Nat \ {0}

VARIABLES
  project,     \* the row of the project is there
  discovery,   \* its discovery document is there
  number,      \* number[f]: column number; 0 when f has no row
  specified,   \* features with a requirements document
  diagrams,    \* features with an activity diagram
  traced,      \* features with edges in traceability_edges
  evaluations, \* requests whose consistency evaluation is in the outbox
  work,        \* work[r]: the call of request r
  lapsed       \* history: features whose edges a failure has left behind

documentVars == <<project, discovery, number, specified, diagrams, traced, evaluations, work, lapsed>>
rows == <<project, discovery, number, specified, diagrams, traced, evaluations>>

Living == {f \in DocFeatures : number[f] # 0}
Highest == CHOOSE n \in {number[f] : f \in DocFeatures} : \A f \in DocFeatures : number[f] <= n

Kinds == {"discover", "rediscover", "saveDiscovery", "revert", "generate", "select", "create",
          "edit", "ears", "rework", "saveRequirements", "modify", "diagram",
          "removeRequirements", "removeDiagram", "removeFeature", "removeProject"}
Steps == {"discovery", "number", "features", "feature", "ears", "requirements", "diagram",
          "enqueue", "readProject", "saveProject", "dropRequirements", "dropDiagram",
          "dropFeature", "dropTraces", "dropDiscovery", "dropProject", "each"}
Waiting == [kind |-> "none", f |-> NoFeature, n |-> 0, todo |-> <<"start">>, left |-> {}]

DocumentTypeOK ==
  /\ project \in BOOLEAN /\ discovery \in BOOLEAN
  /\ number \in [DocFeatures -> 0 .. MaxNumber]
  /\ specified \subseteq Living /\ diagrams \subseteq Living
  /\ traced \subseteq DocFeatures /\ lapsed \subseteq DocFeatures
  /\ evaluations \subseteq DocRequests
  /\ Living # {} \/ discovery => project
  /\ \A r \in DocRequests : \/ work[r] = Waiting
                            \/ /\ work[r].kind \in Kinds /\ work[r].todo \in Seq(Steps)
                               /\ work[r].f \in DocFeatures \cup {NoFeature}
                               /\ work[r].n \in 0 .. MaxNumber + 1 /\ work[r].left \subseteq DocFeatures

DocumentInit ==
  /\ project = TRUE /\ discovery = TRUE
  /\ \E f \in DocFeatures : number = [g \in DocFeatures |-> IF g = f THEN 1 ELSE 0]
  /\ specified \in {{}, Living} /\ diagrams \in {{}, specified}
  /\ traced = specified
  /\ evaluations = {} /\ lapsed = {}
  /\ work = [r \in DocRequests |-> Waiting]
-----------------------------------------------------------------------------
(***************************************************************************)
(* The calls: what each one needs to find, and its steps.                  *)
(***************************************************************************)
Begin(r, kind, f, n, steps) ==
  /\ work[r] = Waiting
  /\ work' = [work EXCEPT ![r] = [kind |-> kind, f |-> f, n |-> n, todo |-> steps, left |-> {}]]
  /\ UNCHANGED <<rows, lapsed>>

GenerateDiscovery(r) == project /\ Begin(r, "discover", NoFeature, 0, <<"discovery">>)
RefineDiscovery(r) == project /\ discovery /\ Begin(r, "rediscover", NoFeature, 0, <<"discovery", "enqueue">>)
RegenerateDiscovery(r) == project /\ discovery /\ Begin(r, "rediscover", NoFeature, 0, <<"discovery", "enqueue">>)
SaveDiscovery(r) == Begin(r, "saveDiscovery", NoFeature, 0, <<"discovery", "enqueue">>)
RevertToVersion(r) == Begin(r, "revert", NoFeature, 0, <<"discovery", "enqueue">>)

\* the numbers are taken before the LLM answers
GenerateFeatures(r) ==
  /\ project /\ discovery
  /\ Begin(r, "generate", NoFeature, Highest + 1, <<"features", "readProject", "saveProject">>)
SaveSelectedFeatures(r) == Begin(r, "select", NoFeature, Highest + 1, <<"features">>)
CreateCharacteristic(r) == Begin(r, "create", NoFeature, 0, <<"number", "features">>)
\* the row read here is saved after the evaluation against the discovery
EditFeature(r, f) == f \in Living /\ Begin(r, "edit", f, number[f], <<"feature", "enqueue">>)

GenerateEARS(r, f) == project /\ f \in Living /\ discovery /\ Begin(r, "ears", f, 0, <<"ears">>)
RefineRequirements(r, f) ==
  project /\ f \in specified /\ Begin(r, "rework", f, 0, <<"requirements", "enqueue">>)
RegenerateRequirements(r, f) ==
  project /\ f \in specified /\ Begin(r, "rework", f, 0, <<"requirements", "enqueue">>)
SaveRequirements(r, f) ==
  project /\ f \in Living /\ Begin(r, "saveRequirements", f, 0, <<"requirements", "enqueue">>)

\* modify-direct: of the discovery, a feature or its requirements; the job is
\* only enqueued when the project can still be told
ModifyDirect(r) ==
  \/ discovery /\ Begin(r, "modify", NoFeature, 0, <<"discovery", "enqueue">>)
  \/ \E f \in Living : Begin(r, "modify", f, number[f], <<"feature", "enqueue">>)
  \/ \E f \in specified : Begin(r, "modify", f, 0, <<"requirements", "enqueue">>)

GenerateDiagram(r, f) ==
  /\ f \in specified
  /\ Begin(r, "diagram", f, 0, <<"diagram", "readProject", "saveProject">>)

DeleteRequirements(r, f) ==
  project /\ f \in specified /\ Begin(r, "removeRequirements", f, 0, <<"dropRequirements", "dropDiagram">>)
DeleteDiagram(r, f) == f \in diagrams /\ Begin(r, "removeDiagram", f, 0, <<"dropDiagram">>)
Mutant_TracesFirst(r, f) ==
  /\ project /\ f \in Living
  /\ Begin(r, "removeFeature", f, 0, <<"dropRequirements", "dropDiagram", "dropTraces", "dropFeature">>)
DeleteFeatureRows(r, f) ==
  /\ project /\ f \in Living
  /\ Begin(r, "removeFeature", f, 0, <<"dropRequirements", "dropDiagram", "dropFeature", "dropTraces">>)
\* after the remote service, the repository and the workspace, which are not rows
DeleteProject(r) == project /\ Begin(r, "removeProject", NoFeature, 0, <<"each">>)
-----------------------------------------------------------------------------
(***************************************************************************)
(* The steps.  A statement the database refuses ends the request (Refused).*)
(***************************************************************************)
Doing(r, s) == work[r].todo # <<>> /\ Head(work[r].todo) = s
Go(r) == work' = [work EXCEPT ![r].todo = Tail(@)]
Stop(r) == work' = [work EXCEPT ![r].todo = <<>>]

WriteDiscovery(r) ==
  /\ Doing(r, "discovery") /\ project
  /\ discovery' = TRUE /\ Go(r)
  /\ UNCHANGED <<project, number, specified, diagrams, traced, evaluations, lapsed>>

NextNumber(r) ==
  /\ Doing(r, "number")
  /\ work' = [work EXCEPT ![r].n = Highest + 1, ![r].todo = Tail(@)]
  /\ UNCHANGED <<rows, lapsed>>

\* the project of a feature, and uq_features_project_number
Insertable(n) == project /\ n <= MaxNumber /\ \A g \in DocFeatures : number[g] # n

\* save_many: one new feature stands for all
InsertFeatures(r) ==
  /\ Doing(r, "features") /\ Insertable(work[r].n)
  /\ \E f \in DocFeatures :
       /\ f \notin Living \cup traced \cup lapsed /\ \A q \in DocRequests : f # work[q].f \* a new id
       /\ number' = [number EXCEPT ![f] = work[r].n]
  /\ Go(r)
  /\ UNCHANGED <<project, discovery, specified, diagrams, traced, evaluations, lapsed>>

\* save inserts what it does not find, a feature deleted meanwhile included;
\* of a modification, the row is read again
SaveFeature(r) ==
  /\ Doing(r, "feature")
  /\ LET f == work[r].f IN
     \/ f \in Living /\ UNCHANGED number
     \/ /\ f \notin Living /\ work[r].kind = "edit" /\ Insertable(work[r].n)
        /\ number' = [number EXCEPT ![f] = work[r].n]
  /\ Go(r)
  /\ UNCHANGED <<project, discovery, specified, diagrams, traced, evaluations, lapsed>>

\* one transaction: requirements, edges and phase
CommitEARS(r) ==
  /\ Doing(r, "ears") /\ work[r].f \in Living
  /\ specified' = specified \cup {work[r].f}
  /\ traced' = traced \cup {work[r].f}
  /\ Go(r)
  /\ UNCHANGED <<project, discovery, number, diagrams, evaluations, lapsed>>

WriteRequirements(r) ==
  /\ Doing(r, "requirements") /\ work[r].f \in Living
  /\ specified' = specified \cup {work[r].f} /\ Go(r)
  /\ UNCHANGED <<project, discovery, number, diagrams, traced, evaluations, lapsed>>

WriteDiagram(r) ==
  /\ Doing(r, "diagram") /\ work[r].f \in Living
  /\ diagrams' = diagrams \cup {work[r].f} /\ Go(r)
  /\ UNCHANGED <<project, discovery, number, specified, traced, evaluations, lapsed>>

\* a modification asks for the feature again to know the project
Enqueue(r) ==
  /\ Doing(r, "enqueue") /\ Go(r)
  /\ \/ evaluations' = evaluations \cup {r}
     \/ /\ work[r].kind = "modify" /\ work[r].f # NoFeature /\ work[r].f \notin Living
        /\ UNCHANGED evaluations
  /\ UNCHANGED <<project, discovery, number, specified, diagrams, traced, lapsed>>

\* _advance_phase: neither by_id nor save knows the column current_phase, so
\* the project always seems to be in the first phase and only its texts are
\* saved again - as a new row when it was deleted in between
ReadProject(r) ==
  /\ Doing(r, "readProject")
  /\ IF project THEN Go(r) ELSE Stop(r)
  /\ UNCHANGED <<rows, lapsed>>
SaveProject(r) ==
  /\ Doing(r, "saveProject") /\ Go(r)
  /\ project' = TRUE
  /\ UNCHANGED <<discovery, number, specified, diagrams, traced, evaluations, lapsed>>

DropRequirements(r) ==
  /\ Doing(r, "dropRequirements") /\ Go(r)
  /\ specified' = specified \ {work[r].f}
  /\ UNCHANGED <<project, discovery, number, diagrams, traced, evaluations, lapsed>>
DropDiagram(r) ==
  /\ Doing(r, "dropDiagram") /\ Go(r)
  /\ diagrams' = diagrams \ {work[r].f}
  /\ UNCHANGED <<project, discovery, number, specified, traced, evaluations, lapsed>>

\* ON DELETE CASCADE of requirements and diagrams
Cascade(F) ==
  /\ number' = [f \in DocFeatures |-> IF f \in F THEN 0 ELSE number[f]]
  /\ specified' = specified \ F
  /\ diagrams' = diagrams \ F
DropFeature(r) ==
  /\ Doing(r, "dropFeature") /\ Go(r)
  /\ Cascade({work[r].f})
  /\ UNCHANGED <<project, discovery, traced, evaluations, lapsed>>

\* an error of it is only logged
DropTraces(r) ==
  /\ Doing(r, "dropTraces") /\ Go(r)
  /\ \/ traced' = traced \ {work[r].f} /\ UNCHANGED lapsed
     \/ traced' = traced /\ lapsed' = lapsed \cup {work[r].f}
  /\ UNCHANGED <<project, discovery, number, specified, diagrams, evaluations>>

\* the features listed at first, one by one; then the rest of the project
ListFeatures(r) ==
  /\ Doing(r, "each") /\ work[r].f = NoFeature /\ work[r].left = {}
  /\ work' = [work EXCEPT ![r].left = Living,
                          ![r].todo = IF Living = {} THEN <<"dropDiscovery", "dropProject">> ELSE @]
  /\ UNCHANGED <<rows, lapsed>>
NextFeature(r) ==
  /\ Doing(r, "each")
  /\ \E f \in work[r].left :
       work' = [work EXCEPT ![r].f = f, ![r].left = @ \ {f},
                 ![r].todo = <<"dropRequirements", "dropDiagram", "dropTraces", "dropFeature">> \o
                             (IF work[r].left = {f} THEN <<"dropDiscovery", "dropProject">> ELSE @)]
  /\ UNCHANGED <<rows, lapsed>>
DropDiscovery(r) ==
  /\ Doing(r, "dropDiscovery") /\ Go(r)
  /\ discovery' = FALSE
  /\ UNCHANGED <<project, number, specified, diagrams, traced, evaluations, lapsed>>
DropProject(r) ==
  /\ Doing(r, "dropProject") /\ Go(r)
  /\ project' = FALSE /\ discovery' = FALSE
  /\ Cascade(DocFeatures)
  /\ UNCHANGED <<traced, evaluations, lapsed>>

\* the LLM or the database refuses, or the process dies
Refused(r) ==
  /\ work[r].todo \notin {<<>>, <<"start">>} /\ Stop(r)
  /\ lapsed' = IF \E i \in DOMAIN work[r].todo : work[r].todo[i] = "dropTraces"
               THEN lapsed \cup {work[r].f} ELSE lapsed
  /\ UNCHANGED rows

\* the endpoints of each router
DiscoveryCall(r) ==
  GenerateDiscovery(r) \/ RefineDiscovery(r) \/ RegenerateDiscovery(r) \/ SaveDiscovery(r)
DirectCall(r) == RevertToVersion(r) \/ ModifyDirect(r)
FeatureCall(r) ==
  \/ GenerateFeatures(r) \/ SaveSelectedFeatures(r) \/ CreateCharacteristic(r)
  \/ \E f \in DocFeatures : EditFeature(r, f) \/ DeleteFeatureRows(r, f)
RequirementCall(r) == \E f \in DocFeatures :
  \/ GenerateEARS(r, f) \/ RefineRequirements(r, f) \/ RegenerateRequirements(r, f)
  \/ SaveRequirements(r, f) \/ DeleteRequirements(r, f)
DiagramCall(r) == \E f \in DocFeatures : GenerateDiagram(r, f) \/ DeleteDiagram(r, f)
DocumentCall(r) ==
  \/ DiscoveryCall(r) \/ DirectCall(r) \/ FeatureCall(r)
  \/ RequirementCall(r) \/ DiagramCall(r) \/ DeleteProject(r)
DocumentStep(r) ==
  \/ WriteDiscovery(r) \/ NextNumber(r) \/ InsertFeatures(r) \/ SaveFeature(r)
  \/ CommitEARS(r) \/ WriteRequirements(r) \/ WriteDiagram(r) \/ Enqueue(r)
  \/ ReadProject(r) \/ SaveProject(r)
  \/ DropRequirements(r) \/ DropDiagram(r) \/ DropFeature(r) \/ DropTraces(r)
  \/ ListFeatures(r) \/ NextFeature(r) \/ DropDiscovery(r) \/ DropProject(r) \/ Refused(r)
DocumentNext == \E r \in DocRequests : DocumentCall(r) \/ DocumentStep(r)
DocumentSpec == DocumentInit /\ [][DocumentNext]_documentVars
-----------------------------------------------------------------------------
(***************************************************************************)
(* The edges of a feature do not outlive it: whoever generates its         *)
(* requirements while it is deleted either fails or has the edges removed  *)
(* after it.  The deletion of a feature whose last step failed may leave   *)
(* some, and so may the deletion of the project, which removes the edges   *)
(* of a feature before its row.                                            *)
(***************************************************************************)
Removing(f) == \E r \in DocRequests :
  work[r].kind = "removeFeature" /\ work[r].f = f /\ \E i \in DOMAIN work[r].todo : work[r].todo[i] = "dropTraces"
EdgesHaveFeatures ==
  \/ \E r \in DocRequests : work[r].kind = "removeProject"
  \/ \A f \in traced : f \in Living \/ f \in lapsed \/ Removing(f)
=============================================================================
