------------------------------ MODULE PhaseOutput ------------------------------
(***************************************************************************)
(* What happens to one answer of the model in each phase: validate_output  *)
(* and build_output of the phase modes (domain/pipeline/phase_modes), the  *)
(* validators, and for requirements the markdown that is saved and the     *)
(* parser that reads it back (domain/sdd/requirements_markdown.py).  The   *)
(* loop that asks again after an invalid answer is module Generation; only *)
(* typed answers (complete_typed) reach these modes.                       *)
(***************************************************************************)
EXTENDS Naturals, Sequences, FiniteSets, SequencesExt

CONSTANTS MinRequirements,   \* validate_ears_quality (3)
          MinCriteria,       \* criteria of a requirement (2)
          FirstFeatures,     \* FIRST_GENERATION_COUNT
          TitleWords,        \* what titles and descriptions are about
          MaxItems           \* bound: items of an answer

ASSUME PhaseAssumption == MaxItems \in Nat

VARIABLES
  phase,     \* the mode
  answer,    \* the model's answer
  known,     \* titles of the project's features
  verdict,   \* validate_output: "none", "valid", "invalid"
  saved,     \* what build_output returns
  readBack   \* the requirements the saved markdown is parsed into

phaseVars == <<phase, answer, known, verdict, saved, readBack>>

NoOutput == <<>>
\* A discovery: its sections are long enough, with their goals, rules and
\* exclusions; its terms; and a user story in it.  A term that is to be
\* repaired is prohibited too.
Discoveries == [whole : BOOLEAN, terms : {"clean", "repairable", "technical"}, story : BOOLEAN]
\* A feature: number, words of title and description, trace to a section, and
\* the lengths and terms its fields must have.
FeatureItems == [number : 1..2, title : TitleWords, about : TitleWords, fields : BOOLEAN]
\* A requirement: the code the model writes, of this feature or of another, a
\* statement, and criteria with or without the name of their scenario.
CriteriaLists == BoundedSeq({"named", "nameless"}, MinCriteria)
RequirementItems == [code : {"own", "other"}, said : BOOLEAN, criteria : CriteriaLists]
DiagramLines == {"if", "endif", "fork", "endmerge", "action"}
Diagrams == [tags : BOOLEAN, lines : BoundedSeq(DiagramLines, MaxItems)]

Answers(p) ==
  CASE p \in {"discovery", "discovery_refine"} -> Discoveries
    [] p = "features" -> BoundedSeq(FeatureItems, MaxItems - 1)
    [] p \in {"requirements", "requirements_refine"} -> BoundedSeq(RequirementItems, MaxItems)
    [] p = "diagram" -> Diagrams

PhaseInit ==
  /\ phase \in {"discovery", "discovery_refine", "features", "requirements", "requirements_refine", "diagram"}
  /\ answer \in Answers(phase)
  /\ known \in IF phase = "features" THEN SUBSET TitleWords ELSE {{}}
  /\ verdict = "none" /\ saved = NoOutput /\ readBack = NoOutput
-----------------------------------------------------------------------------
(***************************************************************************)
(* The validators.                                                         *)
(***************************************************************************)
\* auto_repair_technical_terms
Repaired(doc) == [doc EXCEPT !.terms = IF doc.terms = "repairable" THEN "clean" ELSE doc.terms]

\* validate_discovery_structure and _quality; a refinement is only asked to
\* stay at the level of the business
BusinessLevel(doc) == doc.terms = "clean"
DiscoveryValid(doc) == doc.whole /\ BusinessLevel(doc) /\ ~doc.story

\* validate_feature_structure and _uniqueness: similar titles or descriptions
\* among the new ones, similar titles among the project's, and the number of a
\* first generation; numbers may repeat
FeaturesValid(items, titles) ==
  /\ items # <<>>
  /\ \A i \in DOMAIN items : items[i].fields /\ items[i].title \notin titles
  /\ \A i, j \in DOMAIN items :
       i # j => items[i].title # items[j].title /\ items[i].about # items[j].about
  /\ titles = {} => Len(items) = FirstFeatures

\* validate_ears_syntax only warns; of the criteria only the number counts: a
\* typed criterion is not a dict, and its fields are not looked at
RequirementsValid(items) ==
  /\ Len(items) >= MinRequirements
  /\ \A i \in DOMAIN items : items[i].said /\ Len(items[i].criteria) >= MinCriteria

\* a refined document is markdown with some "### REQ-" in it
RefinementValid(items) == items # <<>>

\* validate_activity_diagram_syntax: as many of one as of the other, in any order
LinesThat(diagram, kind) == Cardinality({i \in DOMAIN diagram.lines : diagram.lines[i] = kind})
DiagramValid(diagram) ==
  /\ diagram.tags
  /\ LinesThat(diagram, "if") = LinesThat(diagram, "endif")
  /\ LinesThat(diagram, "fork") = LinesThat(diagram, "endmerge")

\* validate_output of each mode; only a copy of a discovery is repaired
DiscoveryModeValid(doc) == DiscoveryValid(Repaired(doc))
RefineModeValid(doc) == BusinessLevel(Repaired(doc))
PassesPhase ==
  CASE phase = "discovery" -> DiscoveryModeValid(answer)
    [] phase = "discovery_refine" -> RefineModeValid(answer)
    [] phase = "features" -> FeaturesValid(answer, known)
    [] phase = "requirements" -> RequirementsValid(answer)
    [] phase = "requirements_refine" -> RefinementValid(answer)
    [] phase = "diagram" -> DiagramValid(answer)

ValidateOutput ==
  /\ verdict = "none"
  /\ verdict' = IF PassesPhase THEN "valid" ELSE "invalid"
  /\ UNCHANGED <<phase, answer, known, saved, readBack>>
-----------------------------------------------------------------------------
(***************************************************************************)
(* build_output, and the markdown of the requirements.                     *)
(***************************************************************************)
Mutant_KeepsCodes(items) ==
  [i \in DOMAIN items |-> [number |-> i, code |-> items[i].code, criteria |-> items[i].criteria]]
\* generated requirements are numbered from one under the feature's number
Numbered(items) ==
  [i \in DOMAIN items |-> [number |-> i, code |-> "own", criteria |-> items[i].criteria]]

\* a refined document is kept as it came
AsWritten(items) ==
  [i \in DOMAIN items |-> [number |-> i, code |-> items[i].code, criteria |-> items[i].criteria]]

Build(modes, output) ==
  /\ verdict # "none" /\ saved = NoOutput /\ phase \in modes
  /\ saved' = <<output>>
  /\ UNCHANGED <<phase, answer, known, verdict, readBack>>

\* build_output of each mode: the text of a discovery, the items of a list of
\* features and the source of a diagram are kept as they came
BuildDiscovery == Build({"discovery", "discovery_refine"}, answer)
BuildFeatures == Build({"features"}, answer)
BuildDiagram == Build({"diagram"}, answer)
BuildRequirements == Build({"requirements"}, Numbered(answer))
BuildRefined == Build({"requirements_refine"}, AsWritten(answer))

\* the members of s at the positions S, in their order
AtPositions(s, S) == [k \in 1 .. Cardinality(S) |-> s[CHOOSE i \in S : Cardinality(S \cap 1 .. i) = k]]

\* parse_requirements_markdown, of the feature's own headings; the expression
\* of a scenario needs a name
ReadCriteria(criteria) == AtPositions(criteria, {c \in DOMAIN criteria : criteria[c] = "named"})
OwnHeadings(items) == AtPositions(items, {i \in DOMAIN items : items[i].code = "own"})
ParseRequirements ==
  /\ phase \in {"requirements", "requirements_refine"}
  /\ saved # NoOutput /\ readBack = NoOutput
  /\ LET own == OwnHeadings(saved[1])
     IN  readBack' = <<[i \in DOMAIN own |-> [own[i] EXCEPT !.criteria = ReadCriteria(own[i].criteria)]]>>
  /\ UNCHANGED <<phase, answer, known, verdict, saved>>

PhaseNext ==
  \/ ValidateOutput
  \/ BuildDiscovery \/ BuildFeatures \/ BuildDiagram
  \/ BuildRequirements \/ BuildRefined
  \/ ParseRequirements

PhaseSpec == PhaseInit /\ [][PhaseNext]_phaseVars
-----------------------------------------------------------------------------
(***************************************************************************)
(* Requirements that are generated are read back from their markdown, by   *)
(* whoever applies a suggestion to them: each has its number, 1 to n, and  *)
(* the criteria of its named scenarios, as many as were asked for if all   *)
(* of them are named.                                                      *)
(***************************************************************************)
RequirementsReadBack ==
  phase = "requirements" /\ verdict = "valid" /\ readBack # NoOutput =>
    /\ Len(readBack[1]) = Len(answer)
    /\ \A i \in DOMAIN answer :
         /\ readBack[1][i].number = i
         /\ Len(readBack[1][i].criteria) =
              Cardinality({c \in DOMAIN answer[i].criteria : answer[i].criteria[c] = "named"})
=============================================================================
