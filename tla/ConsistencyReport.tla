-------------------------- MODULE ConsistencyReport --------------------------
(***************************************************************************)
(* One analysis of the impact of some changes on the phases after theirs:  *)
(* evaluate_consistency for each target phase, enrich_impact for what it   *)
(* finds, and the three requests that put the results together:            *)
(*   "stream"  cascade_consistency, all targets at a time, as events;      *)
(*   "cascade" the same, as one answer;                                    *)
(*   "report"  evaluate_project_consistency, one target after the other.   *)
(* Features are deleted and requirements edited meanwhile: every read is a *)
(* step.  A text is the set of the requirements it holds.                  *)
(***************************************************************************)
EXTENDS Naturals, Sequences, FiniteSets

CONSTANTS ReportFeatures,  \* ids of features: also of their artifacts in each phase
          Stranger,        \* an id the model makes up
          Reqs,            \* display ids of requirements
          None,            \* no display id
          Order,           \* the target phases, in order
          MaxRaw,          \* bound: actions in one answer of the model
          MaxChanges       \* bound: deletions and edits meanwhile

ReportPhases == {Order[i] : i \in DOMAIN Order}

VARIABLES
  mode,    \* which request
  has,     \* has[p]: features with an artifact in phase p
  reqs,    \* reqs[f]: the requirements document of f
  task,    \* task[p]: the evaluation of phase p
  events,  \* what the stream has sent
  impacts, \* the impacts of the answer, or None
  changes

reportVars == <<mode, has, reqs, task, events, impacts, changes>>

Verbs == {"update", "delete"}
Unanalysed == [stage |-> "fetch", arts |-> {}, todo |-> {}, acts |-> {}, items |-> {}, result |-> "none"]

ReportInit ==
  /\ mode \in {"stream", "cascade", "report"}
  /\ has \in [ReportPhases -> SUBSET ReportFeatures]
  /\ reqs \in [ReportFeatures -> SUBSET Reqs]
  /\ task = [p \in ReportPhases |-> Unanalysed]
  /\ events = <<>> /\ impacts = {None} /\ changes = 0
-----------------------------------------------------------------------------
DeleteFeature(f) ==
  /\ changes < MaxChanges
  /\ has' = [p \in ReportPhases |-> has[p] \ {f}]
  /\ changes' = changes + 1
  /\ UNCHANGED <<mode, reqs, task, events, impacts>>

EditRequirements(f) ==
  /\ changes < MaxChanges
  /\ reqs' \in {[reqs EXCEPT ![f] = R] : R \in SUBSET Reqs} \ {reqs}
  /\ changes' = changes + 1
  /\ UNCHANGED <<mode, has, task, events, impacts>>
-----------------------------------------------------------------------------
\* the targets of a report are evaluated one after the other
Turn(p) == \A i, j \in DOMAIN Order :
             mode = "report" /\ Order[j] = p /\ i < j => task[Order[i]].stage = "done"
IsAt(p, s) == task[p].stage = s /\ Turn(p)
Set(p, t) == task' = [task EXCEPT ![p] = t]
Done(p, r, items) == Set(p, [Unanalysed EXCEPT !.stage = "done", !.result = r, !.items = items])
Quiet == UNCHANGED <<mode, has, reqs, events, impacts, changes>>

\* the artifacts whose text has a term of the changes, or all if none has
Prefiltered(arts, match) == IF arts \cap match = {} THEN arts ELSE arts \cap match

\* _fetch_downstream_artifacts; with nothing there, or only cosmetic changes,
\* the model is not asked
Fetch(p) ==
  /\ IsAt(p, "fetch") /\ (mode = "stream" => events # <<>>)
  /\ IF has[p] = {} THEN Done(p, "no_impact", {})
     ELSE \/ Done(p, "no_impact", {})
          \/ \E M \in SUBSET ReportFeatures :
               Set(p, [task[p] EXCEPT !.stage = "detect", !.arts = Prefiltered(has[p], M)])
  /\ Quiet

Valid(d, arts) == d.id \in arts /\ d.verb \in Verbs

Mutant_KeepsRepeats(raw, arts) == {raw[i] : i \in {j \in DOMAIN raw : Valid(raw[j], arts)}}
\* _parse_detection: one action of each artifact, the first that is valid
Detections(raw, arts) ==
  {raw[i] : i \in {j \in DOMAIN raw :
     Valid(raw[j], arts) /\ \A k \in 1 .. j - 1 : Valid(raw[k], arts) => raw[k].id # raw[j].id}}

Raw == UNION {[1 .. n -> [id : ReportFeatures \cup {Stranger}, verb : Verbs \cup {"other"}]] : n \in 0 .. MaxRaw}

Detect(p) ==
  /\ IsAt(p, "detect")
  /\ \/ Done(p, "failed", {})
     \/ \E raw \in Raw :
          Set(p, [task[p] EXCEPT !.stage = "correct", !.todo = Detections(raw, task[p].arts)])
  /\ Quiet

\* An action: the requirement it names and the requirements of its before and
\* after; full when neither text is blank.
Actions(d, field, full, before, after) ==
  [id : {d.id}, verb : {d.verb}, field : field, full : full, before : before, after : after]

\* What the model proposes for an artifact, checked against its text of now:
\* the before is in it, and the after is another text (_validate_action).
Corrections(p, d) ==
  IF d.verb = "delete" \/ p = "implementation" THEN Actions(d, {None}, {FALSE}, {{}}, {{}})
  ELSE IF d.id \notin has[p] THEN {}
  ELSE IF p # "requirements" THEN Actions(d, {None}, BOOLEAN, {{}}, {{}})
  ELSE Actions(d, Reqs \cup {None}, {FALSE}, {{}}, {{}}) \cup
       Actions(d, Reqs \cup {None}, {TRUE}, SUBSET reqs[d.id], SUBSET Reqs)

\* one detection: an action, or none when the text is gone, the model fails or
\* its answer is not valid
Correct(p) ==
  /\ IsAt(p, "correct")
  /\ \E d \in task[p].todo :
       \E A \in {{a} : a \in Corrections(p, d)} \cup
                (IF d.verb = "delete" \/ p = "implementation" THEN {} ELSE {{}}) :
         Set(p, [task[p] EXCEPT !.todo = @ \ {d}, !.acts = @ \cup A])
  /\ Quiet

Item(id, r, verb) == [id |-> id, display |-> r, verb |-> verb]
First(R) == IF R = {} THEN None ELSE CHOOSE r \in R : TRUE

\* enrich_impact_items: the items of one requirements document; like are the
\* requirements the text or the rationale of the action matches
ItemsOfRequirements(a, current, like) ==
  IF a.field \in current THEN {Item(a.id, a.field, a.verb)}
  ELSE IF a.full THEN
    IF a.before # {} /\ a.after # {}
    THEN {Item(a.id, r, IF r \notin a.after THEN "delete"
                        ELSE IF r \notin a.before THEN "create" ELSE "update") :
            r \in a.before \cup a.after}
    ELSE {Item(a.id, r, a.verb) : r \in IF like # {} THEN like ELSE {First(current)}}
  ELSE IF a.verb = "delete" /\ current # {} THEN {Item(a.id, r, "delete") : r \in current}
  ELSE {Item(a.id, First(current), a.verb)}

\* features, documents and diagrams are read again; what is gone has no item
ItemsOf(p, a, like) ==
  IF a.id \notin has[p] THEN {}
  ELSE IF p = "requirements" THEN ItemsOfRequirements(a, reqs[a.id], like[a.id] \cap reqs[a.id])
  ELSE {Item(a.id, None, a.verb)}

Enrich(p) ==
  /\ IsAt(p, "correct") /\ task[p].todo = {}
  /\ IF task[p].acts = {} THEN Done(p, "no_impact", {})
     ELSE \/ Done(p, "enrich_failed", {})
          \/ \E like \in [ReportFeatures -> SUBSET Reqs] :
               Done(p, "done", UNION {ItemsOf(p, a, like) : a \in task[p].acts})
  /\ Quiet
-----------------------------------------------------------------------------
AllDone == \A p \in ReportPhases : task[p].stage = "done"

\* the stream announces every target, and sends every result when all are there
Announce ==
  /\ mode = "stream" /\ events = <<>>
  /\ events' = [i \in DOMAIN Order |-> <<"evaluating", Order[i], {}>>]
  /\ UNCHANGED <<mode, has, reqs, task, impacts, changes>>

Results ==
  /\ mode = "stream" /\ AllDone /\ impacts = {None} /\ events # <<>>
  /\ events' = events \o [i \in DOMAIN Order |->
                  <<task[Order[i]].result, Order[i], task[Order[i]].items>>]
  /\ impacts' = UNION {task[p].items : p \in ReportPhases}
  /\ UNCHANGED <<mode, has, reqs, task, changes>>

GiveAnswer ==
  /\ mode # "stream" /\ AllDone /\ impacts = {None}
  /\ impacts' = UNION {task[p].items : p \in ReportPhases}
  /\ UNCHANGED <<mode, has, reqs, task, events, changes>>

ReportStep ==
  \/ Announce \/ Results \/ GiveAnswer
  \/ \E p \in ReportPhases : Fetch(p) \/ Detect(p) \/ Correct(p) \/ Enrich(p)
ReportNext ==
  \/ ReportStep
  \/ \E f \in ReportFeatures : DeleteFeature(f) \/ EditRequirements(f)

ReportSpec == ReportInit /\ [][ReportNext]_reportVars
-----------------------------------------------------------------------------
(***************************************************************************)
(* Two suggestions of an evaluation never share the key of their row, the  *)
(* artifact and its display id: run_consistency_evaluation would save one  *)
(* over the other.                                                         *)
(***************************************************************************)
OneItemPerKey ==
  \A p \in ReportPhases : \A a, b \in task[p].items :
    a.id = b.id /\ a.display = b.display => a = b

=============================================================================
