----------------------------- MODULE ChangeDiff -----------------------------
(***************************************************************************)
(* How a suggested change is put into a document: apply_change_diff of     *)
(* domain/sdd/plan_diffs.py.  A document is a sequence of statements, a    *)
(* change is a pair of a statement to find (before) and one to put in its  *)
(* place (after); either may be blank.  The four ways the code compares    *)
(* text (exact, stripped, with collapsed spaces, already applied) differ   *)
(* in white space only, which is left out: a statement either is in the    *)
(* document or is not.                                                     *)
(***************************************************************************)
EXTENDS Naturals, Sequences

CONSTANTS Statements,   \* statements a document may have
          Blank,        \* an empty before or after
          NoMatch,      \* apply_change_diff returned None
          Gone          \* there is no such document

ASSUME ChangeDiffAssumption == Blank \notin Statements

HasStatement(text, s) == \E i \in DOMAIN text : text[i] = s
FirstAt(text, s) == CHOOSE i \in DOMAIN text :
                      text[i] = s /\ \A j \in DOMAIN text : text[j] = s => i <= j
Without(text, i) == SubSeq(text, 1, i - 1) \o SubSeq(text, i + 1, Len(text))

\* the first match is replaced, or removed when nothing takes its place
ReplaceFirst(text, before, after) ==
  LET i == FirstAt(text, before)
  IN IF after = Blank THEN Without(text, i) ELSE [text EXCEPT ![i] = after]

\* _try_replace; its last rule accepts a change that is in the text already
TryReplace(text, before, after) ==
  IF HasStatement(text, before) THEN ReplaceFirst(text, before, after)
  ELSE IF after # Blank /\ HasStatement(text, after) THEN text
  ELSE NoMatch

\* with nothing to find, after goes to the end of the document
ApplyDiff(text, before, after) ==
  IF before # Blank THEN TryReplace(text, before, after)
  ELSE IF after # Blank THEN Append(text, after)
  ELSE text
=============================================================================
