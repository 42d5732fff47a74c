----------------------------- MODULE BoundedRun -----------------------------
(***************************************************************************)
(* What a caller of QueryService.execute_query is promised, with no graph   *)
(* in sight: a run makes at most `limit' searches, all of them before its   *)
(* first draft, drafts at most MaxDrafts answers, and gives exactly one     *)
(* final response; only a run that drafted an answer can complete.          *)
(***************************************************************************)
EXTENDS Integers

CONSTANT MaxDrafts

VARIABLES limit, searches, drafts, response

vars == <<limit, searches, drafts, response>>

Init ==
  /\ limit \in 1..3
  /\ searches = 0
  /\ drafts = 0
  /\ response = "pending"

Search ==
  /\ response = "pending"
  /\ drafts = 0
  /\ searches < limit
  /\ searches' = searches + 1
  /\ UNCHANGED <<limit, drafts, response>>

Draft ==
  /\ response = "pending"
  /\ drafts < MaxDrafts
  /\ drafts' = drafts + 1
  /\ UNCHANGED <<limit, searches, response>>

Finish ==
  /\ response = "pending"
  /\ response' \in {"completed", "abstained", "failed"}
  /\ response' = "completed" => drafts > 0
  /\ UNCHANGED <<limit, searches, drafts>>

Next == Search \/ Draft \/ Finish

Spec == Init /\ [][Next]_vars
=============================================================================
