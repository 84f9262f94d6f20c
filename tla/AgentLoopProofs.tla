-------------------------- MODULE AgentLoopProofs ---------------------------
(***************************************************************************)
(* Proofs about the agent loop, for every set of tools, every budget and   *)
(* every turn limit: it is type correct, and LoopInvariant, which contains *)
(* each safety invariant that TLC checks on small instances, holds in      *)
(* every reachable state.  A task's steps are steps of the loop or leave   *)
(* it alone, so all of this holds in the middle of a task too, and the     *)
(* full reward is the loop's gate and the verifier's verdict together.     *)
(***************************************************************************)
EXTENDS CodingTask, TLAPS

-----------------------------------------------------------------------------
(* The recovery state: each operator maps a recovery state to a recovery   *)
(* state and keeps its records coherent.                                   *)

(* The empty recovery state of a new session is well formed.               *)
LEMMA InitialRecoveryType ==
  ASSUME NEW requires \in BOOLEAN
  PROVE  InitialRecoveryState(requires) \in RuntimeRecoveryState
BY DEF InitialRecoveryState, RuntimeRecoveryState, NoIssue, ValidationIssueRecord,
       PendingIssueKind, ValidationIssueKind, None, NoTurn

(* note_active_failure maps a recovery state to a recovery state.          *)
LEMMA NoteActiveFailureType ==
  ASSUME NEW r \in RuntimeRecoveryState, NEW kind \in PendingIssueKind, NEW t \in Nat
  PROVE  note_active_failure(r, kind, t) \in RuntimeRecoveryState
BY DEF note_active_failure, RuntimeRecoveryState

(* note_corrective_progress maps a recovery state to a recovery state.     *)
LEMMA NoteCorrectiveProgressType ==
  ASSUME NEW r \in RuntimeRecoveryState, NEW t \in Nat
  PROVE  note_corrective_progress(r, t) \in RuntimeRecoveryState
BY DEF note_corrective_progress, RuntimeRecoveryState

(* clear_active_failure maps a recovery state to a recovery state.         *)
LEMMA ClearActiveFailureType ==
  ASSUME NEW r \in RuntimeRecoveryState
  PROVE  clear_active_failure(r) \in RuntimeRecoveryState
BY DEF clear_active_failure, RuntimeRecoveryState, NoTurn

(* The absent validation issue is a validation issue record.               *)
LEMMA NoIssueType == NoIssue \in ValidationIssueRecord
BY DEF NoIssue, ValidationIssueRecord, NoTurn

(* Resolving the active validation issue keeps the state well formed.      *)
LEMMA ResolveType ==
  ASSUME NEW r \in RuntimeRecoveryState
  PROVE  resolve_active_validation_issue(r) \in RuntimeRecoveryState
BY NoIssueType DEF resolve_active_validation_issue, RuntimeRecoveryState

(* Opening a validation issue, or counting an attempt on it, keeps the     *)
(* state well formed.                                                      *)
LEMMA OpenOrUpdateType ==
  ASSUME NEW r \in RuntimeRecoveryState, NEW kind \in ValidationIssueKind,
         NEW t \in Nat, NEW attempts \in Nat
  PROVE  open_or_update_validation_issue(r, kind, t, attempts) \in RuntimeRecoveryState
<1> DEFINE active == r.active_validation_issue
           fresh == [NoIssue EXCEPT !.kind = kind, !.opened_at_turn = t,
                                    !.validation_attempt_count = attempts]
           again == [active EXCEPT !.validation_attempt_count = @ + attempts]
<1>1. fresh \in ValidationIssueRecord
  BY DEF NoIssue, ValidationIssueRecord
<1>2. again \in ValidationIssueRecord
  BY DEF RuntimeRecoveryState, ValidationIssueRecord
<1> HIDE DEF fresh, again
<1>3. /\ [r EXCEPT !.active_validation_issue = fresh] \in RuntimeRecoveryState
      /\ [r EXCEPT !.active_validation_issue = again] \in RuntimeRecoveryState
  BY <1>1, <1>2 DEF RuntimeRecoveryState
<1> QED BY <1>3 DEF open_or_update_validation_issue, fresh, again

(* Counting a revision attempt keeps the state well formed.                *)
LEMMA NoteRevisionAttemptType ==
  ASSUME NEW r \in RuntimeRecoveryState, NEW t \in Nat
  PROVE  note_revision_attempt(r, t) \in RuntimeRecoveryState
<1> DEFINE counted == [r.active_validation_issue EXCEPT !.revision_attempt_count = @ + 1]
<1>1. counted \in ValidationIssueRecord
  BY DEF RuntimeRecoveryState, ValidationIssueRecord
<1>2. [r EXCEPT !.active_validation_issue = counted,
                !.last_revision_attempt_turn = t] \in RuntimeRecoveryState
  BY <1>1 DEF RuntimeRecoveryState
<1> QED BY <1>2 DEF note_revision_attempt

(* Counting a finish deferral keeps the state well formed.                 *)
LEMMA NoteFinishDeferralType ==
  ASSUME NEW r \in RuntimeRecoveryState, NEW t \in Nat
  PROVE  note_finish_deferral(r, t) \in RuntimeRecoveryState
<1> DEFINE counted == [r.active_validation_issue EXCEPT !.finish_deferral_count = @ + 1]
<1>1. counted \in ValidationIssueRecord
  BY DEF RuntimeRecoveryState, ValidationIssueRecord
<1>2. [r EXCEPT !.active_validation_issue = counted,
                !.last_finish_deferral_turn = t] \in RuntimeRecoveryState
  BY <1>1 DEF RuntimeRecoveryState
<1> QED BY <1>2 DEF note_finish_deferral

(* Opening the issue a blocked completion needs keeps the state well       *)
(* formed.                                                                 *)
LEMMA EnsureIssueType ==
  ASSUME NEW r \in RuntimeRecoveryState, NEW t \in Nat
  PROVE  ensure_validation_issue_for_completion_block(r, t) \in RuntimeRecoveryState
<1>1. /\ "stale_validation_evidence" \in ValidationIssueKind
      /\ "finish_without_required_validation" \in ValidationIssueKind
  BY DEF ValidationIssueKind
<1> QED BY <1>1, OpenOrUpdateType, 0 \in Nat DEF ensure_validation_issue_for_completion_block

(* One parsed response keeps the state well formed.                        *)
LEMMA ParseResultType ==
  ASSUME NEW r \in RuntimeRecoveryState, NEW parse_error \in BOOLEAN, NEW t \in Nat
  PROVE  record_parse_result(r, parse_error, t) \in RuntimeRecoveryState
<1>1. CASE parse_error
  <2>1. "parse_error" \in PendingIssueKind
    BY DEF PendingIssueKind
  <2>2. PICK noted \in RuntimeRecoveryState : noted = note_active_failure(r, "parse_error", t)
    BY <2>1, NoteActiveFailureType
  <2>3. noted.consecutive_parse_error_turns + 1 \in Nat
    BY DEF RuntimeRecoveryState
  <2>4. [noted EXCEPT !.consecutive_parse_error_turns = @ + 1,
                      !.pending_issue_kind = "parse_error"] \in RuntimeRecoveryState
    BY <2>1, <2>3 DEF RuntimeRecoveryState
  <2> QED BY <1>1, <2>2, <2>4 DEF record_parse_result
<1>2. CASE ~parse_error
  BY <1>2 DEF record_parse_result, RuntimeRecoveryState
<1> QED BY <1>1, <1>2

(* Noting a call of a mutation tool keeps the state well formed.           *)
LEMMA NoteMutationCallType ==
  ASSUME NEW r \in RuntimeRecoveryState, NEW t \in Nat
  PROVE  NoteMutationCall(r, t) \in RuntimeRecoveryState
<1>1. PICK revised \in RuntimeRecoveryState : revised = note_revision_attempt(r, t)
  BY NoteRevisionAttemptType
<1>2. [revised EXCEPT !.last_mutation_turn = t] \in RuntimeRecoveryState
  BY DEF RuntimeRecoveryState
<1> QED BY <1>1, <1>2, NoteCorrectiveProgressType DEF NoteMutationCall

(* One tool result keeps the state well formed, whatever the tool and the  *)
(* result are.                                                             *)
LEMMA ToolResultType ==
  ASSUME NEW r \in RuntimeRecoveryState, NEW tool, NEW result, NEW t \in Nat
  PROVE  record_tool_result(r, tool, result, t) \in RuntimeRecoveryState
<1>1. /\ "tool_failure" \in PendingIssueKind
      /\ "validation_failure" \in PendingIssueKind
      /\ _classify_validation_issue(result) \in ValidationIssueKind
  BY DEF PendingIssueKind, ValidationIssueKind, _classify_validation_issue
<1>2. ASSUME NEW q \in RuntimeRecoveryState
      PROVE  NoteMutationCall(q, t) \in RuntimeRecoveryState
  BY NoteMutationCallType
<1>3. ASSUME NEW q \in RuntimeRecoveryState
      PROVE  ValidationPassed(q, t) \in RuntimeRecoveryState
  <2>1. PICK cleared \in RuntimeRecoveryState :
          cleared = clear_active_failure(resolve_active_validation_issue(q))
    BY ResolveType, ClearActiveFailureType
  <2>2. [cleared EXCEPT !.last_successful_validation_turn = t,
                        !.pending_issue_kind = None] \in RuntimeRecoveryState
    BY DEF RuntimeRecoveryState
  <2> QED BY <2>1, <2>2 DEF ValidationPassed
<1>4. ASSUME NEW q \in RuntimeRecoveryState
      PROVE  OtherToolPassed(q, t) \in RuntimeRecoveryState
  <2>1. PICK cleared \in RuntimeRecoveryState : cleared = clear_active_failure(q)
    BY ClearActiveFailureType
  <2>2. [cleared EXCEPT !.pending_issue_kind = None] \in RuntimeRecoveryState
    BY DEF RuntimeRecoveryState
  <2> QED BY <2>1, <2>2, NoteCorrectiveProgressType DEF OtherToolPassed
<1>5. ASSUME NEW q \in RuntimeRecoveryState
      PROVE  ValidationFailed(q, result, t) \in RuntimeRecoveryState
  <2>1. PICK noted \in RuntimeRecoveryState :
          noted = note_active_failure(q, "validation_failure", t)
    BY <1>1, NoteActiveFailureType
  <2>2. [noted EXCEPT !.last_validation_failure_turn = t,
                      !.pending_issue_kind = "validation_failure"] \in RuntimeRecoveryState
    BY <1>1 DEF RuntimeRecoveryState
  <2> QED BY <1>1, <2>1, <2>2, OpenOrUpdateType, 1 \in Nat DEF ValidationFailed
<1>6. ASSUME NEW q \in RuntimeRecoveryState
      PROVE  OtherToolFailed(q, t) \in RuntimeRecoveryState
  <2>1. PICK noted \in RuntimeRecoveryState :
          noted = note_active_failure(q, "tool_failure", t)
    BY <1>1, NoteActiveFailureType
  <2>2. [noted EXCEPT !.pending_issue_kind = "tool_failure"] \in RuntimeRecoveryState
    BY <1>1 DEF RuntimeRecoveryState
  <2> QED BY <2>1, <2>2 DEF OtherToolFailed
<1> QED BY <1>2, <1>3, <1>4, <1>5, <1>6 DEF record_tool_result

-----------------------------------------------------------------------------
(* What the operators do to the records that the loop's invariant relates. *)

(* The part of the state that a note about a failure or a revision leaves  *)
(* alone.                                                                  *)
SameEvidence(q, r) ==
  /\ q.requires_validation_evidence = r.requires_validation_evidence
  /\ q.consecutive_parse_error_turns = r.consecutive_parse_error_turns
  /\ q.last_successful_validation_turn = r.last_successful_validation_turn

(* A validation issue stays open and a pending validation failure pending  *)
(* (or is replaced by a newer failure).                                    *)
KeepsIssue(q, r) ==
  /\ HasIssue(r) => HasIssue(q)
  /\ r.pending_issue_kind = "validation_failure" => q.pending_issue_kind # None

(* A call of a mutation tool dates the mutation at this turn and leaves    *)
(* the failure records, the evidence and the issue as they were.           *)
LEMMA NoteMutationCallEffect ==
  ASSUME NEW r \in RuntimeRecoveryState, NEW t \in Nat, RecoveryCoherent(r, t)
  PROVE  LET q == NoteMutationCall(r, t) IN
         /\ RecoveryCoherent(q, t)
         /\ SameEvidence(q, r)
         /\ KeepsIssue(q, r)
         /\ q.last_mutation_turn = t
         /\ q.pending_issue_kind = r.pending_issue_kind
<1> DEFINE counted == [r.active_validation_issue EXCEPT !.revision_attempt_count = @ + 1]
           revised == note_revision_attempt(r, t)
           mutated == [revised EXCEPT !.last_mutation_turn = t]
           q == NoteMutationCall(r, t)
<1>1. /\ counted.kind = r.active_validation_issue.kind
      /\ counted.opened_at_turn = r.active_validation_issue.opened_at_turn
  BY DEF RuntimeRecoveryState, ValidationIssueRecord
<1>2. /\ revised \in RuntimeRecoveryState
      /\ SameEvidence(revised, r)
      /\ KeepsIssue(revised, r)
      /\ revised.pending_issue_kind = r.pending_issue_kind
      /\ RecoveryCoherent(revised, t)
  <2>1. revised \in RuntimeRecoveryState
    BY NoteRevisionAttemptType
  <2>2. CASE revised = r
    BY <2>1, <2>2 DEF SameEvidence, KeepsIssue, None
  <2>3. CASE /\ HasIssue(r)
             /\ revised = [r EXCEPT !.active_validation_issue = counted,
                                    !.last_revision_attempt_turn = t]
    BY <2>1, <2>3, <1>1 DEF SameEvidence, KeepsIssue, None, RecoveryCoherent, HasIssue, RuntimeRecoveryState
  <2> QED BY <2>2, <2>3 DEF note_revision_attempt
<1> HIDE DEF revised
<1>3. /\ mutated \in RuntimeRecoveryState
      /\ SameEvidence(mutated, r)
      /\ KeepsIssue(mutated, r)
      /\ mutated.pending_issue_kind = r.pending_issue_kind
      /\ RecoveryCoherent(mutated, t)
      /\ mutated.last_mutation_turn = t
  BY <1>2 DEF SameEvidence, KeepsIssue, None, RecoveryCoherent, HasIssue, RuntimeRecoveryState
<1> HIDE DEF mutated
<1>4. q = mutated \/ q = [mutated EXCEPT !.corrective_progress_after_failure = TRUE]
  BY DEF NoteMutationCall, note_corrective_progress, mutated, revised
<1> QED BY <1>3, <1>4 DEF SameEvidence, KeepsIssue, None, RecoveryCoherent, HasIssue, RuntimeRecoveryState

(* Noting corrective progress changes nothing that the gate's records      *)
(* relate.                                                                 *)
LEMMA CorrectiveProgressEffect ==
  ASSUME NEW r \in RuntimeRecoveryState, NEW t \in Nat, RecoveryCoherent(r, t)
  PROVE  LET q == note_corrective_progress(r, t) IN
         /\ RecoveryCoherent(q, t)
         /\ SameEvidence(q, r)
         /\ KeepsIssue(q, r)
         /\ q.last_mutation_turn = r.last_mutation_turn
         /\ q.pending_issue_kind = r.pending_issue_kind
         /\ q.active_validation_issue = r.active_validation_issue
BY DEF note_corrective_progress, SameEvidence, KeepsIssue, None, RecoveryCoherent, HasIssue,
       RuntimeRecoveryState

(* A validation that passed leaves coherent records with the evidence      *)
(* dated at this turn.                                                     *)
LEMMA ValidationPassedEffect ==
  ASSUME NEW r \in RuntimeRecoveryState, NEW t \in Nat, RecoveryCoherent(r, t)
  PROVE  LET q == ValidationPassed(r, t) IN
         /\ RecoveryCoherent(q, t)
         /\ q.requires_validation_evidence = r.requires_validation_evidence
         /\ q.consecutive_parse_error_turns = r.consecutive_parse_error_turns
         /\ q.last_successful_validation_turn = t
         /\ q.last_mutation_turn = r.last_mutation_turn
<1> DEFINE q == ValidationPassed(r, t)
           resolved == resolve_active_validation_issue(r)
           cleared == clear_active_failure(resolved)
<1>1. /\ resolved \in RuntimeRecoveryState
      /\ resolved = [r EXCEPT !.active_validation_issue = NoIssue]
  BY ResolveType DEF resolve_active_validation_issue
<1> HIDE DEF resolved
<1>2. /\ cleared \in RuntimeRecoveryState
      /\ cleared = [resolved EXCEPT !.active_failure_kind = None,
                                    !.active_failure_turn = NoTurn,
                                    !.corrective_progress_after_failure = FALSE]
  BY <1>1, ClearActiveFailureType DEF clear_active_failure
<1> HIDE DEF cleared
<1>3. q = [cleared EXCEPT !.last_successful_validation_turn = t, !.pending_issue_kind = None]
  BY DEF ValidationPassed, cleared, resolved
<1>4. /\ q.active_validation_issue = NoIssue
      /\ q.pending_issue_kind = None
      /\ q.last_successful_validation_turn = t
      /\ q.requires_validation_evidence = r.requires_validation_evidence
      /\ q.consecutive_parse_error_turns = r.consecutive_parse_error_turns
      /\ q.last_mutation_turn = r.last_mutation_turn
      /\ q.last_validation_failure_turn = r.last_validation_failure_turn
  BY <1>1, <1>2, <1>3 DEF RuntimeRecoveryState
<1>5. NoIssue.kind = None /\ NoIssue.opened_at_turn = 0
  BY DEF NoIssue, NoTurn
<1> QED BY <1>4, <1>5 DEF RecoveryCoherent, HasIssue, None

(* A success of another tool clears at most a parse error or a tool        *)
(* failure; an open validation issue stays open.                           *)
LEMMA OtherToolPassedEffect ==
  ASSUME NEW r \in RuntimeRecoveryState, NEW t \in Nat, RecoveryCoherent(r, t)
  PROVE  LET q == OtherToolPassed(r, t) IN
         /\ RecoveryCoherent(q, t)
         /\ SameEvidence(q, r)
         /\ KeepsIssue(q, r)
         /\ q.last_mutation_turn = r.last_mutation_turn
<1> DEFINE q == OtherToolPassed(r, t)
           cleared == clear_active_failure(r)
<1>1. /\ cleared \in RuntimeRecoveryState
      /\ cleared = [r EXCEPT !.active_failure_kind = None,
                             !.active_failure_turn = NoTurn,
                             !.corrective_progress_after_failure = FALSE]
  BY ClearActiveFailureType DEF clear_active_failure
<1> HIDE DEF cleared
<1>2. CASE r.pending_issue_kind \in RetryIssues
  <2>1. q = [cleared EXCEPT !.pending_issue_kind = None]
    BY <1>2 DEF OtherToolPassed, cleared
  <2> QED BY <1>1, <1>2, <2>1 DEF RetryIssues, SameEvidence, KeepsIssue, None, RecoveryCoherent, HasIssue, RuntimeRecoveryState
<1>3. CASE r.pending_issue_kind \notin RetryIssues
  BY <1>3, CorrectiveProgressEffect DEF OtherToolPassed
<1> QED BY <1>2, <1>3

(* A failure of another tool replaces the pending issue and keeps an open  *)
(* validation issue.                                                       *)
LEMMA OtherToolFailedEffect ==
  ASSUME NEW r \in RuntimeRecoveryState, NEW t \in Nat, RecoveryCoherent(r, t)
  PROVE  LET q == OtherToolFailed(r, t) IN
         /\ RecoveryCoherent(q, t)
         /\ SameEvidence(q, r)
         /\ KeepsIssue(q, r)
         /\ q.last_mutation_turn = r.last_mutation_turn
<1> DEFINE q == OtherToolFailed(r, t)
           noted == note_active_failure(r, "tool_failure", t)
<1>1. /\ noted \in RuntimeRecoveryState
      /\ noted = [r EXCEPT !.active_failure_kind = "tool_failure",
                           !.active_failure_turn = t,
                           !.corrective_progress_after_failure = FALSE]
  BY NoteActiveFailureType DEF note_active_failure, PendingIssueKind
<1> HIDE DEF noted
<1>2. q = [noted EXCEPT !.pending_issue_kind = "tool_failure"]
  BY DEF OtherToolFailed, noted
<1> QED BY <1>1, <1>2 DEF SameEvidence, KeepsIssue, None, RecoveryCoherent, HasIssue, RuntimeRecoveryState

(* A failed validation leaves a pending validation failure with an issue   *)
(* opened no later than this turn.                                         *)
LEMMA ValidationFailedEffect ==
  ASSUME NEW r \in RuntimeRecoveryState, NEW t \in Nat, RecoveryCoherent(r, t), NEW result
  PROVE  LET q == ValidationFailed(r, result, t) IN
         /\ RecoveryCoherent(q, t)
         /\ SameEvidence(q, r)
         /\ KeepsIssue(q, r)
         /\ q.last_mutation_turn = r.last_mutation_turn
<1> DEFINE q == ValidationFailed(r, result, t)
           kind == _classify_validation_issue(result)
           noted == note_active_failure(r, "validation_failure", t)
           failed == [noted EXCEPT !.last_validation_failure_turn = t,
                                   !.pending_issue_kind = "validation_failure"]
           active == failed.active_validation_issue
           fresh == [NoIssue EXCEPT !.kind = kind, !.opened_at_turn = t,
                                    !.validation_attempt_count = 1]
           again == [active EXCEPT !.validation_attempt_count = @ + 1]
<1>1. /\ noted \in RuntimeRecoveryState
      /\ noted = [r EXCEPT !.active_failure_kind = "validation_failure",
                           !.active_failure_turn = t,
                           !.corrective_progress_after_failure = FALSE]
  BY NoteActiveFailureType DEF note_active_failure, PendingIssueKind
<1> HIDE DEF noted
<1>2. /\ failed \in RuntimeRecoveryState
      /\ SameEvidence(failed, r)
      /\ failed.last_mutation_turn = r.last_mutation_turn
      /\ failed.active_validation_issue = r.active_validation_issue
      /\ failed.active_failure_kind = "validation_failure"
      /\ failed.pending_issue_kind = "validation_failure"
      /\ failed.last_validation_failure_turn = t
  BY <1>1 DEF SameEvidence, KeepsIssue, None, RuntimeRecoveryState, PendingIssueKind
<1> HIDE DEF failed
<1>3. kind # None
  BY DEF _classify_validation_issue, None
<1> HIDE DEF kind
<1>4. /\ fresh.kind = kind
      /\ fresh.opened_at_turn = t
      /\ again.kind = active.kind
      /\ again.opened_at_turn = active.opened_at_turn
  BY <1>2 DEF NoIssue, RuntimeRecoveryState, ValidationIssueRecord
<1> HIDE DEF fresh, again
<1>5. \/ active.kind # kind /\ q = [failed EXCEPT !.active_validation_issue = fresh]
      \/ active.kind = kind /\ q = [failed EXCEPT !.active_validation_issue = again]
  BY DEF ValidationFailed, open_or_update_validation_issue, failed, noted, fresh, again, kind
<1>6. /\ q.active_validation_issue.kind = kind
      /\ q.active_validation_issue.opened_at_turn <= t
  BY <1>2, <1>4, <1>5 DEF RuntimeRecoveryState, ValidationIssueRecord, RecoveryCoherent
<1>7. /\ SameEvidence(q, r)
      /\ q.last_mutation_turn = r.last_mutation_turn
      /\ q.active_failure_kind = "validation_failure"
      /\ q.pending_issue_kind = "validation_failure"
      /\ q.last_validation_failure_turn = t
  BY <1>2, <1>5 DEF RuntimeRecoveryState, SameEvidence
<1> QED BY <1>3, <1>6, <1>7 DEF RecoveryCoherent, HasIssue, SameEvidence, KeepsIssue, None

(* A tool result leaves the records coherent, dates a mutation call and a  *)
(* validation that passed with the current turn, and closes a validation   *)
(* issue only when a validation passed.                                    *)
LEMMA ToolResultEffect ==
  ASSUME NEW r \in RuntimeRecoveryState, NEW t \in Nat, RecoveryCoherent(r, t),
         NEW tool, NEW result, result.ok \in BOOLEAN
  PROVE  LET q == record_tool_result(r, tool, result, t)
             passed == tool \in ValidationTools /\ result.ok
         IN  /\ RecoveryCoherent(q, t)
             /\ q.requires_validation_evidence = r.requires_validation_evidence
             /\ q.consecutive_parse_error_turns = r.consecutive_parse_error_turns
             /\ passed => q.last_successful_validation_turn = t
             /\ ~passed => /\ KeepsIssue(q, r)
                           /\ q.last_successful_validation_turn
                                = r.last_successful_validation_turn
             /\ q.last_mutation_turn = IF tool \in MutationTools THEN t
                                                                  ELSE r.last_mutation_turn
<1> DEFINE q == record_tool_result(r, tool, result, t)
           m == IF tool \in MutationTools THEN NoteMutationCall(r, t) ELSE r
<1>1. /\ tool \in ValidationTools => tool \notin MutationTools /\ tool # "finish"
      /\ tool \in MutationTools => tool # "finish"
  BY DEF ValidationTools, MutationTools
<1>2. /\ m \in RuntimeRecoveryState
      /\ RecoveryCoherent(m, t)
      /\ SameEvidence(m, r)
      /\ KeepsIssue(m, r)
      /\ m.pending_issue_kind = r.pending_issue_kind
      /\ m.last_mutation_turn = IF tool \in MutationTools THEN t ELSE r.last_mutation_turn
      /\ tool \in ValidationTools => m = r
  BY <1>1, NoteMutationCallEffect, NoteMutationCallType DEF SameEvidence, KeepsIssue, None
<1> HIDE DEF m
<1>3. \/ tool = "finish" /\ q = r
      \/ tool \in ValidationTools /\ result.ok /\ q = ValidationPassed(m, t)
      \/ /\ ~(tool \in ValidationTools /\ result.ok)
         /\ tool # "finish"
         /\ \/ q = OtherToolPassed(m, t)
            \/ q = m
            \/ q = ValidationFailed(m, result, t)
            \/ q = OtherToolFailed(m, t)
  BY DEF record_tool_result, m
<1>4. CASE tool = "finish" /\ q = r
  BY <1>1, <1>4 DEF KeepsIssue, None
<1>5. CASE tool \in ValidationTools /\ result.ok /\ q = ValidationPassed(m, t)
  BY <1>1, <1>2, <1>5, ValidationPassedEffect DEF SameEvidence
<1>6. CASE /\ ~(tool \in ValidationTools /\ result.ok)
           /\ tool # "finish"
           /\ \/ q = OtherToolPassed(m, t)
              \/ q = m
              \/ q = ValidationFailed(m, result, t)
              \/ q = OtherToolFailed(m, t)
  <2>1. /\ RecoveryCoherent(q, t)
        /\ SameEvidence(q, m)
        /\ HasIssue(m) => HasIssue(q)
        /\ m.pending_issue_kind = "validation_failure" => q.pending_issue_kind # None
        /\ q.last_mutation_turn = m.last_mutation_turn
    BY <1>2, <1>6, OtherToolPassedEffect, ValidationFailedEffect, OtherToolFailedEffect
    DEF SameEvidence, KeepsIssue, None
  <2>2. r.pending_issue_kind = "validation_failure" => q.pending_issue_kind # None
    BY <1>2, <2>1 DEF KeepsIssue
  <2> QED BY <1>2, <1>6, <2>1, <2>2 DEF SameEvidence, KeepsIssue
<1> QED BY <1>3, <1>4, <1>5, <1>6

(* A parsed response leaves evidence and issue alone, and counts malformed *)
(* responses in a row.                                                     *)
LEMMA ParseResultEffect ==
  ASSUME NEW r \in RuntimeRecoveryState, NEW t \in Nat, RecoveryCoherent(r, t),
         NEW parse_error \in BOOLEAN
  PROVE  LET q == record_parse_result(r, parse_error, t) IN
         /\ RecoveryCoherent(q, t)
         /\ KeepsIssue(q, r)
         /\ q.requires_validation_evidence = r.requires_validation_evidence
         /\ q.consecutive_parse_error_turns =
              IF parse_error THEN r.consecutive_parse_error_turns + 1 ELSE 0
         /\ q.last_successful_validation_turn = r.last_successful_validation_turn
         /\ q.last_mutation_turn = r.last_mutation_turn
         /\ q.active_validation_issue = r.active_validation_issue
<1> DEFINE q == record_parse_result(r, parse_error, t)
<1>1. CASE parse_error
  <2> DEFINE noted == note_active_failure(r, "parse_error", t)
  <2>1. /\ noted \in RuntimeRecoveryState
        /\ noted = [r EXCEPT !.active_failure_kind = "parse_error",
                             !.active_failure_turn = t,
                             !.corrective_progress_after_failure = FALSE]
    BY NoteActiveFailureType DEF note_active_failure, PendingIssueKind
  <2> HIDE DEF noted
  <2>2. q = [noted EXCEPT !.consecutive_parse_error_turns = @ + 1,
                          !.pending_issue_kind = "parse_error"]
    BY <1>1 DEF record_parse_result, noted
  <2> QED BY ZenonT(30), <1>1, <2>1, <2>2
          DEF KeepsIssue, None, RecoveryCoherent, HasIssue, RuntimeRecoveryState
<1>2. CASE ~parse_error
  <2> DEFINE kind == IF r.pending_issue_kind = "parse_error" THEN None ELSE r.pending_issue_kind
  <2>1. q = [r EXCEPT !.consecutive_parse_error_turns = 0, !.pending_issue_kind = kind]
    BY <1>2 DEF record_parse_result
  <2> QED BY <1>2, <2>1
          DEF KeepsIssue, None, RecoveryCoherent, HasIssue, RuntimeRecoveryState
<1> QED BY <1>1, <1>2

(* Deferring a completion may open an issue and counts a deferral; it      *)
(* leaves pending issue and evidence alone.                                *)
LEMMA DeferralEffect ==
  ASSUME NEW r \in RuntimeRecoveryState, NEW t \in Nat, RecoveryCoherent(r, t)
  PROVE  LET q == note_finish_deferral(
                    ensure_validation_issue_for_completion_block(r, t), t) IN
         /\ q \in RuntimeRecoveryState
         /\ RecoveryCoherent(q, t)
         /\ SameEvidence(q, r)
         /\ KeepsIssue(q, r)
         /\ q.last_mutation_turn = r.last_mutation_turn
         /\ q.pending_issue_kind = r.pending_issue_kind
<1> DEFINE e == ensure_validation_issue_for_completion_block(r, t)
           q == note_finish_deferral(e, t)
<1>1. /\ e \in RuntimeRecoveryState
      /\ q \in RuntimeRecoveryState
  BY EnsureIssueType, NoteFinishDeferralType
<1>2. ASSUME NEW kind \in ValidationIssueKind, ~HasIssue(r),
             e = open_or_update_validation_issue(r, kind, t, 0)
      PROVE  /\ RecoveryCoherent(e, t)
             /\ SameEvidence(e, r)
             /\ KeepsIssue(e, r)
             /\ e.last_mutation_turn = r.last_mutation_turn
             /\ e.pending_issue_kind = r.pending_issue_kind
  <2> DEFINE fresh == [NoIssue EXCEPT !.kind = kind, !.opened_at_turn = t,
                                      !.validation_attempt_count = 0]
  <2>1. kind # None /\ r.active_validation_issue.kind # kind
    BY <1>2 DEF ValidationIssueKind, None, HasIssue
  <2>2. e = [r EXCEPT !.active_validation_issue = fresh]
    BY <1>2, <2>1 DEF open_or_update_validation_issue
  <2>3. fresh.kind = kind /\ fresh.opened_at_turn = t
    BY DEF NoIssue
  <2> HIDE DEF fresh, e
  <2> QED BY <1>2, <2>1, <2>2, <2>3
          DEF RecoveryCoherent, SameEvidence, KeepsIssue, HasIssue, RuntimeRecoveryState
<1>3. /\ RecoveryCoherent(e, t)
      /\ SameEvidence(e, r)
      /\ KeepsIssue(e, r)
      /\ e.last_mutation_turn = r.last_mutation_turn
      /\ e.pending_issue_kind = r.pending_issue_kind
  <2>1. CASE e = r
    BY <2>1 DEF SameEvidence, KeepsIssue, None
  <2>2. CASE e # r
    <3>1. PICK kind \in ValidationIssueKind :
            ~HasIssue(r) /\ e = open_or_update_validation_issue(r, kind, t, 0)
      BY <2>2 DEF ensure_validation_issue_for_completion_block, ValidationIssueKind
    <3> QED BY <3>1, <1>2
  <2> QED BY <2>1, <2>2
<1> HIDE DEF e
<1> DEFINE counted == [e.active_validation_issue EXCEPT !.finish_deferral_count = @ + 1]
<1>4. /\ counted.kind = e.active_validation_issue.kind
      /\ counted.opened_at_turn = e.active_validation_issue.opened_at_turn
  BY <1>1 DEF RuntimeRecoveryState, ValidationIssueRecord
<1>5. /\ RecoveryCoherent(q, t)
      /\ SameEvidence(q, r)
      /\ KeepsIssue(q, r)
      /\ q.last_mutation_turn = r.last_mutation_turn
      /\ q.pending_issue_kind = r.pending_issue_kind
  <2>1. CASE q = e
    BY <1>3, <2>1
  <2>2. CASE /\ HasIssue(e)
             /\ q = [e EXCEPT !.active_validation_issue = counted,
                              !.last_finish_deferral_turn = t]
    BY <1>1, <1>3, <1>4, <2>2
    DEF RecoveryCoherent, SameEvidence, KeepsIssue, HasIssue, RuntimeRecoveryState
  <2> QED BY <2>1, <2>2 DEF note_finish_deferral
<1> QED BY <1>1, <1>5 DEF e

-----------------------------------------------------------------------------
(* The session record and the outcome are well formed.                     *)

(* A malformed response leaves the session record well formed.             *)
LEMMA ParseFailureSessionType ==
  ASSUME NEW s \in RuntimeSessionState, NEW t \in Nat
  PROVE  note_protocol_or_parse_failure(s, t) \in RuntimeSessionState
BY DEF note_protocol_or_parse_failure, RuntimeSessionState, FailureKind

(* An executed tool call leaves the session record well formed.            *)
LEMMA ToolExecutionSessionType ==
  ASSUME NEW s \in RuntimeSessionState, NEW tool \in ToolNames,
         NEW result \in ToolResult, NEW t \in Nat
  PROVE  note_tool_execution(s, tool, result, t) \in RuntimeSessionState
<1> DEFINE named == [s EXCEPT !.distinct_non_finish_tool_names = @ \cup {tool}]
<1>1. named \in RuntimeSessionState
  BY DEF RuntimeSessionState
<1> HIDE DEF named
<1>2. /\ result.ok \in BOOLEAN
      /\ (named.saw_mutation_progress \/ tool \in MutationTools) \in BOOLEAN
      /\ (named.saw_validation_progress \/ tool \in ValidationTools) \in BOOLEAN
  BY DEF ToolResult
<1>3. CASE result.ok
  <2> DEFINE n == IF named.successful_non_finish_tool_call_count < 2
                  THEN named.successful_non_finish_tool_call_count + 1
                  ELSE named.successful_non_finish_tool_call_count
             q == [named EXCEPT
                     !.successful_non_finish_tool_call_count = n,
                     !.saw_mutation_progress = @ \/ tool \in MutationTools,
                     !.saw_validation_progress = @ \/ tool \in ValidationTools,
                     !.recent_failure_kind = None,
                     !.recent_failure_turn = NoTurn]
  <2>1. n \in 0..2
    BY <1>1 DEF RuntimeSessionState
  <2> HIDE DEF n
  <2>2. q \in RuntimeSessionState
    BY <1>1, <1>2, <2>1 DEF RuntimeSessionState, NoTurn
  <2> QED BY <1>3, <2>2 DEF note_tool_execution, named, n
<1>4. CASE ~result.ok
  <2>1. ASSUME NEW kind \in FailureKind
        PROVE  [named EXCEPT !.recent_failure_kind = kind, !.recent_failure_turn = t]
                 \in RuntimeSessionState
    BY <1>1 DEF RuntimeSessionState
  <2>2. "validation_failure" \in FailureKind /\ "tool_failure" \in FailureKind
    BY DEF FailureKind
  <2> QED BY <1>4, <2>1, <2>2 DEF note_tool_execution, named
<1> QED BY <1>2, <1>3, <1>4

(* Noting a decision and mirroring the pending issue leaves the session    *)
(* record well formed, and mirrors the pending kind.                       *)
LEMMA DecisionSession ==
  ASSUME NEW s \in RuntimeSessionState, NEW r \in RuntimeRecoveryState, NEW t \in Nat,
         NEW code \in StopReason \cup ContinueCode
  PROVE  LET q == sync_pending_issue_record(note_stop_decision(s, code, t), r, t) IN
         /\ q \in RuntimeSessionState
         /\ q.active_pending_issue.kind = r.pending_issue_kind
         /\ q.last_turn_continuation =
              [turn_index |-> t, decision_code |-> code,
               termination_kind |-> derive_termination_kind(code)]
<1> DEFINE c == [turn_index |-> t, decision_code |-> code,
                 termination_kind |-> derive_termination_kind(code)]
           noted == note_stop_decision(s, code, t)
           q == sync_pending_issue_record(noted, r, t)
<1>1. derive_termination_kind(code) \in TerminationKind \cup {None}
  BY DEF derive_termination_kind, TerminationKind, StopReason
<1>2. c \in TurnContinuationRecord
  BY <1>1 DEF TurnContinuationRecord
<1>3. /\ noted \in RuntimeSessionState
      /\ noted.last_turn_continuation = c
  BY <1>2 DEF note_stop_decision, RuntimeSessionState
<1> HIDE DEF c, noted
<1> DEFINE active == noted.active_pending_issue
           kind == r.pending_issue_kind
           id == r.active_validation_issue.opened_at_turn
           issue == IF kind = None THEN NoPendingIssue
                    ELSE IF active.kind = kind
                    THEN [active EXCEPT !.issue_id = IF id # NoTurn THEN id ELSE active.issue_id]
                    ELSE [kind |-> kind, issue_id |-> id, opened_at_turn |-> t]
<1>4. /\ kind \in PendingIssueKind \cup {None}
      /\ id \in Nat
      /\ active \in PendingIssueRecord
  BY <1>3 DEF RuntimeRecoveryState, ValidationIssueRecord, RuntimeSessionState
<1>5. issue \in PendingIssueRecord /\ issue.kind = kind
  <2> HIDE DEF active, kind, id
  <2>1. /\ NoPendingIssue \in PendingIssueRecord
        /\ NoPendingIssue.kind = None
    BY DEF NoPendingIssue, PendingIssueRecord, NoTurn
  <2> QED BY <1>4, <2>1 DEF PendingIssueRecord
<1> HIDE DEF issue
<1>6. q = [noted EXCEPT !.active_pending_issue = issue]
  BY DEF sync_pending_issue_record, issue
<1> QED BY <1>3, <1>5, <1>6 DEF RuntimeSessionState, noted, c

(* finalize_session writes a well-formed outcome.                          *)
LEMMA OutcomeType ==
  ASSUME NEW reason \in StopReason, current_turn \in Nat
  PROVE  finalize_session(reason) \in SessionOutcomeRecord
BY DEF finalize_session, SessionOutcomeRecord, StopReason, StatusOf, RunStatus,
       TerminationKind, _termination_kind_from_stop_reason,
       _session_stop_status_from_final_status, BudgetCode

(* Inspection and handlers answer with tool results.                       *)
LEMMA ToolResultsType ==
  ASSUME NEW tool, NEW result \in ToolResults(tool)
  PROVE  result \in ToolResult
<1>1. Passed \in ToolResult
  BY DEF Passed, ToolResult, ErrorClass
<1>2. ASSUME NEW class \in ErrorClass, NEW exited \in BOOLEAN
      PROVE  Failed(class, exited) \in ToolResult
  BY DEF Failed, ToolResult
<1>3. "retry" \in ErrorClass /\ "refused" \in ErrorClass
  BY DEF ErrorClass
<1>4. CASE result \in InspectionFailures(tool)
  BY <1>2, <1>3, <1>4 DEF InspectionFailures
<1>5. CASE result \in HandlerResults
  BY <1>1, <1>2, <1>5 DEF HandlerResults
<1> QED BY <1>4, <1>5 DEF ToolResults

(* The budget rule names a budget code or nothing.                         *)
LEMMA BudgetCodes ==
  ASSUME NEW r, validation_budget_exhaustion(r) # None
  PROVE  validation_budget_exhaustion(r) \in StopReason
BY DEF validation_budget_exhaustion, StopReason, BudgetCode

(* The step of a decision, whichever rule took it.                         *)
Decision(r) ==
  \/ \E reason \in StopReason : StopTurn(reason, r)
  \/ \E code \in ContinueCode : ContinueTurn(code, r)

(* Every rule of should_stop is a decision on rec or on the deferred rec.  *)
LEMMA DecideIsDecision ==
  ASSUME Decide
  PROVE  Decision(rec) \/ (CompletionRequested /\ Decision(Deferred))
<1>1. CASE StopOnBudget
  BY <1>1, BudgetCodes DEF StopOnBudget, BudgetLeft, Decision
<1>2. CASE StopOnMaxTurns
  <2>1. "max_turns" \in StopReason
    BY DEF StopReason
  <2> QED BY <1>2, <2>1 DEF StopOnMaxTurns, Decision
<1>3. CASE RetryParseError
  <2>1. "recoverable_parse_error" \in ContinueCode
    BY DEF ContinueCode
  <2> QED BY <1>3, <2>1 DEF RetryParseError, Decision
<1>4. CASE StopOnParseError
  <2>1. "parse_error" \in StopReason
    BY DEF StopReason
  <2> QED BY <1>4, <2>1 DEF StopOnParseError, Decision
<1>5. CASE FollowUp
  <2>1. "continue_with_tool_calls" \in ContinueCode
    BY DEF ContinueCode
  <2> QED BY <1>5, <2>1 DEF FollowUp, Decision
<1>6. CASE Complete
  <2>1. (IF turn.finish_called THEN "finish" ELSE "no_tool_calls") \in StopReason
    BY DEF StopReason
  <2> QED BY <1>6, <2>1 DEF Complete, Decision
<1>7. CASE DeferCompletion
  <2>1. DeferralCode \in ContinueCode
    BY DEF ContinueCode, DeferralCode
  <2> QED BY <1>7, <2>1 DEF DeferCompletion, Decision
<1>8. CASE StopOnDeferralBudget
  BY <1>8, BudgetCodes DEF StopOnDeferralBudget, Decision
<1> QED BY <1>1, <1>2, <1>3, <1>4, <1>5, <1>6, <1>7, <1>8 DEF Decide

(* Deferring keeps the recovery state well formed.                         *)
LEMMA DeferredType ==
  ASSUME TypeOK
  PROVE  Deferred \in RuntimeRecoveryState
BY EnsureIssueType, NoteFinishDeferralType DEF Deferred, TypeOK

(* A decision on a well-formed recovery state keeps every variable well    *)
(* formed.                                                                 *)
LEMMA DecisionType ==
  ASSUME LoopConstants, TypeOK, NEW r \in RuntimeRecoveryState, Decision(r)
  PROVE  TypeOK'
<1>1. current_turn \in Nat
  BY DEF TypeOK, LoopConstants
<1>2. ASSUME NEW code \in StopReason \cup ContinueCode, RecordDecision(code, r)
      PROVE  /\ rec' \in RuntimeRecoveryState
             /\ ses' \in RuntimeSessionState
             /\ UNCHANGED <<task, current_turn, turn, workspace>>
  BY <1>1, <1>2, DecisionSession DEF RecordDecision, TypeOK
<1>3. CASE \E reason \in StopReason : StopTurn(reason, r)
  <2>1. PICK reason \in StopReason : StopTurn(reason, r)
    BY <1>3
  <2>2. outcome' \in SessionOutcomeRecord
    BY <1>1, <2>1, OutcomeType DEF StopTurn
  <2>3. RecordDecision(reason, r) /\ phase' = "returned"
    BY <2>1 DEF StopTurn
  <2> QED BY <1>2, <2>2, <2>3 DEF TypeOK, Phase
<1>4. CASE \E code \in ContinueCode : ContinueTurn(code, r)
  <2>1. PICK code \in ContinueCode : ContinueTurn(code, r)
    BY <1>4
  <2>2. RecordDecision(code, r) /\ phase' = "loop" /\ outcome' = outcome
    BY <2>1 DEF ContinueTurn
  <2> QED BY <1>2, <2>2 DEF TypeOK, Phase
<1> QED BY <1>3, <1>4 DEF Decision

(* The initial state is well formed.                                       *)
LEMMA InitType ==
  ASSUME LoopConstants, Init
  PROVE  TypeOK
<1>1. rec \in RuntimeRecoveryState
  BY InitialRecoveryType DEF Init
<1>2. ses \in RuntimeSessionState
  BY DEF Init, InitialSessionState, RuntimeSessionState, NoPendingIssue, PendingIssueRecord,
         NoContinuation, TurnContinuationRecord, NoTurn
<1>3. turn \in RuntimeTurnState
  BY DEF Init, NoResponse, RuntimeTurnState, FinishAnswer
<1>4. outcome \in SessionOutcomeRecord
  BY DEF Init, NoOutcome, SessionOutcomeRecord
<1>5. workspace \in Workspace
  BY DEF Init, UntouchedWorkspace, Workspace, NoTurn
<1> QED BY <1>1, <1>2, <1>3, <1>4, <1>5 DEF Init, TypeOK, Phase, LoopConstants

(* Every step keeps every variable well formed.                            *)
LEMMA NextType ==
  ASSUME LoopConstants, TypeOK, [Next]_vars
  PROVE  TypeOK'
<1>0. current_turn \in Nat
  BY DEF TypeOK, LoopConstants
<1>1. CASE BeginTurn
  <2>1. NoResponse \in RuntimeTurnState
    BY DEF NoResponse, RuntimeTurnState, FinishAnswer
  <2>2. current_turn' \in 0..MaxTurns
    BY <1>1 DEF BeginTurn, TypeOK, LoopConstants
  <2> QED BY <1>1, <2>1, <2>2 DEF BeginTurn, TypeOK, Phase
<1>2. CASE NoTurnsLeft
  <2>1. outcome' \in SessionOutcomeRecord
    BY <1>0, <1>2, OutcomeType DEF NoTurnsLeft, StopReason
  <2> QED BY <1>2, <2>1 DEF NoTurnsLeft, TypeOK, Phase
<1>3. CASE ModelFails
  <2>1. outcome' \in SessionOutcomeRecord
    BY <1>0, <1>3, OutcomeType DEF ModelFails, StopReason
  <2> QED BY <1>3, <2>1 DEF ModelFails, TypeOK, Phase
<1>4. CASE ModelResponds
  <2>1. PICK calls \in CallSequence, parse_error \in BOOLEAN :
          /\ rec' = record_parse_result(rec, parse_error, current_turn)
          /\ ses' = IF parse_error THEN note_protocol_or_parse_failure(ses, current_turn)
                                   ELSE ses
          /\ turn' = [ parse_error |-> parse_error, calls |-> calls,
                       finish_called |-> \E i \in DOMAIN calls : calls[i] = "finish",
                       other_called |-> \E i \in DOMAIN calls : calls[i] # "finish",
                       finish_answer |-> None ]
    BY <1>4 DEF ModelResponds
  <2>2. calls \in Seq(ToolNames)
    BY DEF CallSequence, LoopConstants
  <2>3. turn' \in RuntimeTurnState
    BY <2>1, <2>2 DEF RuntimeTurnState, FinishAnswer
  <2>4. rec' \in RuntimeRecoveryState
    BY <1>0, <2>1, ParseResultType DEF TypeOK
  <2>5. ses' \in RuntimeSessionState
    BY <1>0, <2>1, ParseFailureSessionType DEF TypeOK
  <2>6. /\ phase' = "tool_dispatch"
        /\ UNCHANGED <<task, current_turn, outcome, workspace>>
    BY <1>4 DEF ModelResponds
  <2> QED BY <2>3, <2>4, <2>5, <2>6 DEF TypeOK, Phase
<1>5. CASE ExecuteToolCall
  <2> DEFINE tool == Head(turn.calls)
  <2>1. tool \in ToolNames /\ Tail(turn.calls) \in Seq(ToolNames)
    BY <1>5 DEF ExecuteToolCall, TypeOK, RuntimeTurnState
  <2>2. PICK result \in ToolResults(tool) :
          /\ rec' = IF result.ok
                    THEN note_corrective_progress(
                           record_tool_result(rec, tool, result, current_turn), current_turn)
                    ELSE record_tool_result(rec, tool, result, current_turn)
          /\ ses' = note_tool_execution(ses, tool, result, current_turn)
          /\ workspace' = ObserveWorkspace(tool, result)
    BY <1>5 DEF ExecuteToolCall
  <2> HIDE DEF tool
  <2>3. result \in ToolResult
    BY ToolResultsType
  <2>4. rec' \in RuntimeRecoveryState
    BY <1>0, <2>2, ToolResultType, NoteCorrectiveProgressType DEF TypeOK
  <2>5. ses' \in RuntimeSessionState
    BY <1>0, <2>1, <2>2, <2>3, ToolExecutionSessionType DEF TypeOK
  <2>6. workspace' \in Workspace
    BY <1>0, <2>2 DEF ObserveWorkspace, TypeOK, Workspace
  <2>7. turn' \in RuntimeTurnState
    BY <1>5, <2>1 DEF ExecuteToolCall, TypeOK, RuntimeTurnState, tool
  <2>8. UNCHANGED <<task, phase, current_turn, outcome>>
    BY <1>5 DEF ExecuteToolCall
  <2> QED BY <2>4, <2>5, <2>6, <2>7, <2>8 DEF TypeOK
<1>6. CASE ExecuteFinish
  <2>1. Tail(turn.calls) \in Seq(ToolNames)
    BY <1>6 DEF ExecuteFinish, TypeOK, RuntimeTurnState
  <2>2. PICK answer \in FinishAnswers :
          turn' = [turn EXCEPT !.calls = Tail(@), !.finish_answer = answer]
    BY <1>6 DEF ExecuteFinish
  <2>3. answer \in FinishAnswer
    BY DEF FinishAnswers, FinishAnswer
  <2>4. turn' \in RuntimeTurnState
    BY <2>1, <2>2, <2>3 DEF TypeOK, RuntimeTurnState
  <2> QED BY <1>6, <2>4 DEF ExecuteFinish, TypeOK
<1>7. CASE Decide
  BY <1>7, DecideIsDecision, DecisionType, DeferredType DEF TypeOK
<1>8. CASE UNCHANGED vars
  BY <1>8 DEF vars, TypeOK
<1> QED BY <1>1, <1>2, <1>3, <1>4, <1>5, <1>6, <1>7, <1>8 DEF Next, Terminating

(* The agent loop is type correct: every record the session keeps is well  *)
(* formed in every reachable state.                                        *)
THEOREM TypeCorrect == Spec => []TypeOK
<1>1. Init => TypeOK
  BY InitType, LoopConstants
<1>2. TypeOK /\ [Next]_vars => TypeOK'
  BY NextType, LoopConstants
<1> QED BY <1>1, <1>2, PTL DEF Spec

-----------------------------------------------------------------------------
(* The loop invariant.                                                     *)

(* IssueCoherence is coherence of the recovery state plus the mirror.      *)
LEMMA CoherenceSuffices ==
  ASSUME LoopConstants, TypeOK, RecoveryCoherent(rec, current_turn),
         phase # "tool_dispatch" => ses.active_pending_issue.kind = rec.pending_issue_kind
  PROVE  IssueCoherence
BY DEF LoopConstants, TypeOK, RuntimeRecoveryState, ValidationIssueRecord,
       RecoveryCoherent, IssueCoherence

(* An issue whose budget rule is silent is within its budgets.             *)
LEMMA SilentBudget ==
  ASSUME NEW r \in RuntimeRecoveryState, NEW t \in Nat, RecoveryCoherent(r, t),
         validation_budget_exhaustion(r) = None
  PROVE  WithinBudgets(r)
<1>1. CASE ~HasIssue(r)
  BY <1>1, BudgetsAreNaturals DEF RecoveryCoherent, NoIssue, WithinBudgets
<1>2. CASE HasIssue(r)
  BY <1>2, BudgetsAreNaturals
  DEF validation_budget_exhaustion, WithinBudgets, None, RuntimeRecoveryState,
      ValidationIssueRecord
<1> QED BY <1>1, <1>2

(* Conversely the budget rule is silent within the budgets.                *)
LEMMA BudgetSilent ==
  ASSUME NEW r \in RuntimeRecoveryState, WithinBudgets(r)
  PROVE  validation_budget_exhaustion(r) = None
BY BudgetsAreNaturals
DEF validation_budget_exhaustion, WithinBudgets, RuntimeRecoveryState, ValidationIssueRecord

(* The loop invariant holds before the first turn.                         *)
LEMMA InitInvariant ==
  ASSUME LoopConstants, Init
  PROVE  LoopInvariant
<1>1. TypeOK
  BY InitType
<1>2. /\ rec.pending_issue_kind = None
      /\ rec.active_validation_issue = NoIssue
      /\ rec.requires_validation_evidence = task.requires
      /\ rec.consecutive_parse_error_turns = 0
      /\ rec.last_successful_validation_turn = 0
      /\ rec.last_validation_failure_turn = 0
      /\ rec.last_mutation_turn = 0
  BY DEF Init, InitialRecoveryState, NoTurn
<1>3. /\ NoIssue.kind = None
      /\ NoIssue.opened_at_turn = 0
      /\ WithinBudgets(rec)
  BY <1>2, BudgetsAreNaturals DEF NoIssue, NoTurn, WithinBudgets
<1>4. RecoveryCoherent(rec, current_turn)
  BY <1>2, <1>3 DEF Init, RecoveryCoherent, HasIssue, None
<1>5. ses.active_pending_issue.kind = None /\ ses.last_turn_continuation = NoContinuation
  BY DEF Init, InitialSessionState, NoPendingIssue
<1>6. EvidenceDatesWorkspace
  BY <1>2 DEF Init, EvidenceDatesWorkspace, UntouchedWorkspace, NoTurn
<1>7. TurnPosition
  BY <1>5 DEF Init, TurnPosition, NoContinuation, NoTurn, LoopConstants
<1>8. FinishTurnFrozen /\ BudgetsHeld
  BY <1>2, <1>3
  DEF Init, FinishTurnFrozen, BudgetsHeld, parse_error_is_recoverable,
      MaxConsecutiveParseErrorTurns
<1>9. CompletionGate /\ FinishAnswerStands /\ OutcomeConsistent
  BY <1>5 DEF Init, CompletionGate, FinishAnswerStands, OutcomeConsistent, NoOutcome,
              NoResponse, NoContinuation, None
<1>10. IssueCoherence
  BY <1>1, <1>2, <1>4, <1>5, CoherenceSuffices
<1> QED BY <1>1, <1>4, <1>6, <1>7, <1>8, <1>9, <1>10 DEF LoopInvariant

(* Starting a turn.                                                        *)
LEMMA BeginTurnInvariant ==
  ASSUME LoopConstants, LoopInvariant, BeginTurn, TypeOK'
  PROVE  LoopInvariant'
<1> USE DEF BeginTurn
<1>1. current_turn \in Nat /\ TypeOK
  BY DEF LoopInvariant, TypeOK, LoopConstants
<1>2. RecoveryCoherent(rec, current_turn)'
  BY <1>1 DEF LoopInvariant, RecoveryCoherent, HasIssue, TypeOK, RuntimeRecoveryState,
              ValidationIssueRecord
<1>3. IssueCoherence'
  <2>1. (ses.active_pending_issue.kind = rec.pending_issue_kind)'
    BY DEF LoopInvariant, IssueCoherence
  <2> QED BY <1>2, <2>1 DEF IssueCoherence, RecoveryCoherent, HasIssue, TypeOK,
                 LoopConstants, RuntimeRecoveryState, ValidationIssueRecord
<1>4. EvidenceDatesWorkspace'
  BY DEF LoopInvariant, EvidenceDatesWorkspace
<1>5. TurnPosition'
  BY <1>1 DEF LoopInvariant, TurnPosition, TypeOK
<1>6. FinishTurnFrozen' /\ BudgetsHeld'
  BY DEF LoopInvariant, FinishTurnFrozen, BudgetsHeld, WithinBudgets,
         parse_error_is_recoverable
<1>7. OutcomeConsistent' /\ CompletionGate'
  BY DEF LoopInvariant, OutcomeConsistent, CompletionGate, NoOutcome, None
<1>8. FinishAnswerStands'
  BY DEF FinishAnswerStands
<1> QED BY <1>2, <1>3, <1>4, <1>5, <1>6, <1>7, <1>8 DEF LoopInvariant

(* The two taxonomies of a stop agree on every stop reason.                *)
LEMMA StopTaxonomies ==
  ASSUME NEW reason \in StopReason
  PROVE  LET o == finalize_session(reason) IN
         /\ o.stop_reason = reason
         /\ o.total_turns = current_turn
         /\ o.session_stop_status = o.final_status
         /\ o.session_termination_kind = derive_termination_kind(reason)
         /\ o.final_status = "completed" <=> reason \in {"finish", "no_tool_calls"}
         /\ o.final_status = "completed" <=>
              o.session_termination_kind \in {"completed", "no_tool_calls"}
BY DEF finalize_session, StopReason, StatusOf, _termination_kind_from_stop_reason,
       _session_stop_status_from_final_status, derive_termination_kind, BudgetCode

(* What a step that ends the session without a decision must leave alone.  *)
LEMMA UndecidedStop ==
  ASSUME LoopConstants, LoopInvariant, TypeOK',
         NEW reason \in {"max_turns", "llm_error"},
         phase \in {"loop", "request_built"}, phase' = "returned",
         outcome' = finalize_session(reason),
         UNCHANGED <<task, current_turn, rec, ses, turn, workspace>>,
         reason = IF task.max_turns = 0 THEN "max_turns" ELSE "llm_error",
         current_turn > 0 => ses.last_turn_continuation.turn_index # current_turn,
         turn.finish_answer = "accepted" => reason = "max_turns"
  PROVE  LoopInvariant'
<1>1. reason \in StopReason
  BY DEF StopReason
<1>2. /\ outcome'.stop_reason = reason
      /\ outcome'.final_status # "completed"
      /\ outcome'.total_turns = current_turn
      /\ outcome'.session_stop_status = outcome'.final_status
      /\ outcome'.session_termination_kind \notin {"completed", "no_tool_calls"}
  BY <1>1, StopTaxonomies
<1>3. RecoveryCoherent(rec, current_turn)'
  BY DEF LoopInvariant, RecoveryCoherent, HasIssue
<1>4. IssueCoherence'
  BY DEF LoopInvariant, IssueCoherence, HasIssue
<1>5. EvidenceDatesWorkspace'
  BY DEF LoopInvariant, EvidenceDatesWorkspace
<1>6. TurnPosition'
  BY DEF LoopInvariant, TurnPosition
<1>7. FinishTurnFrozen' /\ BudgetsHeld' /\ CompletionGate'
  BY <1>2 DEF FinishTurnFrozen, BudgetsHeld, CompletionGate
<1>8. FinishAnswerStands'
  BY <1>2 DEF FinishAnswerStands
<1>9. OutcomeConsistent'
  BY <1>2 DEF OutcomeConsistent
<1> QED BY <1>3, <1>4, <1>5, <1>6, <1>7, <1>8, <1>9 DEF LoopInvariant

(* A task without turns.                                                   *)
LEMMA NoTurnsLeftInvariant ==
  ASSUME LoopConstants, LoopInvariant, NoTurnsLeft, TypeOK'
  PROVE  LoopInvariant'
<1>1. current_turn = 0 /\ task.max_turns = 0
  BY DEF NoTurnsLeft, LoopInvariant, TypeOK, TurnPosition, LoopConstants
<1> QED BY <1>1, UndecidedStop DEF NoTurnsLeft

(* A failed request.                                                       *)
LEMMA ModelFailsInvariant ==
  ASSUME LoopConstants, LoopInvariant, ModelFails, TypeOK'
  PROVE  LoopInvariant'
<1>1. ses.last_turn_continuation.turn_index \in Nat
  BY DEF LoopInvariant, TypeOK, RuntimeSessionState, TurnContinuationRecord
<1>2. /\ ses.last_turn_continuation.turn_index # current_turn
      /\ task.max_turns # 0
  BY <1>1 DEF ModelFails, LoopInvariant, TypeOK, TurnPosition, LoopConstants
<1>3. turn.finish_answer # "accepted"
  BY DEF ModelFails, LoopInvariant, TurnPosition, NoResponse, None
<1> QED BY <1>2, <1>3, UndecidedStop DEF ModelFails

(* A response, well formed or not.                                         *)
LEMMA ModelRespondsInvariant ==
  ASSUME LoopConstants, LoopInvariant, ModelResponds, TypeOK'
  PROVE  LoopInvariant'
<1>1. PICK calls \in CallSequence, parse_error \in BOOLEAN :
        /\ parse_error => calls = <<>>
        /\ rec' = record_parse_result(rec, parse_error, current_turn)
        /\ ses' = IF parse_error THEN note_protocol_or_parse_failure(ses, current_turn)
                                 ELSE ses
        /\ turn' = [ parse_error |-> parse_error, calls |-> calls,
                     finish_called |-> \E i \in DOMAIN calls : calls[i] = "finish",
                     other_called |-> \E i \in DOMAIN calls : calls[i] # "finish",
                     finish_answer |-> None ]
  BY DEF ModelResponds
<1>2. /\ phase = "request_built"
      /\ phase' = "tool_dispatch"
      /\ UNCHANGED <<task, current_turn, outcome, workspace>>
  BY DEF ModelResponds
<1>3. /\ current_turn \in Nat
      /\ rec \in RuntimeRecoveryState
      /\ RecoveryCoherent(rec, current_turn)
  BY DEF LoopInvariant, TypeOK, LoopConstants
<1>4. /\ RecoveryCoherent(rec', current_turn)
      /\ rec'.requires_validation_evidence = rec.requires_validation_evidence
      /\ rec'.consecutive_parse_error_turns =
           IF parse_error THEN rec.consecutive_parse_error_turns + 1 ELSE 0
      /\ rec'.last_successful_validation_turn = rec.last_successful_validation_turn
      /\ rec'.last_mutation_turn = rec.last_mutation_turn
      /\ rec'.active_validation_issue = rec.active_validation_issue
  BY <1>1, <1>3, ParseResultEffect
<1>5. RecoveryCoherent(rec, current_turn)'
  BY <1>2, <1>4
<1>6. IssueCoherence'
  BY <1>2, <1>5 DEF IssueCoherence, RecoveryCoherent, HasIssue, TypeOK, LoopConstants,
                    RuntimeRecoveryState, ValidationIssueRecord
<1>7. EvidenceDatesWorkspace'
  BY <1>2, <1>4 DEF LoopInvariant, EvidenceDatesWorkspace
<1>8. ses'.last_turn_continuation = ses.last_turn_continuation
  BY <1>1 DEF LoopInvariant, TypeOK, note_protocol_or_parse_failure, RuntimeSessionState
<1>9. TurnPosition'
  BY <1>1, <1>2, <1>4, <1>8 DEF LoopInvariant, TurnPosition
<1>10. WithinBudgets(rec')
  BY <1>2, <1>4 DEF LoopInvariant, BudgetsHeld, WithinBudgets
<1>11. FinishTurnFrozen'
  <2>1. turn'.finish_answer = None /\ turn'.calls = calls
        /\ turn'.other_called = \E i \in DOMAIN calls : calls[i] # "finish"
    BY <1>1
  <2>2. ~turn'.other_called => \A i \in DOMAIN calls : calls[i] = "finish"
    BY <2>1
  <2>3. WithinBudgets(rec)'
    BY <1>10 DEF WithinBudgets
  <2>4. calls \in Seq(ToolNames)
    BY DEF CallSequence, LoopConstants
  <2>5. ~turn'.other_called /\ calls # <<>> => turn'.finish_called
    <3>1. calls # <<>> => 1 \in DOMAIN calls
      BY <2>4
    <3> QED BY <1>1, <2>1, <2>2, <3>1
  <2> QED BY <2>1, <2>2, <2>3, <2>5 DEF FinishTurnFrozen, None
<1>12. BudgetsHeld' /\ FinishAnswerStands'
  BY <1>2 DEF BudgetsHeld, FinishAnswerStands
<1>13. OutcomeConsistent' /\ CompletionGate'
  BY <1>2, <1>8 DEF LoopInvariant, OutcomeConsistent, CompletionGate, NoOutcome, None
<1> QED BY <1>5, <1>6, <1>7, <1>9, <1>11, <1>12, <1>13 DEF LoopInvariant

(* One tool call: what the workspace shows and what the recovery state     *)
(* dates move together.                                                    *)
LEMMA ExecuteToolCallInvariant ==
  ASSUME LoopConstants, LoopInvariant, ExecuteToolCall, TypeOK'
  PROVE  LoopInvariant'
<1> DEFINE tool == Head(turn.calls)
<1>1. PICK result \in ToolResults(tool) :
        /\ rec' = IF result.ok
                  THEN note_corrective_progress(
                         record_tool_result(rec, tool, result, current_turn), current_turn)
                  ELSE record_tool_result(rec, tool, result, current_turn)
        /\ ses' = note_tool_execution(ses, tool, result, current_turn)
        /\ workspace' = ObserveWorkspace(tool, result)
  BY DEF ExecuteToolCall
<1>2. /\ phase = "tool_dispatch"
      /\ turn.calls # <<>>
      /\ tool # "finish"
      /\ turn' = [turn EXCEPT !.calls = Tail(@)]
      /\ UNCHANGED <<task, phase, current_turn, outcome>>
  BY DEF ExecuteToolCall
<1>3. /\ current_turn \in Nat
      /\ rec \in RuntimeRecoveryState
      /\ ses \in RuntimeSessionState
      /\ turn \in RuntimeTurnState
      /\ workspace \in Workspace
      /\ RecoveryCoherent(rec, current_turn)
  BY DEF LoopInvariant, TypeOK, LoopConstants
<1>4. turn.other_called
  <2>1. 1 \in DOMAIN turn.calls /\ turn.calls[1] = tool
    BY <1>2, <1>3 DEF RuntimeTurnState
  <2> QED BY <1>2, <1>3, <2>1 DEF LoopInvariant, FinishTurnFrozen, RuntimeTurnState
<1> HIDE DEF tool
<1>5. result \in ToolResult /\ result.ok \in BOOLEAN
  BY ToolResultsType DEF ToolResult
<1> DEFINE recorded == record_tool_result(rec, tool, result, current_turn)
           passed == tool \in ValidationTools /\ result.ok
<1>6. /\ recorded \in RuntimeRecoveryState
      /\ RecoveryCoherent(recorded, current_turn)
      /\ recorded.requires_validation_evidence = rec.requires_validation_evidence
      /\ recorded.consecutive_parse_error_turns = rec.consecutive_parse_error_turns
      /\ passed => recorded.last_successful_validation_turn = current_turn
      /\ ~passed => recorded.last_successful_validation_turn
                      = rec.last_successful_validation_turn
      /\ recorded.last_mutation_turn = IF tool \in MutationTools THEN current_turn
                                                         ELSE rec.last_mutation_turn
  BY <1>3, <1>5, ToolResultType, ToolResultEffect
<1>7. rec' = recorded \/ rec' = note_corrective_progress(recorded, current_turn)
  BY <1>1
<1> HIDE DEF recorded
<1>8. /\ RecoveryCoherent(rec', current_turn)
      /\ rec'.requires_validation_evidence = rec.requires_validation_evidence
      /\ rec'.consecutive_parse_error_turns = rec.consecutive_parse_error_turns
      /\ passed => rec'.last_successful_validation_turn = current_turn
      /\ ~passed => rec'.last_successful_validation_turn = rec.last_successful_validation_turn
      /\ rec'.last_mutation_turn = IF tool \in MutationTools THEN current_turn
                                                              ELSE rec.last_mutation_turn
  BY <1>3, <1>6, <1>7, CorrectiveProgressEffect DEF SameEvidence
<1>9. RecoveryCoherent(rec, current_turn)'
  BY <1>2, <1>8
<1>10. IssueCoherence'
  BY <1>2, <1>9 DEF IssueCoherence, RecoveryCoherent, HasIssue, TypeOK, LoopConstants,
                    RuntimeRecoveryState, ValidationIssueRecord
<1>11. EvidenceDatesWorkspace'
  <2>1. /\ rec.last_successful_validation_turn \in Nat
        /\ rec.last_mutation_turn \in Nat
        /\ rec.last_successful_validation_turn <= current_turn
        /\ rec.last_mutation_turn <= current_turn
    BY <1>3 DEF RuntimeRecoveryState, RecoveryCoherent
  <2>2. /\ workspace.validated_turn = rec.last_successful_validation_turn
        /\ workspace.edited_later =>
             rec.last_mutation_turn > rec.last_successful_validation_turn
        /\ rec.requires_validation_evidence = task.requires
    BY DEF LoopInvariant, EvidenceDatesWorkspace
  <2>3. CASE passed
    <3>1. workspace'.validated_turn = current_turn /\ ~workspace'.edited_later
      BY <1>1, <2>3 DEF ObserveWorkspace
    <3> QED BY <1>2, <1>8, <2>2, <2>3, <3>1 DEF EvidenceDatesWorkspace
  <2>4. CASE ~passed
    <3>1. /\ workspace'.validated_turn = workspace.validated_turn
          /\ \/ workspace'.edited_later = workspace.edited_later
             \/ tool \in MutationTools /\ workspace.validated_turn # current_turn
      BY <1>1, <1>3, <2>4 DEF ObserveWorkspace, Workspace
    <3> QED BY <1>2, <1>3, <1>8, <2>1, <2>2, <2>4, <3>1 DEF EvidenceDatesWorkspace
  <2> QED BY <2>3, <2>4
<1>12. ses'.last_turn_continuation = ses.last_turn_continuation
  BY <1>1, <1>3 DEF note_tool_execution, RuntimeSessionState
<1>13. turn'.other_called /\ turn'.parse_error = turn.parse_error
  BY <1>2, <1>3, <1>4 DEF RuntimeTurnState
<1>14. ~turn.parse_error
  BY <1>2 DEF LoopInvariant, TurnPosition
<1>15. TurnPosition'
  BY <1>2, <1>8, <1>12, <1>13, <1>14 DEF LoopInvariant, TurnPosition
<1>16. FinishTurnFrozen' /\ BudgetsHeld' /\ FinishAnswerStands'
  BY <1>2, <1>13 DEF FinishTurnFrozen, BudgetsHeld, FinishAnswerStands
<1>17. OutcomeConsistent' /\ CompletionGate'
  BY <1>2, <1>12 DEF LoopInvariant, OutcomeConsistent, CompletionGate, NoOutcome, None
<1> QED BY <1>9, <1>10, <1>11, <1>15, <1>16, <1>17 DEF LoopInvariant

(* One finish call: only its answer is recorded.                           *)
LEMMA ExecuteFinishInvariant ==
  ASSUME LoopConstants, LoopInvariant, ExecuteFinish, TypeOK'
  PROVE  LoopInvariant'
<1>1. PICK answer \in FinishAnswers :
        turn' = [turn EXCEPT !.calls = Tail(@), !.finish_answer = answer]
  BY DEF ExecuteFinish
<1>2. /\ phase = "tool_dispatch"
      /\ turn.calls # <<>>
      /\ UNCHANGED <<task, phase, current_turn, rec, ses, outcome, workspace>>
  BY DEF ExecuteFinish
<1>3. turn \in RuntimeTurnState /\ turn.calls \in Seq(ToolNames)
  BY DEF LoopInvariant, TypeOK, RuntimeTurnState
<1>4. /\ turn'.other_called = turn.other_called
      /\ turn'.finish_called = turn.finish_called
      /\ turn'.parse_error = turn.parse_error
      /\ turn'.calls = Tail(turn.calls)
      /\ turn'.finish_answer = answer
  BY <1>1, <1>3 DEF RuntimeTurnState
<1>5. ~turn.parse_error
  BY <1>2 DEF LoopInvariant, TurnPosition
<1>6. TurnPosition'
  BY <1>2, <1>4, <1>5 DEF LoopInvariant, TurnPosition
<1>7. FinishTurnFrozen'
  <2>1. CASE turn.other_called
    BY <1>4, <2>1 DEF FinishTurnFrozen
  <2>2. CASE ~turn.other_called
    <3>1. /\ \A i \in DOMAIN turn.calls : turn.calls[i] = "finish"
          /\ turn.finish_called
          /\ WithinBudgets(rec)
      BY <1>2, <2>2 DEF LoopInvariant, FinishTurnFrozen
    <3>2. \A i \in DOMAIN Tail(turn.calls) : Tail(turn.calls)[i] = "finish"
      BY <1>2, <1>3, <3>1
    <3>3. CompletionBlock' = CompletionBlock /\ WithinBudgets(rec)'
      BY <1>2, <3>1 DEF CompletionBlock, StopPolicyInput, WithinBudgets
    <3>4. /\ answer = "accepted" => CompletionBlock = None
          /\ answer = "blocked" => CompletionBlock # None
      BY DEF FinishAnswers
    <3> QED BY <1>4, <3>1, <3>2, <3>3, <3>4 DEF FinishTurnFrozen
  <2> QED BY <1>3, <2>1, <2>2
<1>8. RecoveryCoherent(rec, current_turn)' /\ EvidenceDatesWorkspace'
  BY <1>2 DEF LoopInvariant, RecoveryCoherent, HasIssue, EvidenceDatesWorkspace
<1>9. IssueCoherence'
  BY <1>2 DEF LoopInvariant, IssueCoherence, HasIssue
<1>10. BudgetsHeld' /\ FinishAnswerStands'
  BY <1>2 DEF BudgetsHeld, FinishAnswerStands
<1>11. OutcomeConsistent' /\ CompletionGate'
  BY <1>2 DEF LoopInvariant, OutcomeConsistent, CompletionGate, NoOutcome, None
<1> QED BY <1>6, <1>7, <1>8, <1>9, <1>10, <1>11 DEF LoopInvariant

(* An open gate means no pending issue and, for a task that requires it,   *)
(* evidence no older than the last mutation.                               *)
LEMMA GateOpen ==
  ASSUME TypeOK, CompletionBlock = None
  PROVE  /\ rec.pending_issue_kind = None
         /\ rec.requires_validation_evidence =>
              /\ rec.last_successful_validation_turn # NoTurn
              /\ ~(rec.last_mutation_turn > rec.last_successful_validation_turn)
<1>1. rec.pending_issue_kind \in PendingIssueKind \cup {None}
  BY DEF TypeOK, RuntimeRecoveryState
<1>2. rec.pending_issue_kind = None
  BY <1>1 DEF CompletionBlock, assess_completion_block, PendingIssueKind, RetryIssues, None
<1>3. /\ ~post_mutation_validation_pending(rec)
      /\ refresh_completion_evidence_status(rec) # "missing"
  BY DEF CompletionBlock, assess_completion_block, None
<1> QED BY <1>2, <1>3 DEF post_mutation_validation_pending, refresh_completion_evidence_status

(* A recovery state a decision may leave behind: the one the tool calls    *)
(* left, or that one with a deferral counted.                              *)
Carries(r) ==
  /\ r \in RuntimeRecoveryState
  /\ RecoveryCoherent(r, current_turn)
  /\ SameEvidence(r, rec)
  /\ KeepsIssue(r, rec)
  /\ r.last_mutation_turn = rec.last_mutation_turn
  /\ r.pending_issue_kind = rec.pending_issue_kind

(* The recovery state a stop decision carries over, with or without a      *)
(* deferral counted, is coherent and keeps the evidence and the issue.     *)
LEMMA CarriedStates ==
  ASSUME LoopConstants, LoopInvariant
  PROVE  Carries(rec) /\ Carries(Deferred)
<1>1. /\ rec \in RuntimeRecoveryState
      /\ current_turn \in Nat
      /\ RecoveryCoherent(rec, current_turn)
  BY DEF LoopInvariant, TypeOK, LoopConstants
<1>2. Carries(rec)
  BY <1>1 DEF Carries, SameEvidence, KeepsIssue, None
<1>3. Carries(Deferred)
  BY <1>1, DeferralEffect DEF Carries, Deferred
<1> QED BY <1>2, <1>3

(* What every decision preserves, whether the session goes on or not.      *)
LEMMA DecisionKeeps ==
  ASSUME LoopConstants, LoopInvariant, TypeOK', Deciding,
         NEW code \in StopReason \cup ContinueCode, NEW r, Carries(r),
         RecordDecision(code, r), phase' # "tool_dispatch"
  PROVE  /\ RecoveryCoherent(rec, current_turn)'
         /\ EvidenceDatesWorkspace'
         /\ IssueCoherence'
         /\ current_turn \in Nat /\ current_turn > 0
         /\ ses'.last_turn_continuation =
              [turn_index |-> current_turn, decision_code |-> code,
               termination_kind |-> derive_termination_kind(code)]
         /\ UNCHANGED <<task, current_turn, turn, workspace>>
<1>1. /\ current_turn \in Nat
      /\ ses \in RuntimeSessionState
      /\ ses.last_turn_continuation.turn_index \in Nat
  BY DEF LoopInvariant, TypeOK, LoopConstants, RuntimeSessionState, TurnContinuationRecord
<1>2. current_turn > 0
  BY <1>1 DEF Deciding, LoopInvariant, TurnPosition
<1>3. /\ rec' = r
      /\ UNCHANGED <<task, current_turn, turn, workspace>>
      /\ ses' = sync_pending_issue_record(note_stop_decision(ses, code, current_turn),
                                          r, current_turn)
  BY DEF RecordDecision
<1>4. /\ ses'.active_pending_issue.kind = r.pending_issue_kind
      /\ ses'.last_turn_continuation =
           [turn_index |-> current_turn, decision_code |-> code,
            termination_kind |-> derive_termination_kind(code)]
  BY <1>1, <1>3, DecisionSession DEF Carries
<1>5. RecoveryCoherent(rec, current_turn)'
  BY <1>3 DEF Carries
<1>6. EvidenceDatesWorkspace'
  BY <1>3 DEF LoopInvariant, EvidenceDatesWorkspace, Carries, SameEvidence
<1>7. IssueCoherence'
  BY <1>3, <1>4, <1>5 DEF IssueCoherence, RecoveryCoherent, HasIssue, TypeOK, LoopConstants,
                          RuntimeRecoveryState, ValidationIssueRecord
<1> QED BY <1>1, <1>2, <1>3, <1>4, <1>5, <1>6, <1>7

(* A decision that stops the session.                                      *)
LEMMA StopInvariant ==
  ASSUME LoopConstants, LoopInvariant, TypeOK', Deciding,
         NEW reason \in StopReason, NEW r, Carries(r), StopTurn(reason, r),
         reason \in {"finish", "no_tool_calls"} => TurnsLeft /\ CompletionBlock = None,
         ~turn.other_called =>
           /\ turn.finish_answer = "accepted" => reason \in {"finish", "max_turns"}
           /\ turn.finish_answer = "blocked" => reason # "finish"
  PROVE  LoopInvariant'
<1>1. RecordDecision(reason, r) /\ outcome' = finalize_session(reason) /\ phase' = "returned"
  BY DEF StopTurn
<1>2. /\ RecoveryCoherent(rec, current_turn)'
      /\ EvidenceDatesWorkspace'
      /\ IssueCoherence'
      /\ current_turn \in Nat /\ current_turn > 0
      /\ ses'.last_turn_continuation =
           [turn_index |-> current_turn, decision_code |-> reason,
            termination_kind |-> derive_termination_kind(reason)]
      /\ UNCHANGED <<task, current_turn, turn, workspace>>
  BY <1>1, DecisionKeeps
<1>3. /\ outcome'.stop_reason = reason
      /\ outcome'.total_turns = current_turn
      /\ outcome'.session_stop_status = outcome'.final_status
      /\ outcome'.session_termination_kind = derive_termination_kind(reason)
      /\ outcome'.final_status = "completed" <=> reason \in {"finish", "no_tool_calls"}
      /\ outcome'.final_status = "completed" <=>
           outcome'.session_termination_kind \in {"completed", "no_tool_calls"}
  BY <1>1, StopTaxonomies
<1>4. OutcomeConsistent'
  BY <1>1, <1>2, <1>3 DEF OutcomeConsistent
<1>5. FinishAnswerStands'
  BY <1>2, <1>3 DEF FinishAnswerStands
<1>6. TurnPosition'
  BY <1>1, <1>2 DEF LoopInvariant, TurnPosition
<1>7. FinishTurnFrozen' /\ BudgetsHeld'
  BY <1>1 DEF FinishTurnFrozen, BudgetsHeld
<1>8. CompletionGate'
  <2>1. SUFFICES ASSUME outcome'.final_status = "completed"
                 PROVE  /\ rec'.pending_issue_kind = None
                        /\ current_turn' < task'.max_turns
                        /\ task'.requires => /\ workspace'.validated_turn # NoTurn
                                             /\ ~workspace'.edited_later
    BY DEF CompletionGate
  <2>2. TurnsLeft /\ CompletionBlock = None /\ TypeOK
    BY <1>3, <2>1 DEF LoopInvariant
  <2>3. /\ rec.pending_issue_kind = None
        /\ rec.requires_validation_evidence =>
             /\ rec.last_successful_validation_turn # NoTurn
             /\ ~(rec.last_mutation_turn > rec.last_successful_validation_turn)
    BY <2>2, GateOpen
  <2>4. rec' = r
    BY <1>1 DEF RecordDecision
  <2>5. task.requires => workspace.validated_turn # NoTurn /\ ~workspace.edited_later
    BY <2>3 DEF LoopInvariant, EvidenceDatesWorkspace
  <2> QED BY <1>2, <2>2, <2>3, <2>4, <2>5 DEF Carries, TurnsLeft
<1> QED BY <1>2, <1>4, <1>5, <1>6, <1>7, <1>8 DEF LoopInvariant

(* A decision that lets the session go on.                                 *)
LEMMA ContinueInvariant ==
  ASSUME LoopConstants, LoopInvariant, TypeOK', Deciding,
         NEW code \in ContinueCode, NEW r, Carries(r), ContinueTurn(code, r), TurnsLeft,
         WithinBudgets(r), parse_error_is_recoverable(r),
         ~turn.other_called => turn.finish_answer # "accepted"
  PROVE  LoopInvariant'
<1>1. RecordDecision(code, r) /\ outcome' = outcome /\ phase' = "loop"
  BY DEF ContinueTurn
<1>2. /\ RecoveryCoherent(rec, current_turn)'
      /\ EvidenceDatesWorkspace'
      /\ IssueCoherence'
      /\ current_turn \in Nat /\ current_turn > 0
      /\ ses'.last_turn_continuation =
           [turn_index |-> current_turn, decision_code |-> code,
            termination_kind |-> derive_termination_kind(code)]
      /\ UNCHANGED <<task, current_turn, turn, workspace>>
  BY <1>1, DecisionKeeps
<1>3. derive_termination_kind(code) = None
  BY DEF derive_termination_kind, ContinueCode, StopReason, BudgetCode
<1>4. outcome' = NoOutcome
  BY <1>1 DEF Deciding, LoopInvariant, OutcomeConsistent
<1>5. OutcomeConsistent' /\ CompletionGate'
  BY <1>1, <1>2, <1>3, <1>4 DEF OutcomeConsistent, CompletionGate, NoOutcome, None
<1>6. FinishAnswerStands'
  BY <1>1, <1>2, <1>4 DEF FinishAnswerStands, NoOutcome, None
<1>7. TurnPosition'
  BY <1>1, <1>2 DEF LoopInvariant, TurnPosition, TurnsLeft
<1>8. FinishTurnFrozen'
  BY <1>1 DEF FinishTurnFrozen
<1>9. BudgetsHeld'
  BY <1>1 DEF BudgetsHeld, RecordDecision, WithinBudgets, parse_error_is_recoverable
<1> QED BY <1>2, <1>5, <1>6, <1>7, <1>8, <1>9 DEF LoopInvariant

(* Every rule of the stop policy.                                          *)
LEMMA DecideInvariant ==
  ASSUME LoopConstants, LoopInvariant, Decide, TypeOK'
  PROVE  LoopInvariant'
<1>1. /\ Carries(rec)
      /\ Carries(Deferred)
      /\ current_turn \in Nat
      /\ TypeOK
  BY CarriedStates DEF LoopInvariant, TypeOK, LoopConstants
<1>2. Deciding
  BY DEF Decide, StopOnBudget, StopOnMaxTurns, RetryParseError, StopOnParseError, FollowUp,
         Complete, DeferCompletion, StopOnDeferralBudget, CompletionRequested
<1>3. ~turn.other_called =>
        /\ WithinBudgets(rec)
        /\ turn.finish_answer = "accepted" => turn.finish_called /\ CompletionBlock = None
        /\ turn.finish_answer = "blocked" => CompletionBlock # None
  BY <1>2 DEF Deciding, LoopInvariant, FinishTurnFrozen
<1>4. IF turn.parse_error THEN turn.finish_answer = None
                          ELSE rec.consecutive_parse_error_turns = 0
  BY <1>2 DEF Deciding, LoopInvariant, TurnPosition
<1>5. BudgetLeft => WithinBudgets(rec)
  BY <1>1, SilentBudget DEF BudgetLeft, Carries
<1>6. WithinBudgets(rec) => BudgetLeft
  BY <1>1, BudgetSilent DEF BudgetLeft, Carries
<1>7. CASE StopOnBudget
  <2>1. validation_budget_exhaustion(rec) \in BudgetCode
    BY <1>7 DEF StopOnBudget, BudgetLeft, validation_budget_exhaustion, BudgetCode
  <2>2. /\ validation_budget_exhaustion(rec) \in StopReason
        /\ validation_budget_exhaustion(rec) \notin {"finish", "no_tool_calls"}
    BY <2>1 DEF StopReason, BudgetCode
  <2>3. turn.other_called
    BY <1>3, <1>6, <1>7 DEF StopOnBudget
  <2> QED BY <1>1, <1>2, <1>7, <2>2, <2>3, StopInvariant DEF StopOnBudget
<1>8. CASE StopOnMaxTurns
  <2>1. "max_turns" \in StopReason
    BY DEF StopReason
  <2> QED BY <1>1, <1>2, <1>8, <2>1, StopInvariant DEF StopOnMaxTurns
<1>9. CASE RetryParseError
  <2>1. "recoverable_parse_error" \in ContinueCode
    BY DEF ContinueCode
  <2>2. turn.finish_answer # "accepted"
    BY <1>4, <1>9 DEF RetryParseError, None
  <2> QED BY <1>1, <1>2, <1>5, <1>9, <2>1, <2>2, ContinueInvariant DEF RetryParseError
<1>10. CASE StopOnParseError
  <2>1. "parse_error" \in StopReason
    BY DEF StopReason
  <2>2. turn.finish_answer # "accepted" /\ turn.finish_answer # "blocked"
    BY <1>4, <1>10 DEF StopOnParseError, None
  <2> QED BY <1>1, <1>2, <1>10, <2>1, <2>2, StopInvariant DEF StopOnParseError
<1>11. CASE FollowUp
  <2>1. "continue_with_tool_calls" \in ContinueCode
    BY DEF ContinueCode
  <2>2. parse_error_is_recoverable(rec)
    BY <1>4, <1>11 DEF FollowUp, parse_error_is_recoverable, MaxConsecutiveParseErrorTurns
  <2> QED BY <1>1, <1>2, <1>5, <1>11, <2>1, <2>2, ContinueInvariant DEF FollowUp
<1>12. CASE Complete
  <2> DEFINE reason == IF turn.finish_called THEN "finish" ELSE "no_tool_calls"
  <2>1. reason \in StopReason
    BY DEF StopReason
  <2>2. /\ turn.finish_answer = "accepted" => reason = "finish"
        /\ turn.finish_answer # "blocked"
    BY <1>3, <1>12 DEF Complete, CompletionRequested
  <2> QED BY <1>1, <1>2, <1>12, <2>1, <2>2, StopInvariant DEF Complete, CompletionRequested
<1>13. CASE DeferCompletion
  <2>1. DeferralCode \in ContinueCode
    BY DEF ContinueCode, DeferralCode
  <2>2. WithinBudgets(Deferred)
    BY <1>1, <1>13, SilentBudget DEF DeferCompletion, Carries
  <2>3. parse_error_is_recoverable(Deferred)
    BY <1>1, <1>4, <1>13
    DEF DeferCompletion, CompletionRequested, Carries, SameEvidence,
        parse_error_is_recoverable, MaxConsecutiveParseErrorTurns
  <2>4. turn.finish_answer # "accepted"
    BY <1>3, <1>13 DEF DeferCompletion, CompletionRequested
  <2> QED BY <1>1, <1>2, <1>13, <2>1, <2>2, <2>3, <2>4, ContinueInvariant
          DEF DeferCompletion, CompletionRequested
<1>14. CASE StopOnDeferralBudget
  <2>1. validation_budget_exhaustion(Deferred) \in BudgetCode
    BY <1>14 DEF StopOnDeferralBudget, validation_budget_exhaustion, BudgetCode
  <2>2. /\ validation_budget_exhaustion(Deferred) \in StopReason
        /\ validation_budget_exhaustion(Deferred) \notin {"finish", "no_tool_calls"}
    BY <2>1 DEF StopReason, BudgetCode
  <2>3. turn.finish_answer # "accepted"
    BY <1>3, <1>14 DEF StopOnDeferralBudget, CompletionRequested
  <2> QED BY <1>1, <1>2, <1>14, <2>2, <2>3, StopInvariant DEF StopOnDeferralBudget
<1> QED BY <1>7, <1>8, <1>9, <1>10, <1>11, <1>12, <1>13, <1>14 DEF Decide

(* Every step preserves the loop invariant.                                *)
LEMMA NextInvariant ==
  ASSUME LoopConstants, LoopInvariant, [Next]_vars
  PROVE  LoopInvariant'
<1>1. TypeOK'
  BY NextType DEF LoopInvariant
<1>2. CASE UNCHANGED vars
  <2>1. CompletionBlock' = CompletionBlock
    BY <1>2 DEF vars, CompletionBlock, StopPolicyInput
  <2>2. (phase' = phase /\ turn' = turn /\ rec' = rec) /\ WithinBudgets(rec)' = WithinBudgets(rec)
    BY <1>2 DEF vars, WithinBudgets
  <2>3. FinishTurnFrozen'
    BY <2>1, <2>2 DEF LoopInvariant, FinishTurnFrozen
  <2>4. RecoveryCoherent(rec, current_turn)' /\ EvidenceDatesWorkspace' /\ TurnPosition'
    BY <1>2 DEF vars, LoopInvariant, RecoveryCoherent, HasIssue, EvidenceDatesWorkspace,
                TurnPosition
  <2>5. CompletionGate' /\ BudgetsHeld' /\ IssueCoherence'
    BY <1>2 DEF vars, LoopInvariant, CompletionGate, BudgetsHeld, WithinBudgets,
                parse_error_is_recoverable, IssueCoherence, HasIssue
  <2>6. FinishAnswerStands' /\ OutcomeConsistent'
    BY <1>2 DEF vars, LoopInvariant, FinishAnswerStands, OutcomeConsistent
  <2> QED BY <1>1, <2>3, <2>4, <2>5, <2>6 DEF LoopInvariant
<1> QED BY <1>1, <1>2, BeginTurnInvariant, NoTurnsLeftInvariant, ModelFailsInvariant,
           ModelRespondsInvariant, ExecuteToolCallInvariant, ExecuteFinishInvariant,
           DecideInvariant
        DEF Next, Terminating

-----------------------------------------------------------------------------
(* Theorems.                                                               *)

(* The loop invariant holds in every reachable state.                      *)
THEOREM LoopInvariantHolds == Spec => []LoopInvariant
<1>1. Init => LoopInvariant
  BY InitInvariant, LoopConstants
<1>2. LoopInvariant /\ [Next]_vars => LoopInvariant'
  BY NextInvariant, LoopConstants
<1> QED BY <1>1, <1>2, PTL DEF Spec

(* No session completes past the gate: a "completed" session has no        *)
(* pending issue, did not spend its turns, and, when the task requires     *)
(* evidence, was validated after every edit of an earlier turn.            *)
THEOREM CompletionIsGated == Spec => []CompletionGate
<1>1. LoopInvariant => CompletionGate
  BY DEF LoopInvariant
<1> QED BY <1>1, LoopInvariantHolds, PTL

(* The model is never asked again with a spent budget.                     *)
THEOREM BudgetsAreHeld == Spec => []BudgetsHeld
<1>1. LoopInvariant => BudgetsHeld
  BY DEF LoopInvariant
<1> QED BY <1>1, LoopInvariantHolds, PTL

(* Pending issue, active failure, validation issue and the session's       *)
(* mirror of them agree.                                                   *)
THEOREM IssuesAreCoherent == Spec => []IssueCoherence
<1>1. LoopInvariant => IssueCoherence
  BY DEF LoopInvariant
<1> QED BY <1>1, LoopInvariantHolds, PTL

(* The answer a finish call got is what the stop decision does.            *)
THEOREM FinishAnswersStand == Spec => []FinishAnswerStands
<1>1. LoopInvariant => FinishAnswerStands
  BY DEF LoopInvariant
<1> QED BY <1>1, LoopInvariantHolds, PTL

(* The advice, the coarse gate status and the assessment give the same     *)
(* answer in every well-formed state, whatever its dates are.              *)
LEMMA GatesAgree ==
  ASSUME TypeOK
  PROVE  GateAndAdviceAgree
<1>1. /\ rec.pending_issue_kind \in PendingIssueKind \cup {None}
      /\ rec.last_mutation_turn \in Nat
      /\ rec.last_successful_validation_turn \in Nat
      /\ rec.requires_validation_evidence \in BOOLEAN
  BY DEF TypeOK, RuntimeRecoveryState
<1>2. completion_gate_status(rec) = "open" <=> CompletionBlock \in ProgressReasons \cup {None}
  BY <1>1 DEF completion_gate_status, CompletionBlock, assess_completion_block,
       post_mutation_validation_pending, refresh_completion_evidence_status,
       ProgressReasons, PendingIssueKind, RetryIssues, None, NoTurn
<1>3. expected_next_step(rec) = "finish_allowed" <=> completion_gate_status(rec) = "open"
  BY <1>1 DEF completion_gate_status, expected_next_step, refresh_validation_phase,
       refresh_completion_evidence_status, PendingIssueKind, RetryIssues, None, NoTurn
<1> QED BY <1>2, <1>3 DEF GateAndAdviceAgree

(* The gate, its reported status and the advice agree in every session.    *)
THEOREM GatesAndAdviceAgree == Spec => []GateAndAdviceAgree
BY TypeCorrect, GatesAgree, PTL

(* The recorded outcome agrees with the last turn's record.                *)
THEOREM OutcomesAreConsistent == Spec => []OutcomeConsistent
<1>1. LoopInvariant => OutcomeConsistent
  BY DEF LoopInvariant
<1> QED BY <1>1, LoopInvariantHolds, PTL

(* A step keeps the validation issue open and the validation failure       *)
(* pending, or is one where a validation command passes.                   *)
LEMMA StepResolves ==
  ASSUME LoopConstants, LoopInvariant, [Next]_vars
  PROVE  \/ KeepsIssue(rec', rec)
         \/ workspace'.validated_turn = current_turn /\ workspace'.verdict = "passed"
<1>1. /\ current_turn \in Nat
      /\ rec \in RuntimeRecoveryState
      /\ RecoveryCoherent(rec, current_turn)
  BY DEF LoopInvariant, TypeOK, LoopConstants
<1>2. CASE rec' = rec
  BY <1>2 DEF KeepsIssue, None
<1>3. CASE ModelResponds
  BY <1>1, <1>3, ParseResultEffect DEF ModelResponds
<1>4. CASE ExecuteToolCall
  <2> DEFINE tool == Head(turn.calls)
  <2>1. PICK result \in ToolResults(tool) :
          /\ rec' = IF result.ok
                    THEN note_corrective_progress(
                           record_tool_result(rec, tool, result, current_turn), current_turn)
                    ELSE record_tool_result(rec, tool, result, current_turn)
          /\ workspace' = ObserveWorkspace(tool, result)
    BY <1>4 DEF ExecuteToolCall
  <2> HIDE DEF tool
  <2>2. result.ok \in BOOLEAN
    BY ToolResultsType DEF ToolResult
  <2> DEFINE recorded == record_tool_result(rec, tool, result, current_turn)
             passed == tool \in ValidationTools /\ result.ok
  <2>3. CASE passed
    BY <2>1, <2>3 DEF ObserveWorkspace
  <2>4. CASE ~passed
    <3>1. /\ recorded \in RuntimeRecoveryState
          /\ RecoveryCoherent(recorded, current_turn)
          /\ KeepsIssue(recorded, rec)
      BY <1>1, <2>2, <2>4, ToolResultType, ToolResultEffect
    <3>2. rec' = recorded \/ rec' = note_corrective_progress(recorded, current_turn)
      BY <2>1
    <3> HIDE DEF recorded
    <3> QED BY <1>1, <3>1, <3>2, CorrectiveProgressEffect DEF KeepsIssue, HasIssue
  <2> QED BY <2>3, <2>4
<1>5. CASE Decide
  <2>1. Decision(rec) \/ Decision(Deferred)
    BY <1>5, DecideIsDecision
  <2>2. rec' = rec \/ rec' = Deferred
    BY <2>1 DEF Decision, StopTurn, ContinueTurn, RecordDecision
  <2> QED BY <1>2, <2>2, CarriedStates DEF Carries
<1>6. BeginTurn \/ NoTurnsLeft \/ ModelFails \/ ExecuteFinish \/ UNCHANGED vars => rec' = rec
  BY DEF BeginTurn, NoTurnsLeft, ModelFails, ExecuteFinish, vars
<1> QED BY <1>2, <1>3, <1>4, <1>5, <1>6 DEF Next, Terminating

(* Only a passing validation resolves a validation issue or clears a       *)
(* pending validation failure.                                             *)
THEOREM ResolutionNeedsAPass == Spec => OnlyAPassResolves
<1>1. LoopInvariant /\ [Next]_vars =>
        [ \/ HasIssue(rec) /\ ~HasIssue(rec')
          \/ rec.pending_issue_kind = "validation_failure" /\ rec'.pending_issue_kind = None
          => workspace'.validated_turn = current_turn /\ workspace'.verdict = "passed" ]_vars
  BY StepResolves, LoopConstants DEF KeepsIssue
<1> QED BY <1>1, LoopInvariantHolds, PTL DEF Spec, OnlyAPassResolves

-----------------------------------------------------------------------------
(* A task runs the loop.                                                   *)

(* A step of a task is a step of the agent loop or leaves it alone.        *)
LEMMA TaskStepIsLoopStep ==
  ASSUME [TaskNext]_taskVars
  PROVE  [Next]_vars
<1>1. CASE SessionStep
  BY <1>1 DEF SessionStep, Next
<1>2. CASE PrepareWorkspace \/ SetupFails \/ run_verifier \/ ComputeReward
  BY <1>2 DEF PrepareWorkspace, SetupFails, run_verifier, ComputeReward, LoopUnchanged, vars
<1>3. CASE TaskReturned \/ UNCHANGED taskVars
  BY <1>3 DEF TaskReturned, taskVars, vars
<1> QED
  BY <1>1, <1>2, <1>3 DEF TaskNext

(* run_coding_task around the loop is a run of the loop: nothing that the  *)
(* setup, the verifier or the reward does is a step the loop could not     *)
(* take or does not see.                                                   *)
THEOREM TaskRunsTheLoop == TaskSpec => Spec
<1>1. TaskInit => Init
  BY DEF TaskInit
<1> QED
  BY <1>1, TaskStepIsLoopStep, PTL DEF TaskSpec, Spec

(* Within a task, too, a validation issue is resolved only in the step     *)
(* where a validation command passes.                                      *)
THEOREM TaskResolutionNeedsAPass == TaskSpec => OnlyAPassResolves
  BY TaskRunsTheLoop, ResolutionNeedsAPass

-----------------------------------------------------------------------------
(* The reward.                                                             *)

(* final_status says "completed" for exactly the sessions that the loop    *)
(* completed and whose tests passed.                                       *)
LEMMA FinalStatusCompleted ==
  ASSUME NEW status, NEW v
  PROVE  final_status(status, v) = "completed" <=> status = "completed" /\ v = "passed"
  BY DEF final_status, _status_from_verifier

(* RewardWithoutError never pays the full reward.                          *)
LEMMA RewardWithoutErrorIsPart ==
  ASSUME NEW v, NEW p
  PROVE  RewardWithoutError(v, p)[1] \in {0, 1, 5}
  BY DEF RewardWithoutError

(* Of the rules of compute_reward_details only the first pays in full.     *)
LEMMA FullRewardRule ==
  ASSUME NEW status, NEW reason, NEW error, NEW v, NEW p
  PROVE  compute_reward_details(status, reason, error, v, p)[1] = 10
         <=> status = "completed" /\ v = "passed"
<1> DEFINE reward == compute_reward_details(status, reason, error, v, p)
<1>1. CASE status = "completed" /\ v = "passed"
  BY <1>1 DEF compute_reward_details
<1>2. CASE ~(status = "completed" /\ v = "passed")
  <2>1. reward[1] \in {-5, -2, 0, 1, 5}
    BY <1>2, RewardWithoutErrorIsPart DEF compute_reward_details
  <2> QED
    BY <1>2, <2>1
<1> QED
  BY <1>1, <1>2

-----------------------------------------------------------------------------
(* The inductive invariant.                                                *)

(* A task that is still being set up, or that failed there, has no         *)
(* outcome of the loop; a reward is the one of its outcome and verdict.    *)
TaskInvariant ==
  /\ LoopInvariant
  /\ stage = "setup" => outcome = NoOutcome
  /\ FullRewardIsEarned

(* Every step of a task preserves the loop's invariant.                    *)
LEMMA LoopKept ==
  ASSUME TaskInvariant, [TaskNext]_taskVars
  PROVE  LoopInvariant'
  BY TaskStepIsLoopStep, NextInvariant, LoopConstants DEF TaskInvariant

(* A task before its end has no reward to earn.                            *)
LEMMA NotDone ==
  ASSUME stage' \in {"session", "verified"}, LoopInvariant'
  PROVE  TaskInvariant'
  BY DEF TaskInvariant, FullRewardIsEarned, TaskDone

(* Paid in full is gated: what the loop completed passed its gate.         *)
LEMMA EarnedIsGated ==
  ASSUME CompletionGate, outcome.final_status = "completed"
  PROVE  /\ rec.pending_issue_kind = None
         /\ task.requires => workspace.validated_turn # NoTurn /\ ~workspace.edited_later
  BY DEF CompletionGate

(* Every step of a task preserves the invariant.                           *)
LEMMA TaskStepInvariant ==
  ASSUME TaskInvariant, [TaskNext]_taskVars
  PROVE  TaskInvariant'
<1>0. LoopInvariant'
  BY LoopKept
<1>1. CASE PrepareWorkspace
  BY <1>0, <1>1, NotDone DEF PrepareWorkspace
<1>2. CASE SetupFails
  <2>1. outcome' = outcome /\ outcome.final_status # "completed"
    BY <1>2 DEF SetupFails, LoopUnchanged, TaskInvariant, NoOutcome, None
  <2>2. trajectory'.reward = -2 /\ trajectory'.status = "error" /\ stage' = "returned"
    BY <1>2 DEF SetupFails
  <2> QED
    BY <1>0, <2>1, <2>2 DEF TaskInvariant, FullRewardIsEarned, TaskDone
<1>3. CASE SessionStep
  BY <1>0, <1>3, NotDone DEF SessionStep
<1>4. CASE run_verifier
  BY <1>0, <1>4, NotDone DEF run_verifier
<1>5. CASE ComputeReward
  <2> DEFINE status == final_status(outcome.final_status, verify)
             reward == compute_reward_details(status, outcome.stop_reason, tool_error,
                                              verify, patch')
             earned == outcome.final_status = "completed" /\ verify = "passed"
  <2>1. trajectory'.status = status /\ trajectory'.reward = reward[1] /\ stage' = "returned"
    BY <1>5 DEF ComputeReward
  <2>2. status = "completed" <=> earned
    BY FinalStatusCompleted
  <2>3. reward[1] = 10 <=> status = "completed" /\ verify = "passed"
    BY FullRewardRule
  <2>4. UNCHANGED <<outcome, rec, task, workspace, verify>>
    BY <1>5 DEF ComputeReward, LoopUnchanged
  <2>5. earned => /\ rec.pending_issue_kind = None
                  /\ task.requires => /\ workspace.validated_turn # NoTurn
                                      /\ ~workspace.edited_later
    BY EarnedIsGated DEF TaskInvariant, LoopInvariant
  <2> HIDE DEF status, reward
  <2>6. FullRewardIsEarned'
    BY <2>1, <2>2, <2>3, <2>4, <2>5 DEF FullRewardIsEarned, TaskDone
  <2> QED
    BY <1>0, <2>1, <2>6 DEF TaskInvariant
<1>6. CASE TaskReturned \/ UNCHANGED taskVars
  <2>1. UNCHANGED taskVars
    BY <1>6 DEF TaskReturned
  <2> QED
    BY <1>0, <2>1 DEF TaskInvariant, FullRewardIsEarned, TaskDone, taskVars
<1> QED
  BY <1>1, <1>2, <1>3, <1>4, <1>5, <1>6 DEF TaskNext

(* The invariant holds throughout every task.                              *)
THEOREM TaskInvariantHolds == TaskSpec => []TaskInvariant
<1>1. TaskInit => TaskInvariant
  BY InitInvariant, LoopConstants
     DEF TaskInit, TaskInvariant, Init, FullRewardIsEarned, TaskDone
<1> QED
  BY <1>1, TaskStepInvariant, PTL DEF TaskSpec

(* compute_reward_details pays the full reward for exactly the sessions    *)
(* that the loop completed through its gate and whose tests passed, and    *)
(* exactly those runs are "completed", whatever the model, the tools, the  *)
(* verifier and the workspace do.                                          *)
THEOREM FullRewardsAreEarned == TaskSpec => []FullRewardIsEarned
<1>1. TaskInvariant => FullRewardIsEarned
  BY DEF TaskInvariant
<1> QED
  BY <1>1, TaskInvariantHolds, PTL
=============================================================================
