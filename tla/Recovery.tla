------------------------------ MODULE Recovery ------------------------------
(***************************************************************************)
(* The recovery and validation policy of the agent loop                    *)
(* (pycodeagent/agent/recovery.py): the state RuntimeRecoveryState keeps   *)
(* across turns and the functions the runner applies to it.  Every         *)
(* operator takes the recovery state r before the call and returns the     *)
(* state after it (or the value the function returns).                     *)
(*                                                                         *)
(* Abstractions:                                                           *)
(*  - turns are numbered from 1, so NoTurn = 0 stands for Python's None;   *)
(*  - issue details, tool call ids and counters that are only reported     *)
(*    (parse_error_count, validation_failure_count) are left out;          *)
(*  - completion_evidence_status, validation_phase and                     *)
(*    post_mutation_validation_pending are caches that every reader        *)
(*    refreshes first: they are operators on the state they cache;         *)
(*  - a ToolResult is what the policy reads of it: ok (result.ok and not   *)
(*    result.is_error), the class of its error_type, and whether its       *)
(*    metadata has an exit_code.                                           *)
(***************************************************************************)
EXTENDS Integers

CONSTANTS
  MaxValidationAttempts,  \* ValidationPolicyConfig.max_validation_attempts_per_issue
  MaxRevisionAttempts,    \* ValidationPolicyConfig.max_revision_attempts_per_issue
  MaxFinishDeferrals      \* ValidationPolicyConfig.max_finish_deferrals_per_issue

ASSUME BudgetsAreNaturals ==
  /\ MaxValidationAttempts \in Nat
  /\ MaxRevisionAttempts \in Nat
  /\ MaxFinishDeferrals \in Nat

ValidationTools == {"python_run"}
MutationTools == {"write_file", "create_file", "apply_patch"}
MaxConsecutiveParseErrorTurns == 2

None == "none"
NoTurn == 0

PendingIssueKind == {"parse_error", "tool_failure", "validation_failure"}
RetryIssues == {"parse_error", "tool_failure"}

ValidationIssueKind ==
  { "validation_command_failed", "validation_command_nonzero_exit",
    "validation_timeout", "stale_validation_evidence",
    "finish_without_required_validation" }

(* error_type classes: "refused" is the set is_recoverable_tool_result      *)
(* excludes (command_policy, protected_path, missing_context, ...), "retry" *)
(* any member of _RECOVERABLE_RUNTIME_ERROR_TYPES or of the recoverable     *)
(* stages but "timeout", "other" any error of neither set.                  *)
ErrorClass == {None, "timeout", "retry", "refused", "other"}
ToolResult == [ok : BOOLEAN, error_type : ErrorClass, exit_code : BOOLEAN]

ValidationIssueRecord ==
  [ kind : ValidationIssueKind \cup {None}, opened_at_turn : Nat,
    validation_attempt_count : Nat, revision_attempt_count : Nat,
    finish_deferral_count : Nat ]

NoIssue ==
  [ kind |-> None, opened_at_turn |-> NoTurn, validation_attempt_count |-> 0,
    revision_attempt_count |-> 0, finish_deferral_count |-> 0 ]

RuntimeRecoveryState ==
  [ requires_validation_evidence : BOOLEAN,
    consecutive_parse_error_turns : Nat,
    pending_issue_kind : PendingIssueKind \cup {None},
    last_successful_validation_turn : Nat,
    last_validation_failure_turn : Nat,
    last_mutation_turn : Nat,
    last_revision_attempt_turn : Nat,
    last_finish_deferral_turn : Nat,
    active_validation_issue : ValidationIssueRecord,
    active_failure_kind : PendingIssueKind \cup {None},
    active_failure_turn : Nat,
    corrective_progress_after_failure : BOOLEAN ]

InitialRecoveryState(requires) ==
  [ requires_validation_evidence |-> requires,
    consecutive_parse_error_turns |-> 0,
    pending_issue_kind |-> None,
    last_successful_validation_turn |-> NoTurn,
    last_validation_failure_turn |-> NoTurn,
    last_mutation_turn |-> NoTurn,
    last_revision_attempt_turn |-> NoTurn,
    last_finish_deferral_turn |-> NoTurn,
    active_validation_issue |-> NoIssue,
    active_failure_kind |-> None,
    active_failure_turn |-> NoTurn,
    corrective_progress_after_failure |-> FALSE ]

HasIssue(r) == r.active_validation_issue.kind # None

-----------------------------------------------------------------------------
(* What the state says: evidence, phase, gate and advice.                  *)

refresh_completion_evidence_status(r) ==
  IF ~r.requires_validation_evidence THEN "not_required"
  ELSE IF r.last_successful_validation_turn = NoTurn THEN "missing"
  ELSE IF r.last_mutation_turn > r.last_successful_validation_turn THEN "stale"
  ELSE "validated"

post_mutation_validation_pending(r) ==
  LET status == refresh_completion_evidence_status(r) IN
  \/ status = "stale"
  \/ status = "missing" /\ r.last_mutation_turn # NoTurn

(* Mutant: a validation in the turn of the mutation does not count.        *)
Mut_refresh_validation_phase(r) ==
  IF r.pending_issue_kind = "validation_failure" THEN "validation_failed"
  ELSE IF /\ r.last_mutation_turn = NoTurn
          /\ r.last_successful_validation_turn = NoTurn THEN "idle"
  ELSE IF /\ r.last_successful_validation_turn # NoTurn
          /\ r.last_successful_validation_turn > r.last_mutation_turn
       THEN "validated"
  ELSE "mutated_unvalidated"

refresh_validation_phase(r) ==
  IF r.pending_issue_kind = "validation_failure" THEN "validation_failed"
  ELSE IF /\ r.last_mutation_turn = NoTurn
          /\ r.last_successful_validation_turn = NoTurn THEN "idle"
  ELSE IF /\ r.last_successful_validation_turn # NoTurn
          /\ r.last_successful_validation_turn >= r.last_mutation_turn
       THEN "validated"
  ELSE "mutated_unvalidated"

completion_gate_status(r) ==
  IF r.pending_issue_kind # None THEN "blocked_pending_issue"
  ELSE IF refresh_completion_evidence_status(r) \in {"missing", "stale"}
       THEN "blocked_missing_validation"
  ELSE "open"

expected_next_step(r) ==
  LET phase == refresh_validation_phase(r)
      open == completion_gate_status(r) = "open"
      revised == /\ r.last_revision_attempt_turn # NoTurn
                 /\ r.last_validation_failure_turn # NoTurn
                 /\ r.last_revision_attempt_turn > r.last_validation_failure_turn
  IN  IF r.pending_issue_kind \in RetryIssues THEN "retry_parse_or_tool"
      ELSE IF ~r.requires_validation_evidence /\ open THEN "finish_allowed"
      ELSE IF phase = "mutated_unvalidated" THEN "validate"
      ELSE IF phase = "validation_failed"
           THEN IF revised THEN "revalidate" ELSE "revise"
      ELSE IF open THEN "finish_allowed"
      ELSE None

-----------------------------------------------------------------------------
(* Failures, issues and their counters.                                    *)

note_active_failure(r, kind, turn) ==
  [r EXCEPT !.active_failure_kind = kind,
            !.active_failure_turn = turn,
            !.corrective_progress_after_failure = FALSE]

note_corrective_progress(r, turn) ==
  IF r.active_failure_kind # None /\ turn >= r.active_failure_turn
  THEN [r EXCEPT !.corrective_progress_after_failure = TRUE]
  ELSE r

clear_active_failure(r) ==
  [r EXCEPT !.active_failure_kind = None,
            !.active_failure_turn = NoTurn,
            !.corrective_progress_after_failure = FALSE]

(* A new issue replaces an active one of another kind, counters and all.   *)
open_or_update_validation_issue(r, kind, turn, attempts) ==
  LET issue == r.active_validation_issue IN
  IF issue.kind # kind
  THEN [r EXCEPT !.active_validation_issue =
          [NoIssue EXCEPT !.kind = kind,
                          !.opened_at_turn = turn,
                          !.validation_attempt_count = attempts]]
  ELSE [r EXCEPT !.active_validation_issue =
          [issue EXCEPT !.validation_attempt_count = @ + attempts]]

resolve_active_validation_issue(r) ==
  [r EXCEPT !.active_validation_issue = NoIssue]

(* At most one revision and one deferral are counted per turn.             *)
note_revision_attempt(r, turn) ==
  IF HasIssue(r) /\ r.last_revision_attempt_turn # turn
  THEN [r EXCEPT !.active_validation_issue.revision_attempt_count = @ + 1,
                 !.last_revision_attempt_turn = turn]
  ELSE r

note_finish_deferral(r, turn) ==
  IF HasIssue(r) /\ r.last_finish_deferral_turn # turn
  THEN [r EXCEPT !.active_validation_issue.finish_deferral_count = @ + 1,
                 !.last_finish_deferral_turn = turn]
  ELSE r

ensure_validation_issue_for_completion_block(r, turn) ==
  LET status == refresh_completion_evidence_status(r) IN
  IF HasIssue(r) \/ status \in {"not_required", "validated"} THEN r
  ELSE IF status = "stale"
  THEN open_or_update_validation_issue(r, "stale_validation_evidence", turn, 0)
  ELSE open_or_update_validation_issue(r, "finish_without_required_validation", turn, 0)

(* Mutant: one deferral too many is granted.                               *)
Mut_validation_budget_exhaustion(r) ==
  LET issue == r.active_validation_issue IN
  IF ~HasIssue(r) THEN None
  ELSE IF issue.validation_attempt_count > MaxValidationAttempts
       THEN "validation_budget_exhausted"
  ELSE IF issue.revision_attempt_count > MaxRevisionAttempts
       THEN "revision_budget_exhausted"
  ELSE IF issue.finish_deferral_count > MaxFinishDeferrals + 1
       THEN "finish_deferral_budget_exhausted"
  ELSE None

validation_budget_exhaustion(r) ==
  LET issue == r.active_validation_issue IN
  IF ~HasIssue(r) THEN None
  ELSE IF issue.validation_attempt_count > MaxValidationAttempts
       THEN "validation_budget_exhausted"
  ELSE IF issue.revision_attempt_count > MaxRevisionAttempts
       THEN "revision_budget_exhausted"
  ELSE IF issue.finish_deferral_count > MaxFinishDeferrals
       THEN "finish_deferral_budget_exhausted"
  ELSE None

-----------------------------------------------------------------------------
(* What one parsed response and one tool result do to the state.           *)

parse_error_is_recoverable(r) ==
  r.consecutive_parse_error_turns < MaxConsecutiveParseErrorTurns

(* The native parser drops every tool call of a response with a protocol   *)
(* error, so parse errors always come without tool calls.                  *)
record_parse_result(r, parse_error, turn) ==
  IF parse_error
  THEN [note_active_failure(r, "parse_error", turn) EXCEPT
          !.consecutive_parse_error_turns = @ + 1,
          !.pending_issue_kind = "parse_error"]
  ELSE [r EXCEPT
          !.consecutive_parse_error_turns = 0,
          !.pending_issue_kind = IF @ = "parse_error" THEN None ELSE @]

is_recoverable_tool_result(tool, result) ==
  /\ ~result.ok
  /\ result.error_type # "refused"
  /\ \/ tool \in ValidationTools /\ result.exit_code
     \/ result.error_type \in {"timeout", "retry"}

_classify_validation_issue(result) ==
  IF result.error_type = "timeout" THEN "validation_timeout"
  ELSE IF result.exit_code THEN "validation_command_nonzero_exit"
  ELSE "validation_command_failed"

(* Every call of a mutation tool counts, whether or not it succeeded.      *)
NoteMutationCall(r, turn) ==
  note_corrective_progress(
    [note_revision_attempt(r, turn) EXCEPT !.last_mutation_turn = turn], turn)

ValidationPassed(r, turn) ==
  [clear_active_failure(resolve_active_validation_issue(r)) EXCEPT
     !.last_successful_validation_turn = turn,
     !.pending_issue_kind = None]

(* Mutant: any tool that succeeds clears any pending issue.                *)
Mut_OtherToolPassed(r, turn) ==
  [clear_active_failure(r) EXCEPT !.pending_issue_kind = None]

OtherToolPassed(r, turn) ==
  IF r.pending_issue_kind \in RetryIssues
  THEN [clear_active_failure(r) EXCEPT !.pending_issue_kind = None]
  ELSE note_corrective_progress(r, turn)

ValidationFailed(r, result, turn) ==
  open_or_update_validation_issue(
    [note_active_failure(r, "validation_failure", turn) EXCEPT
       !.last_validation_failure_turn = turn,
       !.pending_issue_kind = "validation_failure"],
    _classify_validation_issue(result), turn, 1)

OtherToolFailed(r, turn) ==
  [note_active_failure(r, "tool_failure", turn) EXCEPT
     !.pending_issue_kind = "tool_failure"]

record_tool_result(r, tool, result, turn) ==
  LET s == IF tool \in MutationTools THEN NoteMutationCall(r, turn) ELSE r
      validates == tool \in ValidationTools
  IN  IF tool = "finish" THEN r
      ELSE IF result.ok
           THEN IF validates THEN ValidationPassed(s, turn) ELSE OtherToolPassed(s, turn)
      ELSE IF ~is_recoverable_tool_result(tool, result) THEN s
      ELSE IF validates THEN ValidationFailed(s, result, turn)
      ELSE OtherToolFailed(s, turn)

-----------------------------------------------------------------------------
(* The completion gate.                                                    *)

EvidenceReasons == {"post_mutation_validation_pending", "missing_validation_evidence"}
ProgressReasons == {"no_corrective_progress_after_failure", "no_meaningful_progress"}

(* Mutant: only an unresolved validation failure counts as pending.        *)
Mut_assess_completion_block(r, p) ==
  LET status == refresh_completion_evidence_status(r)
      failing == r.active_failure_kind # None \/ p.recent_failure_kind # None
  IN  IF r.pending_issue_kind = "validation_failure" THEN "unresolved_validation_failure"
      ELSE IF post_mutation_validation_pending(r) THEN "post_mutation_validation_pending"
      ELSE IF failing /\ ~r.corrective_progress_after_failure /\ status = "validated"
           THEN "no_corrective_progress_after_failure"
      ELSE IF status = "missing" THEN "missing_validation_evidence"
      ELSE IF p.progress_gate_applicable /\ ~p.meaningful_progress_observed
           THEN "no_meaningful_progress"
      ELSE None

(* StopPolicyInputSnapshot: progress says whether meaningful progress was  *)
(* observed, gate whether the progress gate applies, recent is the failure *)
(* kind still in the two-turn window.                                      *)
assess_completion_block(r, p) ==
  LET status == refresh_completion_evidence_status(r)
      failing == r.active_failure_kind # None \/ p.recent_failure_kind # None
  IN  IF r.pending_issue_kind = "validation_failure" THEN "unresolved_validation_failure"
      ELSE IF r.pending_issue_kind \in RetryIssues THEN "recent_recoverable_failure"
      ELSE IF post_mutation_validation_pending(r) THEN "post_mutation_validation_pending"
      ELSE IF failing /\ ~r.corrective_progress_after_failure /\ status = "validated"
           THEN "no_corrective_progress_after_failure"
      ELSE IF status = "missing" THEN "missing_validation_evidence"
      ELSE IF p.progress_gate_applicable /\ ~p.meaningful_progress_observed
           THEN "no_meaningful_progress"
      ELSE None

-----------------------------------------------------------------------------
(* How the records of a failure relate at turn t: the pending issue is the *)
(* active failure, an unresolved validation failure has an issue opened no *)
(* later than the failure, a closed issue leaves no counters behind, and   *)
(* nothing is dated after t.                                               *)
RecoveryCoherent(r, t) ==
  /\ r.pending_issue_kind # None => r.active_failure_kind = r.pending_issue_kind
  /\ r.pending_issue_kind = "validation_failure" =>
       /\ HasIssue(r)
       /\ r.active_validation_issue.opened_at_turn <= r.last_validation_failure_turn
  /\ ~HasIssue(r) => r.active_validation_issue = NoIssue
  /\ r.active_validation_issue.opened_at_turn <= t
  /\ r.last_validation_failure_turn <= t
  /\ r.last_mutation_turn <= t
  /\ r.last_successful_validation_turn <= t
=============================================================================
