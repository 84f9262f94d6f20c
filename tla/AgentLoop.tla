----------------------------- MODULE AgentLoop ------------------------------
(***************************************************************************)
(* One session of the native-tools agent loop: run_agent_task in           *)
(* pycodeagent/agent/runner.py with the stop policy of agent/stopping.py   *)
(* and the session record of agent/turn_state.py.  The model, the tools    *)
(* and the workspace are the environment: a request may fail, a response   *)
(* may be malformed, and a tool may return any result its handler or the   *)
(* runtime's inspection can produce.                                       *)
(*                                                                         *)
(* One turn is: BeginTurn (the request is built), ModelFails or            *)
(* ModelResponds, one ExecuteToolCall or ExecuteFinish per requested call  *)
(* in order, then exactly one stop decision.  Prompts, payloads, context   *)
(* selection and trace emission are left out: the stop policy reads none   *)
(* of them.                                                                *)
(***************************************************************************)
EXTENDS Recovery, Sequences

CONSTANTS
  ToolNames,   \* the names a response may call, registered or not
  Registered,  \* the names the session's tool profile resolves
  MaxTurns,    \* bound on CodingTask.max_turns
  MaxCalls     \* bound on the tool calls of one response

ASSUME LoopConstants ==
  /\ Registered \subseteq ToolNames
  /\ None \notin ToolNames
  /\ MaxTurns \in Nat
  /\ MaxCalls \in Nat

VARIABLES
  task,          \* the CodingTask fields the loop reads
  phase,         \* where run_agent_task is
  current_turn,
  rec,           \* loop_state: RuntimeRecoveryState
  ses,           \* session_state: RuntimeSessionState
  turn,          \* the parsed response of this turn and what finish answered
  outcome,       \* session_state.session_outcome with trajectory.status
  workspace      \* history: what was validated, and what changed since

vars == <<task, phase, current_turn, rec, ses, turn, outcome, workspace>>

-----------------------------------------------------------------------------
(* State.                                                                  *)

Phase == {"loop", "request_built", "tool_dispatch", "returned"}
CallSequence == UNION {[1..n -> ToolNames] : n \in 0..MaxCalls}
FailureKind == {"parse_error", "protocol_error", "tool_failure", "validation_failure"}
FinishAnswer == {None, "accepted", "blocked", "rejected"}

BudgetCode == {"validation_budget_exhausted", "revision_budget_exhausted",
               "finish_deferral_budget_exhausted"}
StopReason == {"finish", "max_turns", "no_tool_calls", "parse_error", "llm_error"}
              \cup BudgetCode
ContinueCode == {"recoverable_parse_error", "continue_with_tool_calls",
                 "defer_finish_pending_issue", "defer_finish_missing_completion_evidence",
                 "defer_no_tool_calls_pending_issue",
                 "defer_no_tool_calls_missing_completion_evidence"}
RunStatus == {"completed", "failed", "error"}
TerminationKind == {"completed", "max_turns", "no_tool_calls", "parse_error",
                    "llm_error", "running"} \cup BudgetCode

PendingIssueRecord ==
  [kind : PendingIssueKind \cup {None}, issue_id : Nat, opened_at_turn : Nat]
NoPendingIssue == [kind |-> None, issue_id |-> NoTurn, opened_at_turn |-> NoTurn]

TurnContinuationRecord ==
  [ turn_index : Nat, decision_code : StopReason \cup ContinueCode \cup {None},
    termination_kind : TerminationKind \cup {None} ]
NoContinuation ==
  [turn_index |-> NoTurn, decision_code |-> None, termination_kind |-> None]

(* distinct_non_finish_tool_names is non-empty exactly when                *)
(* non_finish_tool_call_count > 0; the policy compares the number of       *)
(* successful calls with 1 only, so it saturates at 2.                     *)
RuntimeSessionState ==
  [ successful_non_finish_tool_call_count : 0..2,
    distinct_non_finish_tool_names : SUBSET ToolNames,
    saw_mutation_progress : BOOLEAN,
    saw_validation_progress : BOOLEAN,
    recent_failure_kind : FailureKind \cup {None},
    recent_failure_turn : Nat,
    active_pending_issue : PendingIssueRecord,
    last_turn_continuation : TurnContinuationRecord ]

InitialSessionState ==
  [ successful_non_finish_tool_call_count |-> 0,
    distinct_non_finish_tool_names |-> {},
    saw_mutation_progress |-> FALSE,
    saw_validation_progress |-> FALSE,
    recent_failure_kind |-> None,
    recent_failure_turn |-> NoTurn,
    active_pending_issue |-> NoPendingIssue,
    last_turn_continuation |-> NoContinuation ]

(* A response: the calls still to execute and whether it was malformed.    *)
RuntimeTurnState ==
  [ parse_error : BOOLEAN, calls : Seq(ToolNames), finish_called : BOOLEAN,
    other_called : BOOLEAN, finish_answer : FinishAnswer ]
NoResponse ==
  [ parse_error |-> FALSE, calls |-> <<>>, finish_called |-> FALSE,
    other_called |-> FALSE, finish_answer |-> None ]

SessionOutcomeRecord ==
  [ final_status : RunStatus \cup {None}, stop_reason : StopReason \cup {None},
    session_termination_kind : TerminationKind \cup {None},
    session_stop_status : RunStatus \cup {None}, total_turns : Nat ]
NoOutcome ==
  [ final_status |-> None, stop_reason |-> None, session_termination_kind |-> None,
    session_stop_status |-> None, total_turns |-> 0 ]

(* The workspace as it really is: the turn of the last validation that     *)
(* passed, whether an edit followed it in that turn or in a later one, and *)
(* what the last validation command that ran to its end answered.          *)
Workspace ==
  [ validated_turn : Nat, edited_same_turn : BOOLEAN, edited_later : BOOLEAN,
    verdict : {None, "passed", "failed"} ]
UntouchedWorkspace ==
  [validated_turn |-> NoTurn, edited_same_turn |-> FALSE, edited_later |-> FALSE,
   verdict |-> None]

-----------------------------------------------------------------------------
(* Tools: what the runtime can answer to a call.                           *)

Passed == [ok |-> TRUE, error_type |-> None, exit_code |-> FALSE]
Failed(class, exited) == [ok |-> FALSE, error_type |-> class, exit_code |-> exited]

(* inspect_call: an unknown name, a schema violation or a mapping error is *)
(* retryable; a canonical tool that is missing from the registry is not.   *)
InspectionFailures(tool) ==
  IF tool \notin Registered THEN {Failed("retry", FALSE)}
  ELSE {Failed("retry", FALSE), Failed("refused", FALSE)}

(* _invoke_handler: success, any class of error, a command that ran and    *)
(* exited non-zero, or a handler exception ("other").                      *)
HandlerResults == {Passed} \cup
  {Failed(class, exited) : class \in ErrorClass \ {None}, exited \in BOOLEAN}

ToolResults(tool) ==
  InspectionFailures(tool) \cup IF tool \in Registered THEN HandlerResults ELSE {}

ObserveWorkspace(tool, result) ==
  IF tool \in ValidationTools /\ result.ok
  THEN [validated_turn |-> current_turn, edited_same_turn |-> FALSE,
        edited_later |-> FALSE, verdict |-> "passed"]
  ELSE IF tool \in ValidationTools /\ result.exit_code /\ result.error_type # "refused"
  THEN [workspace EXCEPT !.verdict = "failed"]
  ELSE IF tool \in MutationTools /\ result.ok /\ workspace.validated_turn # NoTurn
  THEN IF workspace.validated_turn = current_turn
       THEN [workspace EXCEPT !.edited_same_turn = TRUE]
       ELSE [workspace EXCEPT !.edited_later = TRUE]
  ELSE workspace

-----------------------------------------------------------------------------
(* The session record.                                                     *)

note_protocol_or_parse_failure(s, t) ==
  [s EXCEPT !.recent_failure_kind = "protocol_error", !.recent_failure_turn = t]

note_tool_execution(s, tool, result, t) ==
  LET named == [s EXCEPT !.distinct_non_finish_tool_names = @ \cup {tool}] IN
  IF result.ok
  THEN [named EXCEPT
          !.successful_non_finish_tool_call_count = IF @ < 2 THEN @ + 1 ELSE @,
          !.saw_mutation_progress = @ \/ tool \in MutationTools,
          !.saw_validation_progress = @ \/ tool \in ValidationTools,
          !.recent_failure_kind = None,
          !.recent_failure_turn = NoTurn]
  ELSE [named EXCEPT
          !.recent_failure_kind = IF tool \in ValidationTools THEN "validation_failure"
                                                              ELSE "tool_failure",
          !.recent_failure_turn = t]

meaningful_progress(s) ==
  \/ s.saw_mutation_progress
  \/ s.saw_validation_progress
  \/ \E a, b \in s.distinct_non_finish_tool_names : a # b

RecentFailureWindow == 2

derive_stop_policy_input_snapshot(s, t) ==
  [ meaningful_progress_observed |-> meaningful_progress(s),
    progress_gate_applicable |->
      s.successful_non_finish_tool_call_count > 1 /\ ~meaningful_progress(s),
    recent_failure_kind |->
      IF t - s.recent_failure_turn <= RecentFailureWindow THEN s.recent_failure_kind
      ELSE None ]

(* The mirror keeps an old issue_id when the kind is unchanged and no      *)
(* validation issue is active.                                             *)
sync_pending_issue_record(s, r, t) ==
  LET active == s.active_pending_issue
      kind == r.pending_issue_kind
      id == r.active_validation_issue.opened_at_turn
  IN  [s EXCEPT !.active_pending_issue =
         IF kind = None THEN NoPendingIssue
         ELSE IF active.kind = kind
         THEN [active EXCEPT !.issue_id = IF id # NoTurn THEN id ELSE active.issue_id]
         ELSE [kind |-> kind, issue_id |-> id, opened_at_turn |-> t]]

(* Mutant: a final answer without calls is taken for a finish call.        *)
Mut_derive_termination_kind(code) ==
  IF code \in {"finish", "no_tool_calls"} THEN "completed"
  ELSE IF code \in StopReason THEN code
  ELSE None

derive_termination_kind(code) ==
  IF code = "finish" THEN "completed"
  ELSE IF code \in StopReason THEN code
  ELSE None

note_stop_decision(s, code, t) ==
  [s EXCEPT !.last_turn_continuation =
     [turn_index |-> t, decision_code |-> code,
      termination_kind |-> derive_termination_kind(code)]]

_termination_kind_from_stop_reason(reason) ==
  IF reason = "finish" THEN "completed"
  ELSE IF reason \in StopReason THEN reason
  ELSE "running"

_session_stop_status_from_final_status(status) ==
  IF status \in {"completed", "error"} THEN status ELSE "failed"

(* The status a stop leaves on the trajectory.                             *)
StatusOf(reason) ==
  IF reason \in {"parse_error", "llm_error"} THEN "error"
  ELSE IF reason \in {"finish", "no_tool_calls"} THEN "completed"
  ELSE "failed"

finalize_session(reason) ==
  [ final_status |-> StatusOf(reason), stop_reason |-> reason,
    session_termination_kind |-> _termination_kind_from_stop_reason(reason),
    session_stop_status |-> _session_stop_status_from_final_status(StatusOf(reason)),
    total_turns |-> current_turn ]

-----------------------------------------------------------------------------
(* The loop.                                                               *)

Init ==
  /\ task \in [max_turns : 0..MaxTurns, requires : BOOLEAN]
  /\ phase = "loop"
  /\ current_turn = 0
  /\ rec = InitialRecoveryState(task.requires)
  /\ ses = InitialSessionState
  /\ turn = NoResponse
  /\ outcome = NoOutcome
  /\ workspace = UntouchedWorkspace

(* Mutant: the loop's bound and the check behind it disagree by one.       *)
Mut_BeginTurn ==
  /\ phase = "loop"
  /\ current_turn + 1 < task.max_turns
  /\ phase' = "request_built"
  /\ current_turn' = current_turn + 1
  /\ turn' = NoResponse
  /\ UNCHANGED <<task, rec, ses, outcome, workspace>>

BeginTurn ==
  /\ phase = "loop"
  /\ current_turn < task.max_turns
  /\ phase' = "request_built"
  /\ current_turn' = current_turn + 1
  /\ turn' = NoResponse
  /\ UNCHANGED <<task, rec, ses, outcome, workspace>>

(* A task without turns: the loop body never runs.                         *)
NoTurnsLeft ==
  /\ phase = "loop"
  /\ current_turn >= task.max_turns
  /\ outcome' = finalize_session("max_turns")
  /\ phase' = "returned"
  /\ UNCHANGED <<task, current_turn, rec, ses, turn, workspace>>

(* client.generate raises: no stop decision is noted for the turn.         *)
ModelFails ==
  /\ phase = "request_built"
  /\ outcome' = finalize_session("llm_error")
  /\ phase' = "returned"
  /\ UNCHANGED <<task, current_turn, rec, ses, turn, workspace>>

ModelResponds ==
  \E calls \in CallSequence, parse_error \in BOOLEAN :
    /\ phase = "request_built"
    /\ parse_error => calls = <<>>
    /\ rec' = record_parse_result(rec, parse_error, current_turn)
    /\ ses' = IF parse_error THEN note_protocol_or_parse_failure(ses, current_turn) ELSE ses
    /\ turn' = [ parse_error |-> parse_error, calls |-> calls,
                 finish_called |-> \E i \in DOMAIN calls : calls[i] = "finish",
                 other_called |-> \E i \in DOMAIN calls : calls[i] # "finish",
                 finish_answer |-> None ]
    /\ phase' = "tool_dispatch"
    /\ UNCHANGED <<task, current_turn, outcome, workspace>>

StopPolicyInput == derive_stop_policy_input_snapshot(ses, current_turn)
CompletionBlock == assess_completion_block(rec, StopPolicyInput)

ExecuteToolCall ==
  /\ phase = "tool_dispatch"
  /\ turn.calls # <<>>
  /\ Head(turn.calls) # "finish"
  /\ LET tool == Head(turn.calls) IN
     \E result \in ToolResults(tool) :
       LET recorded == record_tool_result(rec, tool, result, current_turn) IN
       /\ rec' = IF result.ok THEN note_corrective_progress(recorded, current_turn)
                              ELSE recorded
       /\ ses' = note_tool_execution(ses, tool, result, current_turn)
       /\ workspace' = ObserveWorkspace(tool, result)
  /\ turn' = [turn EXCEPT !.calls = Tail(@)]
  /\ UNCHANGED <<task, phase, current_turn, outcome>>

(* Mutant: finish is answered from the coarse gate status, which knows     *)
(* nothing of the progress gate.                                           *)
Mut_FinishAnswers ==
  {"rejected"} \cup
  IF "finish" \notin Registered THEN {}
  ELSE IF completion_gate_status(rec) # "open" THEN {"blocked"} ELSE {"accepted"}

(* A finish call that passes inspection is answered by the completion gate *)
(* when the gate is shut (_make_blocked_finish_result), by the handler     *)
(* otherwise.                                                              *)
FinishAnswers ==
  {"rejected"} \cup
  IF "finish" \notin Registered THEN {}
  ELSE IF CompletionBlock # None THEN {"blocked"} ELSE {"accepted"}

ExecuteFinish ==
  /\ phase = "tool_dispatch"
  /\ turn.calls # <<>>
  /\ Head(turn.calls) = "finish"
  /\ \E answer \in FinishAnswers :
       turn' = [turn EXCEPT !.calls = Tail(@), !.finish_answer = answer]
  /\ UNCHANGED <<task, phase, current_turn, rec, ses, outcome, workspace>>

-----------------------------------------------------------------------------
(* should_stop: the first rule that applies decides the turn.              *)

(* note_stop_decision, sync_pending_issue_record, finalize_turn.           *)
RecordDecision(code, r) ==
  /\ rec' = r
  /\ ses' = sync_pending_issue_record(note_stop_decision(ses, code, current_turn),
                                      r, current_turn)
  /\ UNCHANGED <<task, current_turn, turn, workspace>>

StopTurn(reason, r) ==
  /\ RecordDecision(reason, r)
  /\ outcome' = finalize_session(reason)
  /\ phase' = "returned"

ContinueTurn(code, r) ==
  /\ RecordDecision(code, r)
  /\ phase' = "loop"
  /\ UNCHANGED outcome

Deciding == phase = "tool_dispatch" /\ turn.calls = <<>>
BudgetLeft == validation_budget_exhaustion(rec) = None
TurnsLeft == current_turn < task.max_turns

StopOnBudget ==
  /\ Deciding
  /\ ~BudgetLeft
  /\ StopTurn(validation_budget_exhaustion(rec), rec)

StopOnMaxTurns ==
  /\ Deciding
  /\ BudgetLeft
  /\ ~TurnsLeft
  /\ StopTurn("max_turns", rec)

RetryParseError ==
  /\ Deciding
  /\ BudgetLeft
  /\ TurnsLeft
  /\ turn.parse_error
  /\ parse_error_is_recoverable(rec)
  /\ ContinueTurn("recoverable_parse_error", rec)

StopOnParseError ==
  /\ Deciding
  /\ BudgetLeft
  /\ TurnsLeft
  /\ turn.parse_error
  /\ ~parse_error_is_recoverable(rec)
  /\ StopTurn("parse_error", rec)

FollowUp ==
  /\ Deciding
  /\ BudgetLeft
  /\ TurnsLeft
  /\ ~turn.parse_error
  /\ turn.other_called
  /\ ContinueTurn("continue_with_tool_calls", rec)

(* finish called alone, or a response without calls: the gate decides.     *)
CompletionRequested ==
  /\ Deciding
  /\ BudgetLeft
  /\ TurnsLeft
  /\ ~turn.parse_error
  /\ ~turn.other_called

Complete ==
  /\ CompletionRequested
  /\ CompletionBlock = None
  /\ StopTurn(IF turn.finish_called THEN "finish" ELSE "no_tool_calls", rec)

DeferralCode ==
  LET evidence == CompletionBlock \in EvidenceReasons IN
  IF turn.finish_called
  THEN IF evidence THEN "defer_finish_missing_completion_evidence"
                   ELSE "defer_finish_pending_issue"
  ELSE IF evidence THEN "defer_no_tool_calls_missing_completion_evidence"
                   ELSE "defer_no_tool_calls_pending_issue"

Deferred ==
  note_finish_deferral(
    ensure_validation_issue_for_completion_block(rec, current_turn), current_turn)

DeferCompletion ==
  /\ CompletionRequested
  /\ CompletionBlock # None
  /\ validation_budget_exhaustion(Deferred) = None
  /\ ContinueTurn(DeferralCode, Deferred)

StopOnDeferralBudget ==
  /\ CompletionRequested
  /\ CompletionBlock # None
  /\ validation_budget_exhaustion(Deferred) # None
  /\ StopTurn(validation_budget_exhaustion(Deferred), Deferred)

Decide ==
  \/ StopOnBudget
  \/ StopOnMaxTurns
  \/ RetryParseError
  \/ StopOnParseError
  \/ FollowUp
  \/ Complete
  \/ DeferCompletion
  \/ StopOnDeferralBudget

Terminating == phase = "returned" /\ UNCHANGED vars

Next ==
  \/ BeginTurn
  \/ NoTurnsLeft
  \/ ModelFails
  \/ ModelResponds
  \/ ExecuteToolCall
  \/ ExecuteFinish
  \/ Decide
  \/ Terminating

Spec == Init /\ [][Next]_vars

-----------------------------------------------------------------------------
(* Properties.                                                             *)

TypeOK ==
  /\ task \in [max_turns : 0..MaxTurns, requires : BOOLEAN]
  /\ phase \in Phase
  /\ current_turn \in 0..MaxTurns
  /\ rec \in RuntimeRecoveryState
  /\ ses \in RuntimeSessionState
  /\ turn \in RuntimeTurnState
  /\ outcome \in SessionOutcomeRecord
  /\ workspace \in Workspace

(* A session reports "completed" only with no recoverable issue pending,   *)
(* before its turn budget is spent and, for a task that requires runtime   *)
(* validation evidence, only after a validation command passed and no edit *)
(* succeeded in a later turn (the completion gate of assess_completion_    *)
(* block, asked once per turn, against what the tools really did).         *)
CompletionGate ==
  outcome.final_status = "completed" =>
    /\ rec.pending_issue_kind = None
    /\ current_turn < task.max_turns
    /\ task.requires => /\ workspace.validated_turn # NoTurn
                        /\ ~workspace.edited_later

WithinBudgets(r) ==
  LET issue == r.active_validation_issue IN
  /\ issue.validation_attempt_count <= MaxValidationAttempts
  /\ issue.revision_attempt_count <= MaxRevisionAttempts
  /\ issue.finish_deferral_count <= MaxFinishDeferrals

(* The loop never asks the model again with a spent budget: at its head    *)
(* every counter of the active validation issue is within its limit and    *)
(* the response before was not the second malformed one in a row.  Within  *)
(* a turn several calls may exceed a limit.                                *)
BudgetsHeld ==
  phase \in {"loop", "request_built"} => WithinBudgets(rec) /\ parse_error_is_recoverable(rec)

(* The three records of "something failed" agree: the pending issue is     *)
(* the active failure, an unresolved validation failure always has a       *)
(* validation issue that counts its attempts, and the session's own copy   *)
(* of the pending kind is current whenever the loop turns over.            *)
IssueCoherence ==
  /\ rec.pending_issue_kind # None => rec.active_failure_kind = rec.pending_issue_kind
  /\ rec.pending_issue_kind = "validation_failure" =>
       /\ HasIssue(rec)
       /\ rec.last_validation_failure_turn \in
            rec.active_validation_issue.opened_at_turn..current_turn
  /\ phase # "tool_dispatch" =>
       ses.active_pending_issue.kind = rec.pending_issue_kind

(* What the model was told about finish is what happens: an accepted       *)
(* finish call without other calls ends the session (as completed, or as   *)
(* max_turns in the last turn), and a blocked one never completes it.      *)
FinishAnswerStands ==
  phase \in {"loop", "returned"} /\ ~turn.other_called =>
    /\ turn.finish_answer = "accepted" => outcome.stop_reason \in {"finish", "max_turns"}
    /\ turn.finish_answer = "blocked" => outcome.stop_reason # "finish"

(* Three functions answer "may the session finish now?" from different     *)
(* fields: the advice sent with every decision (expected_next_step, by way *)
(* of the validation phase), the coarse gate status the trace reports, and *)
(* the assessment that decides.  They agree but for the progress gate,     *)
(* which only the assessment knows.                                        *)
GateAndAdviceAgree ==
  /\ expected_next_step(rec) = "finish_allowed" <=> completion_gate_status(rec) = "open"
  /\ completion_gate_status(rec) = "open" <=> CompletionBlock \in ProgressReasons \cup {None}

(* The two taxonomies of a stop agree: the outcome finalize_session derives *)
(* from the stop reason is the one the last turn's continuation record     *)
(* derived from the decision code, a session that goes on never recorded a *)
(* termination, and only a failed request (or a task without turns) ends a *)
(* session without a decision for its last turn.                           *)
OutcomeConsistent ==
  LET last == ses.last_turn_continuation IN
  IF phase # "returned" THEN outcome = NoOutcome /\ last.termination_kind = None
  ELSE /\ outcome.total_turns = current_turn
       /\ outcome.session_stop_status = outcome.final_status
       /\ outcome.final_status = "completed" <=>
            outcome.session_termination_kind \in {"completed", "no_tool_calls"}
       /\ IF last.turn_index = current_turn /\ current_turn > 0
          THEN outcome.session_termination_kind = last.termination_kind
          ELSE outcome.stop_reason = IF task.max_turns = 0 THEN "max_turns" ELSE "llm_error"

(* A validation issue is resolved, and a pending validation failure        *)
(* cleared, in no step but the one where a validation command passes.      *)
OnlyAPassResolves ==
  [][ \/ HasIssue(rec) /\ ~HasIssue(rec')
      \/ rec.pending_issue_kind = "validation_failure" /\ rec'.pending_issue_kind = None
      => workspace'.validated_turn = current_turn /\ workspace'.verdict = "passed" ]_vars

(* docs/adr/0001: the flag "gates completion on observed validation        *)
(* evidence", which recovery.py calls stale once "the workspace changed    *)
(* after the last successful validation": a gated session completes with   *)
(* no edit after the validation that passed.                               *)
EvidenceIsFresh ==
  outcome.final_status = "completed" /\ task.requires =>
    ~workspace.edited_same_turn /\ ~workspace.edited_later

-----------------------------------------------------------------------------
(* The inductive invariant behind the properties above.                    *)

(* The dates the gate compares are those of what the tools really did: an  *)
(* edit in a later turn than the last validation is dated after it.        *)
EvidenceDatesWorkspace ==
  /\ rec.requires_validation_evidence = task.requires
  /\ workspace.validated_turn = rec.last_successful_validation_turn
  /\ workspace.edited_later => rec.last_mutation_turn > rec.last_successful_validation_turn

(* While the calls of a turn that only finishes are dispatched, nothing    *)
(* the stop policy reads changes, so the gate's answer to finish is the    *)
(* answer the stop decision will find.                                     *)
FinishTurnFrozen ==
  phase = "tool_dispatch" /\ ~turn.other_called =>
    /\ \A i \in DOMAIN turn.calls : turn.calls[i] = "finish"
    /\ turn.calls # <<>> => turn.finish_called
    /\ WithinBudgets(rec)
    /\ turn.finish_answer = "accepted" => turn.finish_called /\ CompletionBlock = None
    /\ turn.finish_answer = "blocked" => CompletionBlock # None

(* Where the loop is in its turn.                                          *)
TurnPosition ==
  LET last == ses.last_turn_continuation.turn_index IN
  /\ current_turn <= task.max_turns
  /\ phase = "loop" => last = current_turn /\ (current_turn > 0 => current_turn < task.max_turns)
  /\ phase \in {"request_built", "tool_dispatch"} => last = current_turn - 1
  /\ phase = "request_built" => turn = NoResponse
  /\ phase = "tool_dispatch" =>
       IF turn.parse_error THEN turn.calls = <<>> /\ turn.finish_answer = None
                           ELSE rec.consecutive_parse_error_turns = 0

LoopInvariant ==
  /\ TypeOK
  /\ RecoveryCoherent(rec, current_turn)
  /\ EvidenceDatesWorkspace
  /\ TurnPosition
  /\ FinishTurnFrozen
  /\ CompletionGate
  /\ BudgetsHeld
  /\ IssueCoherence
  /\ FinishAnswerStands
  /\ OutcomeConsistent
=============================================================================
