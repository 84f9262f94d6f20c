----------------------------- MODULE CodingTask -----------------------------
(***************************************************************************)
(* run_coding_task of pycodeagent/env/coding_env.py around the agent loop: *)
(* the workspace is prepared, the session of AgentLoop runs in it, the     *)
(* verifier (env/verifier.py) runs the task's tests, the final status is   *)
(* rewritten from its result, and the reward is computed from the status,  *)
(* the verifier's result, the patch and the tool errors of the session.    *)
(* The files that are written meanwhile are the subject of RunBundle.      *)
(*                                                                         *)
(* Rewards are in tenths.                                                  *)
(***************************************************************************)
EXTENDS AgentLoop, Integers

VARIABLES
  stage,       \* where run_coding_task is
  tool_error,  \* error_type of the session's most recent failed observation
  verify,      \* what became of the test command
  patch,       \* whether the workspace differs from the repository
  trajectory   \* status, reward, reward_reason and failure_reason

taskVars == <<task, phase, current_turn, rec, ses, turn, outcome, workspace,
              stage, tool_error, verify, patch, trajectory>>

-----------------------------------------------------------------------------
(* State.                                                                  *)

(* VerifyResult: passed, or the reason why not, which the code tells by    *)
(* the first words of stderr.                                              *)
VerifyResult ==
  {"passed", "failed", "timed_out", "execution_error", "invalid_command",
   "executable_not_found", "no_workspace"}

NoTrajectory == [status |-> None, reward |-> 0, reward_reason |-> None,
                 failure_reason |-> None]

TaskInit ==
  /\ Init
  /\ stage = "setup" /\ tool_error = None /\ verify = None /\ patch = FALSE
  /\ trajectory = NoTrajectory

-----------------------------------------------------------------------------
(* The reward.                                                             *)

_status_from_verifier(v) ==
  IF v = "passed" THEN "completed" ELSE IF v = "timed_out" THEN "timeout" ELSE "failed"

(* Mutant: the verifier's result replaces the status of every session.     *)
Mut_final_status(status, v) == _status_from_verifier(v)

(* The verifier decides only for a session that the loop completed.        *)
final_status(status, v) ==
  IF status = "completed" THEN _status_from_verifier(v) ELSE status

RewardWithoutError(v, p) ==
  IF v = "passed" THEN <<5, "verifier_passed_but_run_not_completed">>
  ELSE IF p THEN <<1, "verifier_failed_with_patch">>
  ELSE <<0, "no_effective_change">>

(* The first rule that applies decides.                                    *)
compute_reward_details(status, reason, error, v, p) ==
  CASE status = "completed" /\ v = "passed" -> <<10, "verifier_passed">>
    [] status = "timeout" \/ v = "timed_out" -> <<-5, "timeout">>
    [] OTHER ->
  CASE status # "completed" /\ error = "command_policy" -> <<-5, "forbidden_command">>
    [] status # "completed" /\ error = "timeout" -> <<-5, "tool_timeout">>
    [] OTHER ->
  CASE reason \in {"parse_error", "llm_error"} -> <<-2, reason>>
    [] status = "error" /\ error # None -> <<-2, "tool_error">>
    [] status = "error" /\ error = None ->
         <<-2, IF v = "execution_error" THEN "verifier_execution_error" ELSE "run_error">>
    [] OTHER -> RewardWithoutError(v, p)

-----------------------------------------------------------------------------
(* Steps.                                                                  *)

LoopUnchanged ==
  UNCHANGED <<task, phase, current_turn, rec, ses, turn, outcome, workspace>>

PrepareWorkspace ==
  /\ stage = "setup"
  /\ stage' = "session"
  /\ LoopUnchanged /\ UNCHANGED <<tool_error, verify, patch, trajectory>>

SetupFails ==
  /\ stage = "setup"
  /\ stage' = "returned"
  /\ trajectory' = [status |-> "error", reward |-> -2,
                    reward_reason |-> "setup_error", failure_reason |-> "setup_error"]
  /\ verify' = "failed"
  /\ LoopUnchanged /\ UNCHANGED <<tool_error, patch>>

(* _extract_tool_error_type looks at all observations of the session, the  *)
(* newest failure first; a later success does not hide it.  "refused"      *)
(* stands for command_policy among others.                                 *)
ErrorTypes(result) ==
  CASE result.error_type = "timeout" -> {"timeout"}
    [] result.error_type = "refused" -> {"command_policy", "other"}
    [] OTHER -> {"other"}

ObserveResult ==
  \E result \in ToolResults(Head(turn.calls)) :
    /\ ses' = note_tool_execution(ses, Head(turn.calls), result, current_turn)
    /\ LET recorded == record_tool_result(rec, Head(turn.calls), result, current_turn)
       IN rec' = IF result.ok THEN note_corrective_progress(recorded, current_turn)
                 ELSE recorded
    /\ tool_error' \in IF result.ok THEN {tool_error} ELSE ErrorTypes(result)

SessionStep ==
  /\ stage = "session"
  /\ \/ BeginTurn /\ UNCHANGED tool_error
     \/ NoTurnsLeft /\ UNCHANGED tool_error
     \/ ModelFails /\ UNCHANGED tool_error
     \/ ModelResponds /\ UNCHANGED tool_error
     \/ Decide /\ UNCHANGED tool_error
     \/ ExecuteToolCall /\ ObserveResult
     \/ /\ ExecuteFinish
        /\ tool_error' = IF turn'.finish_answer = "accepted" THEN tool_error ELSE "other"
  /\ UNCHANGED <<stage, verify, patch, trajectory>>

run_verifier ==
  /\ stage = "session" /\ phase = "returned"
  /\ verify' \in VerifyResult
  /\ stage' = "verified"
  /\ LoopUnchanged /\ UNCHANGED <<tool_error, patch, trajectory>>

(* compute_diff and the reward, from the rewritten status.                 *)
ComputeReward ==
  /\ stage = "verified"
  /\ patch' \in BOOLEAN
  /\ LET status == final_status(outcome.final_status, verify)
         reward == compute_reward_details(status, outcome.stop_reason, tool_error,
                                          verify, patch')
     IN trajectory' = [status |-> status, reward |-> reward[1],
                       reward_reason |-> reward[2],
                       failure_reason |-> IF status = "completed" THEN None ELSE reward[2]]
  /\ stage' = "returned"
  /\ LoopUnchanged /\ UNCHANGED <<tool_error, verify>>

TaskReturned == stage = "returned" /\ UNCHANGED taskVars

TaskNext ==
  \/ PrepareWorkspace
  \/ SetupFails
  \/ SessionStep
  \/ run_verifier
  \/ ComputeReward
  \/ TaskReturned

TaskSpec == TaskInit /\ [][TaskNext]_taskVars

(* generate returns or raises (the clients set request timeouts), every    *)
(* handler returns (commands run under a timeout) and so does the          *)
(* verifier: a task never stays at a step for ever.                        *)
FairTaskSpec == TaskSpec /\ WF_taskVars(TaskNext)

-----------------------------------------------------------------------------
(* Properties.                                                             *)

TaskDone == stage = "returned"

(* The full reward is paid exactly for a session that the loop completed   *)
(* through its gate and whose tests passed, and exactly such a run is      *)
(* "completed": the loop, the verifier and the reward agree.               *)
FullRewardIsEarned ==
  TaskDone =>
    /\ trajectory.reward = 10 <=> outcome.final_status = "completed" /\ verify = "passed"
    /\ trajectory.status = "completed" <=> trajectory.reward = 10
    /\ trajectory.reward = 10 =>
         /\ rec.pending_issue_kind = None
         /\ task.requires => workspace.validated_turn # NoTurn /\ ~workspace.edited_later

(* Whatever the model answers and the tools return, recoverable parse      *)
(* errors, deferred completions and follow-ups in any mix, the task ends   *)
(* with a reward (run_agent_task, run_coding_task).                        *)
TaskReturns == <>TaskDone

=============================================================================
