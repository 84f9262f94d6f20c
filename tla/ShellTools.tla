----------------------------- MODULE ShellTools -----------------------------
(***************************************************************************)
(* The shell tools of pycodeagent/tools/shell_runtimes.py on top of the    *)
(* shared executor: Claude's Bash, and Codex's exec_command and            *)
(* write_stdin.  A session of the agent has the tools of one family, which *)
(* share one executor, and is in at most one tool call at a time.          *)
(*                                                                         *)
(* Every request these tools make has a timeout: Bash coerces its own and  *)
(* exec_command keeps the default of ProcessExecRequest.  No tool asks for *)
(* a background task's status.  A ToolResult is what the model can tell    *)
(* apart: ok, the class of an error, and which of an exit code, a session  *)
(* id and a task id it is given.  Text, labels and metadata are left out.  *)
(***************************************************************************)
EXTENDS ProcessExec

VARIABLES
  family,   \* whose tools the session has: "claude" or "codex"
  reply     \* the last ToolResult, until the next call begins

shellVars == <<vars, family, reply>>

-----------------------------------------------------------------------------
(* Results.                                                                *)

NoReply == [cmd |-> None, ok |-> FALSE, error_type |-> None, shows |-> None]

Error(c, error_type) ==
  [cmd |-> c, ok |-> FALSE, error_type |-> error_type, shows |-> None]

(* _render_command_output: an exit code, or else a session id.             *)
Rendered(a) ==
  CASE a.exit_code # None -> "exit_code"
    [] a.kind = "session" -> "session_id"
    [] OTHER -> None

(* Mutant: a result without an exit code counts as a success.              *)
Mut_command_result(c, a) ==
  CASE a.kind = "spawn_error" -> Error(c, "execution")
    [] OTHER -> [ cmd |-> c, error_type |-> None, shows |-> Rendered(a),
                  ok |-> a.exit_code \in {None, "0"} ]

(* _command_result_to_tool_result, in the order of its returns.            *)
command_result_to_tool_result(c, a) ==
  CASE a.kind = "spawn_error" -> Error(c, "execution")
    [] a.kind = "timed_out" -> Error(c, "timeout")
    [] OTHER -> [ cmd |-> c, error_type |-> None, shows |-> Rendered(a),
                  ok |-> a.exit_code = "0" \/ a.kind = "session" ]

(* Any exception of the executor ends as an error result, ProcessExecError *)
(* and the PermissionError of a denied signal alike.                       *)
unexpected_runtime_error_result(c) == Error(c, "execution")

BackgroundStarted(c) ==
  [cmd |-> c, ok |-> TRUE, error_type |-> None, shows |-> "task_id"]

-----------------------------------------------------------------------------
(* Calls that are refused before the executor does anything: a timeout out *)
(* of 1..600000 ms; a workdir outside the workspace or not there; a        *)
(* session id that is no positive integer, or unknown; text for a session  *)
(* without a tty.                                                          *)
InvalidInput(f) ==
  IF f = "claude"
    THEN {"invalid_timeout"}
    ELSE {"invalid_session_id", "execution",
          "absolute_path", "workspace_escape", "not_found", "not_directory"}

RefuseCall ==
  /\ call = Idle
  /\ \E error_type \in InvalidInput(family) : reply' = Error(None, error_type)
  /\ UNCHANGED <<vars, family>>

(* The request of a started command, which always has a timeout.           *)
WithTimeout(c) == req'[c].timeout

ExecuteBash(c) ==
  /\ family = "claude"
  /\ RunForeground(c) /\ WithTimeout(c)
  /\ reply' = NoReply
  /\ UNCHANGED family

ExecuteBashInBackground(c) ==
  /\ family = "claude"
  /\ RunBackground(c) /\ WithTimeout(c)
  /\ reply' = BackgroundStarted(c)
  /\ UNCHANGED family

ExecuteCommand(c) ==
  /\ family = "codex"
  /\ StartSession(c) /\ WithTimeout(c)
  /\ reply' = NoReply
  /\ UNCHANGED family

StartFails(c) ==
  /\ SpawnFails(c)
  /\ reply' = command_result_to_tool_result(c, answer'[c])
  /\ UNCHANGED family

WriteStdin(c) ==
  /\ family = "codex"
  /\ WriteSessionStdin(c)
  /\ reply' = NoReply
  /\ UNCHANGED family

(* The executor's call goes on, returns a result, or raises: a signal was  *)
(* denied, or the text could not be written.                               *)
FinishCall(c) ==
  /\ CallSteps(c) \/ WriteSteps(c)
  /\ reply' = CASE call' # Idle -> reply
                [] call' = Idle /\ call.at \in {"stop", "write"} ->
                     unexpected_runtime_error_result(c)
                [] OTHER -> command_result_to_tool_result(c, answer'[c])
  /\ UNCHANGED family

-----------------------------------------------------------------------------
ShellInit == Init /\ family \in {"claude", "codex"} /\ reply = NoReply

ShellNext ==
  \/ RefuseCall
  \/ \E c \in Cmd :
       \/ ExecuteBash(c) \/ ExecuteBashInBackground(c)
       \/ ExecuteCommand(c) \/ WriteStdin(c)
       \/ StartFails(c) \/ FinishCall(c)
  \/ /\ \/ DeadlinePasses
        \/ \E c \in Cmd : Terminate(c) \/ WatchSteps(c) \/ TimeoutElapses(c) \/ Environment(c)
     /\ UNCHANGED <<family, reply>>

ShellSpec == ShellInit /\ [][ShellNext]_shellVars

-----------------------------------------------------------------------------
(* What the model reads in a result is so: ok with an exit code means that *)
(* the command ended by itself with code 0, and with a session or task id  *)
(* that the executor still knows it; a failure without an error class is   *)
(* the command's own exit code; a timeout error means that the timeout     *)
(* elapsed and that the session is gone, whichever of the watchers, the    *)
(* poll loop and the process came first                                    *)
(* (_command_result_to_tool_result, execute_bash, write_stdin).            *)
RepliesAreTrue ==
  LET c == reply.cmd
      OwnCode(codes) == c \in popen /\ os[c].sent = {} /\ os[c].status \in codes
  IN  c # None =>
        /\ reply.ok => CASE reply.shows = "exit_code" -> OwnCode({"0"})
                         [] reply.shows = "session_id" -> c \in live
                         [] reply.shows = "task_id" -> task[c].state # None
                         [] OTHER -> FALSE
        /\ ~reply.ok /\ reply.error_type = None => OwnCode(ExitCode \ {"0"})
        /\ reply.error_type = "timeout" => c \in elapsed /\ c \notin live

=============================================================================
