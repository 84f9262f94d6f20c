---------------------------- MODULE ProcessExec -----------------------------
(***************************************************************************)
(* SharedProcessExecutor of pycodeagent/tools/process_exec.py: the shell   *)
(* commands behind Claude's Bash (run_foreground, run_background) and      *)
(* Codex's exec_command and write_stdin (start_session,                    *)
(* write_session_stdin).                                                   *)
(*                                                                         *)
(* Three kinds of actors interleave: the runtime's thread, which is inside *)
(* at most one call at a time; one daemon watcher thread per background    *)
(* command; and the operating system, where a command's shell (the leader  *)
(* of its own process group) may exit, ignore SIGTERM, or leave a child    *)
(* behind at any moment.  Time is two kinds of events: a command's timeout *)
(* elapses, and the yield deadline of a session call passes.               *)
(*                                                                         *)
(* A pid is the command itself, so task and session ids are commands.      *)
(* Output is reduced to whether a pipe holds text no result has returned;  *)
(* truncation, decoding, environment and log files are left out.           *)
(***************************************************************************)

CONSTANTS
  Cmd,         \* the commands that may be started
  ExitCode,    \* the codes a shell may exit with by itself
  Unkillable   \* commands that run as another user: kill() is denied

ASSUME ExecConstants ==
  /\ Unkillable \subseteq Cmd
  /\ "none" \notin Cmd
  /\ ExitCode \cap {"none", "sigterm", "sigkill"} = {}

VARIABLES
  req,      \* the ProcessExecRequest of each command, and how it was started
  os,       \* the process group of each command
  elapsed,  \* commands whose timeout_ms has elapsed since the start
  popen,    \* commands whose Popen has a returncode (the leader was reaped)
  stop,     \* where _terminate_process_group is for each command
  call,     \* the call the runtime's thread is in
  live,     \* _live_sessions
  task,     \* _background_tasks
  answer    \* what the last returning call said of each command

vars == <<req, os, elapsed, popen, stop, call, live, task, answer>>

-----------------------------------------------------------------------------
(* State.                                                                  *)

None == "none"
Mode == {"foreground", "background", "session"}
Signalled == {"sigterm", "sigkill"}
Status == ExitCode \cup Signalled

Request == [mode : Mode \cup {None}, timeout : BOOLEAN]
NoRequest == [mode |-> None, timeout |-> FALSE]

(* A child either inherited the output pipes or redirected its output.     *)
Child == {None, "piped", "quiet"}
Group == [ leader : {None, "running", "exited"}, status : Status \cup {None},
           child : Child, sent : SUBSET Signalled,
           unread : BOOLEAN, lost : BOOLEAN ]
NoGroup == [ leader |-> None, status |-> None, child |-> None, sent |-> {},
             unread |-> FALSE, lost |-> FALSE ]

StopStep == {None, "check", "term", "grace", "kill", "reap", "done", "denied"}
BackgroundTaskState == {"running", "completed", "failed", "timed_out"}
BackgroundTaskRecord ==
  [state : BackgroundTaskState \cup {None}, exit_code : Status \cup {None}]
NoTask == [state |-> None, exit_code |-> None]

(* late is a history field: had the timeout elapsed when the call began?   *)
Idle == [cmd |-> None, at |-> "idle", due |-> FALSE, late |-> FALSE]
Call == [ cmd : Cmd \cup {None}, due : BOOLEAN, late : BOOLEAN,
          at : {"idle", "wait", "write", "check", "read", "poll", "stop", "drain"} ]

(* timed_out and session stand for the fields of ProcessExecResult that    *)
(* say so; a background command is answered with its record's state.       *)
AnswerKind == {None, "spawn_error", "exited", "timed_out", "session"}
              \cup BackgroundTaskState
Answer == [kind : AnswerKind, exit_code : Status \cup {None}]
NoAnswer == [kind |-> None, exit_code |-> None]

TypeOK ==
  /\ req \in [Cmd -> Request]
  /\ os \in [Cmd -> Group]
  /\ elapsed \subseteq Cmd
  /\ popen \subseteq Cmd
  /\ stop \in [Cmd -> StopStep]
  /\ call \in Call
  /\ live \subseteq Cmd
  /\ task \in [Cmd -> BackgroundTaskRecord]
  /\ answer \in [Cmd -> Answer]

Init ==
  /\ req = [c \in Cmd |-> NoRequest]
  /\ os = [c \in Cmd |-> NoGroup]
  /\ elapsed = {}
  /\ popen = {}
  /\ stop = [c \in Cmd |-> None]
  /\ call = Idle
  /\ live = {}
  /\ task = [c \in Cmd |-> NoTask]
  /\ answer = [c \in Cmd |-> NoAnswer]

Running(c) == os[c].leader = "running"
Exited(c) == os[c].leader = "exited"

(* communicate() returns once every pipe is closed and the leader exited.  *)
PipesClosed(c) == Exited(c) /\ os[c].child # "piped"

(* The runtime's thread is inside a call on c, at step s of it.            *)
At(c, s) == call.cmd = c /\ call.at = s
Goto(s) == call' = [call EXCEPT !.at = s]

Return(c, kind, code) ==
  /\ call' = Idle
  /\ answer' = [answer EXCEPT ![c] = [kind |-> kind, exit_code |-> code]]

-----------------------------------------------------------------------------
(* The operating system and time (external).                               *)

SetGroup(c, g) ==
  /\ os' = [os EXCEPT ![c] = g]
  /\ UNCHANGED <<req, elapsed, popen, stop, call, live, task, answer>>

LeaderExits(c) ==
  /\ Running(c)
  /\ \E code \in ExitCode :
        SetGroup(c, [os[c] EXCEPT !.leader = "exited", !.status = code])

LeaderDies(c) ==
  /\ Running(c)
  /\ \E s \in os[c].sent :
        SetGroup(c, [os[c] EXCEPT !.leader = "exited", !.status = s])

Forks(c) ==
  /\ Running(c)
  /\ os[c].child = None
  /\ \E k \in Child \ {None} : SetGroup(c, [os[c] EXCEPT !.child = k])

ChildEnds(c) ==
  /\ os[c].child # None
  /\ SetGroup(c, [os[c] EXCEPT !.child = None])

(* A call or a watcher still looks at c.  Output that is written, or a     *)
(* timeout that elapses, when none does is never read.                     *)
Observed(c) == call.cmd = c \/ c \in live \/ task[c].state = "running"

(* Background output goes to a log file, never to a pipe.                  *)
WritesOutput(c) ==
  /\ Running(c) \/ os[c].child = "piped"
  /\ ~os[c].unread
  /\ Observed(c)
  /\ req[c].mode # "background"
  /\ SetGroup(c, [os[c] EXCEPT !.unread = TRUE])

TimeoutElapses(c) ==
  /\ req[c].timeout
  /\ Observed(c)
  /\ c \notin elapsed
  /\ elapsed' = elapsed \cup {c}
  /\ UNCHANGED <<req, os, popen, stop, call, live, task, answer>>

DeadlinePasses ==
  /\ call.at \in {"check", "read", "poll"}
  /\ ~call.due
  /\ call' = [call EXCEPT !.due = TRUE]
  /\ UNCHANGED <<req, os, elapsed, popen, stop, live, task, answer>>

Environment(c) ==
  \/ LeaderExits(c) \/ LeaderDies(c)
  \/ Forks(c) \/ ChildEnds(c) \/ WritesOutput(c)

-----------------------------------------------------------------------------
(* _terminate_process_group, run by the runtime's thread or by c's watcher. *)

(* process.poll() first: a leader that has exited is not signalled.        *)
StopCheck(c) ==
  /\ stop[c] = "check"
  /\ stop' = [stop EXCEPT ![c] = IF Exited(c) THEN "done" ELSE "term"]
  /\ popen' = IF Exited(c) THEN popen \cup {c} ELSE popen
  /\ UNCHANGED <<req, os, elapsed, call, live, task, answer>>

(* killpg(), and terminate() or kill() when it is denied.  Popen's own     *)
(* send_signal skips a leader that has exited and raises otherwise.        *)
Signal(c, step, sig, next) ==
  /\ stop[c] = step
  /\ stop' = [stop EXCEPT ![c] =
                IF c \in Unkillable /\ Running(c) THEN "denied" ELSE next]
  /\ os' = [os EXCEPT ![c].sent =
                IF c \in Unkillable THEN @ ELSE @ \cup {sig}]
  /\ popen' = IF c \in Unkillable /\ Exited(c) THEN popen \cup {c} ELSE popen
  /\ UNCHANGED <<req, elapsed, call, live, task, answer>>

StopTerm(c) == Signal(c, "term", "sigterm", "grace")
StopKill(c) == Signal(c, "kill", "sigkill", "reap")

(* Mutant: no return after the first wait, so a reaped group is killed.    *)
Mut_StopReaps(c) ==
  /\ stop[c] \in {"grace", "reap"}
  /\ Exited(c)
  /\ popen' = popen \cup {c}
  /\ stop' = [stop EXCEPT ![c] = IF @ = "grace" THEN "kill" ELSE "done"]
  /\ UNCHANGED <<req, os, elapsed, call, live, task, answer>>

(* process.wait(timeout=1.0) after a signal: the leader is reaped, or the  *)
(* second passes first.                                                    *)
StopReaps(c) ==
  /\ stop[c] \in {"grace", "reap"}
  /\ Exited(c)
  /\ popen' = popen \cup {c}
  /\ stop' = [stop EXCEPT ![c] = "done"]
  /\ UNCHANGED <<req, os, elapsed, call, live, task, answer>>

(* Mutant: the wait after SIGKILL has no timeout.                          *)
Mut_StopWaitExpires(c) ==
  /\ stop[c] = "grace"
  /\ ~Exited(c)
  /\ stop' = [stop EXCEPT ![c] = "kill"]
  /\ UNCHANGED <<req, os, elapsed, popen, call, live, task, answer>>

StopWaitExpires(c) ==
  /\ stop[c] \in {"grace", "reap"}
  /\ ~Exited(c)
  /\ stop' = [stop EXCEPT ![c] = IF @ = "grace" THEN "kill" ELSE "done"]
  /\ UNCHANGED <<req, os, elapsed, popen, call, live, task, answer>>

Terminate(c) ==
  \/ StopCheck(c) \/ StopTerm(c) \/ StopKill(c)
  \/ StopReaps(c) \/ StopWaitExpires(c)

-----------------------------------------------------------------------------
(* Starting a command.                                                     *)

Spawn(c, mode, timeout) ==
  /\ call = Idle
  /\ os[c] = NoGroup
  /\ req' = [req EXCEPT ![c] = [mode |-> mode, timeout |-> timeout]]
  /\ os' = [os EXCEPT ![c].leader = "running"]

Enter(c, step) ==
  call' = [cmd |-> c, at |-> step, due |-> FALSE, late |-> c \in elapsed]

(* Popen raises OSError: nothing is registered.  Foreground and session    *)
(* calls return spawn_error; run_background raises and changes nothing.    *)
SpawnFails(c) ==
  /\ call = Idle
  /\ os[c] = NoGroup
  /\ Return(c, "spawn_error", None)
  /\ UNCHANGED <<req, os, elapsed, popen, stop, live, task>>

-----------------------------------------------------------------------------
(* run_foreground.                                                         *)

RunForeground(c) ==
  /\ \E timeout \in BOOLEAN : Spawn(c, "foreground", timeout)
  /\ Enter(c, "wait")
  /\ UNCHANGED <<elapsed, popen, stop, live, task, answer>>

ForegroundExits(c) ==
  /\ At(c, "wait")
  /\ PipesClosed(c)
  /\ popen' = popen \cup {c}
  /\ os' = [os EXCEPT ![c].unread = FALSE]
  /\ Return(c, "exited", os[c].status)
  /\ UNCHANGED <<req, elapsed, stop, live, task>>

ForegroundExpires(c) ==
  /\ At(c, "wait")
  /\ c \in elapsed
  /\ ~PipesClosed(c)
  /\ Goto("stop")
  /\ stop' = [stop EXCEPT ![c] = "check"]
  /\ UNCHANGED <<req, os, elapsed, popen, live, task, answer>>

(* _terminate_process_group returned: go on to drain the pipes.            *)
Stopped(c) ==
  /\ At(c, "stop")
  /\ stop[c] = "done"
  /\ Goto("drain")
  /\ UNCHANGED <<req, os, elapsed, popen, stop, live, task, answer>>

(* It raised PermissionError: the call raises, and a session stays         *)
(* registered.  A later call on that session enters it again.              *)
StopDenied(c) ==
  /\ At(c, "stop")
  /\ stop[c] = "denied"
  /\ stop' = [stop EXCEPT ![c] = None]
  /\ call' = Idle
  /\ UNCHANGED <<req, os, elapsed, popen, live, task, answer>>

(* Mutant: the session is never removed from _live_sessions.               *)
Mut_DrainAndReturn(c) ==
  /\ At(c, "drain")
  /\ os' = [os EXCEPT ![c].unread = FALSE,
                      ![c].lost = @ \/ (os[c].unread /\ ~PipesClosed(c))]
  /\ popen' = IF PipesClosed(c) THEN popen \cup {c} ELSE popen
  /\ IF stop[c] = "done" THEN Return(c, "timed_out", None)
                         ELSE Return(c, "exited", os[c].status)
  /\ UNCHANGED <<req, elapsed, stop, live, task>>

(* _drain_process_bytes: communicate(timeout=0.1) returns all that is left *)
(* of the output, or raises while someone still holds a pipe, and then     *)
(* what it had read is dropped.  It ends a foreground call that timed out, *)
(* and a session that timed out or exited.                                 *)
DrainAndReturn(c) ==
  /\ At(c, "drain")
  /\ os' = [os EXCEPT ![c].unread = FALSE,
                      ![c].lost = @ \/ (os[c].unread /\ ~PipesClosed(c))]
  /\ popen' = IF PipesClosed(c) THEN popen \cup {c} ELSE popen
  /\ live' = live \ {c}
  /\ IF stop[c] = "done" THEN Return(c, "timed_out", None)
                         ELSE Return(c, "exited", os[c].status)
  /\ UNCHANGED <<req, elapsed, stop, task>>

-----------------------------------------------------------------------------
(* start_session, write_session_stdin and _poll_live_session.              *)

StartSession(c) ==
  /\ \E timeout \in BOOLEAN : Spawn(c, "session", timeout)
  /\ live' = live \cup {c}
  /\ Enter(c, "check")
  /\ UNCHANGED <<elapsed, popen, stop, task, answer>>

(* An empty poll needs only the id; text is first written to the stdin of  *)
(* the process.  For an unknown session, or text for one without a tty,    *)
(* the call raises ProcessExecError before it changes anything: which      *)
(* sessions have a tty is left open, and any of them may be given text.    *)
WriteSessionStdin(c) ==
  /\ call = Idle
  /\ c \in live
  /\ \E step \in {"check", "write"} : Enter(c, step)
  /\ UNCHANGED <<req, os, elapsed, popen, stop, live, task, answer>>

(* stdin.write() on a blocking, unbuffered pipe: it returns when the pipe  *)
(* has room for the text, or someone who holds its other end reads it,     *)
(* which may be never.  No deadline and no timeout is looked at meanwhile. *)
StdinTaken(c) ==
  /\ At(c, "write")
  /\ Running(c) \/ os[c].child # None
  /\ Goto("check")
  /\ UNCHANGED <<req, os, elapsed, popen, stop, live, task, answer>>

(* BrokenPipeError or another OSError: the call raises ProcessExecError    *)
(* and the session stays registered.  A process may close its stdin at any *)
(* time, and the pipe is broken for certain once the whole group is gone.  *)
StdinFails(c) ==
  /\ At(c, "write")
  /\ call' = Idle
  /\ UNCHANGED <<req, os, elapsed, popen, stop, live, task, answer>>

StdinClosed(c) == Exited(c) /\ os[c].child = None

session_timed_out(c) == c \in elapsed

(* Mutant: the yield deadline is looked at before the timeout.             *)
Mut_PollCheck(c) ==
  /\ At(c, "check")
  /\ IF session_timed_out(c) /\ ~call.due
       THEN Goto("stop") /\ stop' = [stop EXCEPT ![c] = "check"]
       ELSE Goto("read") /\ UNCHANGED stop
  /\ UNCHANGED <<req, os, elapsed, popen, live, task, answer>>

PollCheck(c) ==
  /\ At(c, "check")
  /\ IF session_timed_out(c)
       THEN Goto("stop") /\ stop' = [stop EXCEPT ![c] = "check"]
       ELSE Goto("read") /\ UNCHANGED stop
  /\ UNCHANGED <<req, os, elapsed, popen, live, task, answer>>

(* _read_live_output_once: take what the pipes hold, or wait until the     *)
(* deadline for something to read.  After the deadline it is skipped.      *)
PollRead(c) ==
  /\ At(c, "read")
  /\ os' = [os EXCEPT ![c].unread = @ /\ call.due]
  /\ Goto("poll")
  /\ UNCHANGED <<req, elapsed, popen, stop, live, task, answer>>

PollExited(c) ==
  /\ At(c, "poll")
  /\ Exited(c)
  /\ popen' = popen \cup {c}
  /\ Goto("drain")
  /\ UNCHANGED <<req, os, elapsed, stop, live, task, answer>>


PollYields(c) ==
  /\ At(c, "poll")
  /\ ~Exited(c)
  /\ IF call.due
       THEN Return(c, "session", None)
       ELSE Goto("check") /\ UNCHANGED answer
  /\ UNCHANGED <<req, os, elapsed, popen, stop, live, task>>

-----------------------------------------------------------------------------
(* run_background, the watcher thread, get_background_status.              *)

RunBackground(c) ==
  /\ \E timeout \in BOOLEAN : Spawn(c, "background", timeout)
  /\ task' = [task EXCEPT ![c].state = "running"]
  /\ UNCHANGED <<elapsed, popen, stop, call, live, answer>>

(* The terminal state is stored exactly once.                              *)
finalize_background_task(c, state, exit_code) ==
  task' = [task EXCEPT ![c] =
             IF @.state # "running" THEN @
             ELSE [state |-> state, exit_code |-> exit_code]]

(* _watch_background_task: wait() returned the exit code.                  *)
WatchExits(c) ==
  /\ task[c].state = "running"
  /\ stop[c] = None
  /\ Exited(c)
  /\ popen' = popen \cup {c}
  /\ finalize_background_task(c, "completed", os[c].status)
  /\ UNCHANGED <<req, os, elapsed, stop, call, live, answer>>

WatchExpires(c) ==
  /\ task[c].state = "running"
  /\ stop[c] = None
  /\ c \in elapsed
  /\ ~Exited(c)
  /\ stop' = [stop EXCEPT ![c] = "check"]
  /\ UNCHANGED <<req, os, elapsed, popen, call, live, task, answer>>

WatchFinalizes(c) ==
  /\ task[c].state = "running"
  /\ stop[c] \in {"done", "denied"}
  /\ popen' = IF Exited(c) THEN popen \cup {c} ELSE popen
  /\ LET state == IF stop[c] = "done" THEN "timed_out" ELSE "failed"
     IN  finalize_background_task(c, state, os[c].status)
  /\ UNCHANGED <<req, os, elapsed, stop, call, live, answer>>

GetBackgroundStatus(c) ==
  /\ call = Idle
  /\ task[c].state # None
  /\ Return(c, task[c].state, task[c].exit_code)
  /\ UNCHANGED <<req, os, elapsed, popen, stop, live, task>>

-----------------------------------------------------------------------------
Starts(c) ==
  RunForeground(c) \/ RunBackground(c) \/ StartSession(c) \/ SpawnFails(c)

(* The steps a thread of the runtime takes by itself once it is in a call, *)
(* or once it watches a command.                                           *)
CallSteps(c) ==
  \/ ForegroundExits(c) \/ ForegroundExpires(c)
  \/ PollCheck(c) \/ PollRead(c) \/ PollExited(c) \/ PollYields(c)
  \/ Stopped(c) \/ StopDenied(c) \/ DrainAndReturn(c)

(* The write to a session's stdin, which ends when the process lets it.    *)
WriteSteps(c) == StdinTaken(c) \/ StdinFails(c)

WatchSteps(c) == WatchExits(c) \/ WatchExpires(c) \/ WatchFinalizes(c)

Next ==
  \/ DeadlinePasses
  \/ \E c \in Cmd :
       \/ Starts(c) \/ CallSteps(c) \/ WriteSteps(c) \/ Terminate(c) \/ WatchSteps(c)
       \/ WriteSessionStdin(c) \/ GetBackgroundStatus(c)
       \/ TimeoutElapses(c) \/ Environment(c)

Spec == Init /\ [][Next]_vars

(* Threads are scheduled and clocks advance, and a write to a pipe nobody  *)
(* holds fails; nothing is assumed of the commands, which may run, ignore  *)
(* signals, hold pipes and leave their stdin unread for ever.              *)
FairSpec ==
  /\ Spec
  /\ WF_vars(DeadlinePasses)
  /\ \A c \in Cmd : /\ WF_vars(CallSteps(c))
                     /\ WF_vars(StdinClosed(c) /\ StdinFails(c))
                     /\ WF_vars(Terminate(c))
                     /\ WF_vars(WatchSteps(c))
                     /\ WF_vars(TimeoutElapses(c))

-----------------------------------------------------------------------------
(* Properties.                                                             *)

(* Where an exit code is reported, in a result or in a task record, the    *)
(* leader exited with that code and was reaped.                            *)
ReportedExitIsReal ==
  \A c \in Cmd : \A r \in {answer[c].exit_code, task[c].exit_code} :
     r # None => c \in popen /\ os[c].status = r

OwnExit(c) ==
  answer[c].kind \in {"exited", "completed"} \/ task[c].state = "completed"

(* Exit codes are real, and a command reported as having exited or         *)
(* completed was never signalled: run_foreground, _poll_live_session and   *)
(* _watch_background_task pass off no death they caused as its own.        *)
ReportedExitIsOwn ==
  /\ ReportedExitIsReal
  /\ \A c \in Cmd :
       OwnExit(c) => c \in popen /\ os[c].sent = {} /\ os[c].status \in ExitCode

(* No command is signalled before its own timeout elapsed, whatever other  *)
(* commands, deadlines and late polls do: a session's yield deadline ends  *)
(* the call and never the command.                                         *)
OnlyTimeoutKills ==
  \A c \in Cmd : os[c].sent # {} => c \in elapsed /\ req[c].timeout

(* _terminate_process_group never signals a pid that was already reaped,   *)
(* which the system may have given to another process.                     *)
NoSignalAfterReap ==
  [][\A c \in Cmd : os'[c].sent # os[c].sent => c \notin popen]_vars

(* The session id the caller holds is the one the executor knows: between  *)
(* calls an id that was handed out is still registered, and a registered   *)
(* session was handed out, unless signalling it raised during the call.    *)
(* A failed write to its stdin leaves the session registered.              *)
SessionIdHonoured ==
  call = Idle =>
    \A c \in Cmd : /\ answer[c].kind = "session" => c \in live
                   /\ c \in live => answer[c].kind = "session" \/ c \in Unkillable

(* A session call that begins after the timeout never hands the session    *)
(* back: it reports the timeout, or raises.  So each session outlives its  *)
(* timeout by at most one call.                                            *)
LateCallEndsSession ==
  [][\A c \in Cmd : (At(c, "poll") /\ call' = Idle) => ~call.late]_vars

(* Every background task with a timeout reaches a terminal state, even if  *)
(* its processes ignore both signals or may not be signalled.              *)
BackgroundSettles ==
  \A c \in Cmd : (task[c].state = "running" /\ req[c].timeout)
                    ~> (task[c].state \in {"completed", "failed", "timed_out"})


(* What the design documents say of the executor, which the code does not  *)
(* do.  On timeout the process group is terminated rather than only the    *)
(* parent shell: a child that outlives a timeout was at least sent SIGKILL. *)
TimeoutEndsGroup ==
  \A c \in Cmd : "timed_out" \in {answer[c].kind, task[c].state}
     => os[c].child = None \/ "sigkill" \in os[c].sent

=============================================================================
