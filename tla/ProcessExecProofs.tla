------------------------- MODULE ProcessExecProofs --------------------------
(***************************************************************************)
(* Proofs about ProcessExec, and about ShellTools on top of it, for any    *)
(* number of commands.  The properties are not inductive: that a reaped    *)
(* pid is never signalled needs to know which thread owns a command at     *)
(* every step, and that no thread but the owner reaps it.  ExecInvariant   *)
(* adds exactly that.  The tools take only steps of the executor, so its   *)
(* invariant holds in them; ReplyFacts adds where the last result came     *)
(* from, which RepliesAreTrue then reads off the executor's state.         *)
(***************************************************************************)
EXTENDS ShellTools, TLAPS

-----------------------------------------------------------------------------
(* The inductive invariant.                                                *)

Signalling == {"check", "term", "grace", "kill", "reap"}
Polling == {"write", "check", "read", "poll"}

(* What the operating system keeps of a command, and what a Popen knows.   *)
ProcessFacts(c) ==
  /\ Exited(c) <=> os[c].status # None
  /\ os[c].leader = None => req[c] = NoRequest
  /\ os[c].status \in Signalled => os[c].status \in os[c].sent
  /\ c \in popen => Exited(c)
  /\ c \in elapsed => req[c].timeout

(* A group is signalled only on the way through _terminate_process_group,  *)
(* which only an elapsed timeout starts, and not once it was reaped.       *)
SignalFacts(c) ==
  /\ stop[c] # None => c \in elapsed
  /\ stop[c] \in {None, "check", "term", "denied"} => os[c].sent = {}
  /\ os[c].sent # {} => c \in elapsed
  /\ c \in Unkillable => os[c].sent = {}
  /\ stop[c] = "denied" => c \in Unkillable
  /\ stop[c] \in {"term", "kill"} => c \notin popen

(* One thread owns a command at a time: its watcher while the task runs,   *)
(* else the call that is in progress on it.                                *)
OwnerFacts(c) ==
  /\ (req[c].mode = "background") <=> (task[c].state # None)
  /\ task[c].state \in {None, "running"} => task[c].exit_code = None
  /\ call.cmd = c => req[c].mode \in {"foreground", "session"}
  /\ stop[c] \in Signalling => task[c].state = "running" \/ At(c, "stop")
  /\ (call.cmd = c /\ call.at \in Polling \cup {"wait"}) => stop[c] = None
  /\ At(c, "drain") => \/ stop[c] = "done"
                       \/ stop[c] = None /\ c \in popen
  /\ At(c, "wait") => req[c].mode = "foreground"

(* Sessions: registered while a call is in progress, and between calls     *)
(* exactly when the caller holds the id.                                   *)
SessionFacts(c) ==
  /\ c \in live => req[c].mode = "session"
  /\ answer[c].kind = "session" => req[c].mode = "session"
  /\ (call.cmd = c /\ req[c].mode = "session") => c \in live
  /\ (call.cmd = c /\ call.at \in Polling) => req[c].mode = "session"
  /\ At(c, "write") => answer[c].kind = "session" \/ c \in Unkillable
  /\ call.cmd # c => /\ answer[c].kind = "session" => c \in live
                     /\ c \in live =>
                          /\ stop[c] = None
                          /\ answer[c].kind = "session" \/ c \in Unkillable

CallFacts ==
  /\ call.cmd = None => call = Idle
  /\ call.at = "idle" => call.cmd = None
  /\ call.late => call.at \in {"write", "check", "stop", "drain"} /\ call.cmd \in elapsed

(* What was reported of a command.                                         *)
ReportFacts(c) ==
  /\ \A r \in {answer[c].exit_code, task[c].exit_code} :
       r # None => c \in popen /\ os[c].status = r
  /\ OwnExit(c) => c \in popen /\ os[c].sent = {}

CommandFacts(c) ==
  /\ ProcessFacts(c)
  /\ SignalFacts(c)
  /\ OwnerFacts(c)
  /\ SessionFacts(c)
  /\ ReportFacts(c)

ExecInvariant == TypeOK /\ CallFacts /\ \A c \in Cmd : CommandFacts(c)

-----------------------------------------------------------------------------
(* Preservation.  Each lemma says that one action keeps ExecInvariant;     *)
(* under it, the type, the call in progress, and the facts of any command  *)
(* d, which is the one that acts or another.                               *)

USE ExecConstants DEF None, Mode, Signalled, Status, Request, NoRequest, Child,
  NoGroup, StopStep, BackgroundTaskState, BackgroundTaskRecord, NoTask, Idle,
  Call, AnswerKind, Answer, NoAnswer

(* A process group stays one when a field is given a value of its type.   *)
LEMMA GroupFields ==
  ASSUME NEW g \in Group
  PROVE  /\ \A s \in Status : [g EXCEPT !.leader = "exited", !.status = s] \in Group
         /\ [g EXCEPT !.leader = "running"] \in Group
         /\ \A k \in Child : [g EXCEPT !.child = k] \in Group
         /\ \A x \in SUBSET Signalled : [g EXCEPT !.sent = x] \in Group
         /\ \A b \in BOOLEAN : [g EXCEPT !.unread = b] \in Group
         /\ \A b1, b2 \in BOOLEAN : [g EXCEPT !.unread = b1, !.lost = b2] \in Group
BY DEF Group

(* A call that returns leaves the runtime's thread idle, and an answer.    *)
LEMMA ReturnTyped ==
  ASSUME TypeOK, NEW c \in Cmd, NEW kind \in AnswerKind,
         NEW code \in Status \cup {None}, Return(c, kind, code)
  PROVE  call' \in Call /\ answer' \in [Cmd -> Answer]
<1>1. call' \in Call
  BY DEF Return
<1>2. [kind |-> kind, exit_code |-> code] \in Answer
  OBVIOUS
<1>3. answer' = [answer EXCEPT ![c] = [kind |-> kind, exit_code |-> code]]
  BY DEF Return
<1>4. answer' \in [Cmd -> Answer]
  BY <1>2, <1>3 DEF TypeOK
<1> QED  BY <1>1, <1>4

(* The operating system and time. *)

(* The shell exits by itself with some code.                               *)
LEMMA LeaderExitsStep ==
  ASSUME ExecInvariant, NEW c \in Cmd, LeaderExits(c)
  PROVE  ExecInvariant'
<1>1. TypeOK'
  <2>1. os[c] \in Group /\ os \in [Cmd -> Group]
    BY DEF ExecInvariant, TypeOK
  <2>2. PICK code \in ExitCode : os' = [os EXCEPT ![c] =
          [os[c] EXCEPT !.leader = "exited", !.status = code]]
    BY DEF LeaderExits, SetGroup
  <2>3. [os[c] EXCEPT !.leader = "exited", !.status = code] \in Group
    BY <2>1, GroupFields
  <2>4. os' \in [Cmd -> Group]
    BY <2>1, <2>2, <2>3
  <2> QED
    BY <2>4 DEF ExecInvariant, TypeOK, LeaderExits, SetGroup, Running
<1>2. CallFacts'
  BY DEF ExecInvariant, CommandFacts, TypeOK, CallFacts, ProcessFacts,
    LeaderExits, SetGroup, Running
<1>3. ASSUME NEW d \in Cmd PROVE CommandFacts(d)'
  BY DEF ExecInvariant, CommandFacts, TypeOK, Group, CallFacts, ProcessFacts,
    SignalFacts, OwnerFacts, SessionFacts, ReportFacts, OwnExit, Signalling,
    Polling, LeaderExits, SetGroup, Running, At, Exited
<1> QED  BY <1>1, <1>2, <1>3 DEF ExecInvariant

(* The shell dies of a signal its group was sent.                          *)
LEMMA LeaderDiesStep ==
  ASSUME ExecInvariant, NEW c \in Cmd, LeaderDies(c)
  PROVE  ExecInvariant'
<1>1. TypeOK'
  <2>1. os[c] \in Group /\ os \in [Cmd -> Group]
    BY DEF ExecInvariant, TypeOK
  <2>2. PICK s \in os[c].sent : os' = [os EXCEPT ![c] =
          [os[c] EXCEPT !.leader = "exited", !.status = s]]
    BY DEF LeaderDies, SetGroup
  <2>3. s \in Status
    BY <2>1, <2>2 DEF Group
  <2>4. [os[c] EXCEPT !.leader = "exited", !.status = s] \in Group
    BY <2>1, <2>3, GroupFields
  <2>5. os' \in [Cmd -> Group]
    BY <2>1, <2>2, <2>4
  <2> QED
    BY <2>5 DEF ExecInvariant, TypeOK, LeaderDies, SetGroup, Running
<1>2. CallFacts'
  BY DEF ExecInvariant, CommandFacts, TypeOK, CallFacts, ProcessFacts,
    LeaderDies, SetGroup, Running
<1>3. ASSUME NEW d \in Cmd PROVE CommandFacts(d)'
  BY DEF ExecInvariant, CommandFacts, TypeOK, Group, CallFacts, ProcessFacts,
    SignalFacts, OwnerFacts, SessionFacts, ReportFacts, OwnExit, Signalling,
    Polling, LeaderDies, SetGroup, Running, At, Exited
<1> QED  BY <1>1, <1>2, <1>3 DEF ExecInvariant

(* The shell starts a child.                                               *)
LEMMA ForksStep ==
  ASSUME ExecInvariant, NEW c \in Cmd, Forks(c)
  PROVE  ExecInvariant'
<1>1. TypeOK'
  <2>1. os[c] \in Group /\ os \in [Cmd -> Group]
    BY DEF ExecInvariant, TypeOK
  <2>2. PICK k \in Child : os' = [os EXCEPT ![c] =
          [os[c] EXCEPT !.child = k]]
    BY DEF Forks, SetGroup
  <2>3. [os[c] EXCEPT !.child = k] \in Group
    BY <2>1, GroupFields
  <2>4. os' \in [Cmd -> Group]
    BY <2>1, <2>2, <2>3
  <2> QED
    BY <2>4 DEF ExecInvariant, TypeOK, Forks, SetGroup, Running
<1>2. CallFacts'
  BY DEF ExecInvariant, CommandFacts, TypeOK, CallFacts, ProcessFacts, Forks,
    SetGroup, Running
<1>3. ASSUME NEW d \in Cmd PROVE CommandFacts(d)'
  BY DEF ExecInvariant, CommandFacts, TypeOK, Group, CallFacts, ProcessFacts,
    SignalFacts, OwnerFacts, SessionFacts, ReportFacts, OwnExit, Signalling,
    Polling, Forks, SetGroup, Running, At, Exited
<1> QED  BY <1>1, <1>2, <1>3 DEF ExecInvariant

(* A child ends.                                                           *)
LEMMA ChildEndsStep ==
  ASSUME ExecInvariant, NEW c \in Cmd, ChildEnds(c)
  PROVE  ExecInvariant'
<1>1. TypeOK'
  <2>1. os[c] \in Group /\ os \in [Cmd -> Group]
    BY DEF ExecInvariant, TypeOK
  <2>2. os' \in [Cmd -> Group]
    BY <2>1, GroupFields DEF ChildEnds, SetGroup
  <2> QED
    BY <2>2 DEF ExecInvariant, TypeOK, ChildEnds, SetGroup
<1>2. CallFacts'
  BY DEF ExecInvariant, CommandFacts, TypeOK, CallFacts, ProcessFacts,
    ChildEnds, SetGroup
<1>3. ASSUME NEW d \in Cmd PROVE CommandFacts(d)'
  BY DEF ExecInvariant, CommandFacts, TypeOK, Group, CallFacts, ProcessFacts,
    SignalFacts, OwnerFacts, SessionFacts, ReportFacts, OwnExit, Signalling,
    Polling, ChildEnds, SetGroup, At, Exited
<1> QED  BY <1>1, <1>2, <1>3 DEF ExecInvariant

(* Someone writes to the command's pipes.                                  *)
LEMMA WritesOutputStep ==
  ASSUME ExecInvariant, NEW c \in Cmd, WritesOutput(c)
  PROVE  ExecInvariant'
<1>1. TypeOK'
  <2>1. os[c] \in Group /\ os \in [Cmd -> Group]
    BY DEF ExecInvariant, TypeOK
  <2>2. os' \in [Cmd -> Group]
    BY <2>1, GroupFields DEF WritesOutput, SetGroup, Running, Observed
  <2> QED
    BY <2>2 DEF ExecInvariant, TypeOK, WritesOutput, SetGroup, Running,
      Observed
<1>2. CallFacts'
  BY DEF ExecInvariant, CommandFacts, TypeOK, CallFacts, ProcessFacts,
    WritesOutput, SetGroup, Running, Observed
<1>3. ASSUME NEW d \in Cmd PROVE CommandFacts(d)'
  BY DEF ExecInvariant, CommandFacts, TypeOK, Group, CallFacts, ProcessFacts,
    SignalFacts, OwnerFacts, SessionFacts, ReportFacts, OwnExit, Signalling,
    Polling, WritesOutput, SetGroup, Running, Observed, At, Exited
<1> QED  BY <1>1, <1>2, <1>3 DEF ExecInvariant

(* The command's timeout_ms elapses.                                       *)
LEMMA TimeoutElapsesStep ==
  ASSUME ExecInvariant, NEW c \in Cmd, TimeoutElapses(c)
  PROVE  ExecInvariant'
<1>1. TypeOK'
  BY DEF ExecInvariant, TypeOK, Group, TimeoutElapses, Observed
<1>2. CallFacts'
  BY DEF ExecInvariant, CommandFacts, TypeOK, CallFacts, ProcessFacts,
    TimeoutElapses, Observed
<1>3. ASSUME NEW d \in Cmd PROVE CommandFacts(d)'
  BY DEF ExecInvariant, CommandFacts, TypeOK, Group, CallFacts, ProcessFacts,
    SignalFacts, OwnerFacts, SessionFacts, ReportFacts, OwnExit, Signalling,
    Polling, TimeoutElapses, Observed, At, Exited
<1> QED  BY <1>1, <1>2, <1>3 DEF ExecInvariant

(* _terminate_process_group. *)

(* poll() before the first signal reaps a shell that has exited.           *)
LEMMA StopCheckStep ==
  ASSUME ExecInvariant, NEW c \in Cmd, StopCheck(c)
  PROVE  ExecInvariant'
<1>1. TypeOK'
  BY DEF ExecInvariant, TypeOK, Group, StopCheck, Exited
<1>2. CallFacts'
  BY DEF ExecInvariant, CommandFacts, TypeOK, CallFacts, ProcessFacts,
    StopCheck, Exited
<1>3. ASSUME NEW d \in Cmd PROVE CommandFacts(d)'
  BY DEF ExecInvariant, CommandFacts, TypeOK, Group, CallFacts, ProcessFacts,
    SignalFacts, OwnerFacts, SessionFacts, ReportFacts, OwnExit, Signalling,
    Polling, StopCheck, Exited, At
<1> QED  BY <1>1, <1>2, <1>3 DEF ExecInvariant

(* killpg(SIGTERM), to a group whose leader was not reaped.                *)
LEMMA StopTermStep ==
  ASSUME ExecInvariant, NEW c \in Cmd, StopTerm(c)
  PROVE  ExecInvariant'
<1>1. TypeOK'
  <2>1. os[c] \in Group /\ os \in [Cmd -> Group]
    BY DEF ExecInvariant, TypeOK
  <2>2. os[c].sent \in SUBSET Signalled
    BY <2>1 DEF Group
  <2>3. PICK x \in SUBSET Signalled : os' = [os EXCEPT ![c] =
          [os[c] EXCEPT !.sent = x]]
    BY <2>2 DEF StopTerm, Signal
  <2>4. [os[c] EXCEPT !.sent = x] \in Group
    BY <2>1, GroupFields
  <2>5. os' \in [Cmd -> Group]
    BY <2>1, <2>3, <2>4
  <2> QED
    BY <2>5 DEF ExecInvariant, TypeOK, StopTerm, Signal, Exited, Running
<1>2. CallFacts'
  BY DEF ExecInvariant, CommandFacts, TypeOK, CallFacts, ProcessFacts,
    StopTerm, Signal, Exited, Running
<1>3. ASSUME NEW d \in Cmd PROVE CommandFacts(d)'
  BY DEF ExecInvariant, CommandFacts, TypeOK, Group, CallFacts, ProcessFacts,
    SignalFacts, OwnerFacts, SessionFacts, ReportFacts, OwnExit, Signalling,
    Polling, StopTerm, Signal, Exited, Running, At
<1> QED  BY <1>1, <1>2, <1>3 DEF ExecInvariant

(* killpg(SIGKILL), to a group whose leader was not reaped.                *)
LEMMA StopKillStep ==
  ASSUME ExecInvariant, NEW c \in Cmd, StopKill(c)
  PROVE  ExecInvariant'
<1>1. TypeOK'
  <2>1. os[c] \in Group /\ os \in [Cmd -> Group]
    BY DEF ExecInvariant, TypeOK
  <2>2. os[c].sent \in SUBSET Signalled
    BY <2>1 DEF Group
  <2>3. PICK x \in SUBSET Signalled : os' = [os EXCEPT ![c] =
          [os[c] EXCEPT !.sent = x]]
    BY <2>2 DEF StopKill, Signal
  <2>4. [os[c] EXCEPT !.sent = x] \in Group
    BY <2>1, GroupFields
  <2>5. os' \in [Cmd -> Group]
    BY <2>1, <2>3, <2>4
  <2> QED
    BY <2>5 DEF ExecInvariant, TypeOK, StopKill, Signal, Exited, Running
<1>2. CallFacts'
  BY DEF ExecInvariant, CommandFacts, TypeOK, CallFacts, ProcessFacts,
    StopKill, Signal, Exited, Running
<1>3. ASSUME NEW d \in Cmd PROVE CommandFacts(d)'
  BY DEF ExecInvariant, CommandFacts, TypeOK, Group, CallFacts, ProcessFacts,
    SignalFacts, OwnerFacts, SessionFacts, ReportFacts, OwnExit, Signalling,
    Polling, StopKill, Signal, Exited, Running, At
<1> QED  BY <1>1, <1>2, <1>3 DEF ExecInvariant

(* wait() after a signal reaps the shell.                                  *)
LEMMA StopReapsStep ==
  ASSUME ExecInvariant, NEW c \in Cmd, StopReaps(c)
  PROVE  ExecInvariant'
<1>1. TypeOK'
  BY DEF ExecInvariant, TypeOK, Group, StopReaps, Exited
<1>2. CallFacts'
  BY DEF ExecInvariant, CommandFacts, TypeOK, CallFacts, ProcessFacts,
    StopReaps, Exited
<1>3. ASSUME NEW d \in Cmd PROVE CommandFacts(d)'
  BY DEF ExecInvariant, CommandFacts, TypeOK, Group, CallFacts, ProcessFacts,
    SignalFacts, OwnerFacts, SessionFacts, ReportFacts, OwnExit, Signalling,
    Polling, StopReaps, Exited, At
<1> QED  BY <1>1, <1>2, <1>3 DEF ExecInvariant

(* wait() after a signal expires.                                          *)
LEMMA StopWaitExpiresStep ==
  ASSUME ExecInvariant, NEW c \in Cmd, StopWaitExpires(c)
  PROVE  ExecInvariant'
<1>1. TypeOK'
  BY DEF ExecInvariant, TypeOK, Group, StopWaitExpires, Exited
<1>2. CallFacts'
  BY DEF ExecInvariant, CommandFacts, TypeOK, CallFacts, ProcessFacts,
    StopWaitExpires, Exited
<1>3. ASSUME NEW d \in Cmd PROVE CommandFacts(d)'
  BY DEF ExecInvariant, CommandFacts, TypeOK, Group, CallFacts, ProcessFacts,
    SignalFacts, OwnerFacts, SessionFacts, ReportFacts, OwnExit, Signalling,
    Polling, StopWaitExpires, Exited, At
<1> QED  BY <1>1, <1>2, <1>3 DEF ExecInvariant

(* run_foreground, and the end of a call that stopped its command. *)

(* Popen raises, and nothing is registered.                                *)
LEMMA SpawnFailsStep ==
  ASSUME ExecInvariant, NEW c \in Cmd, SpawnFails(c)
  PROVE  ExecInvariant'
<1>1. TypeOK'
  BY DEF ExecInvariant, TypeOK, Group, SpawnFails, Return
<1>2. CallFacts'
  BY DEF ExecInvariant, CommandFacts, TypeOK, CallFacts, ProcessFacts,
    SpawnFails, Return
<1>3. ASSUME NEW d \in Cmd PROVE CommandFacts(d)'
  BY DEF ExecInvariant, CommandFacts, TypeOK, Group, CallFacts, ProcessFacts,
    SignalFacts, OwnerFacts, SessionFacts, ReportFacts, OwnExit, Signalling,
    Polling, SpawnFails, Return, At, Exited
<1> QED  BY <1>1, <1>2, <1>3 DEF ExecInvariant

(* run_foreground spawns its shell and waits.                              *)
LEMMA RunForegroundStep ==
  ASSUME ExecInvariant, NEW c \in Cmd, RunForeground(c)
  PROVE  ExecInvariant'
<1>1. TypeOK'
  <2>1. os[c] \in Group /\ os \in [Cmd -> Group]
    BY DEF ExecInvariant, TypeOK
  <2>2. os' \in [Cmd -> Group]
    BY ZenonT(30), <2>1, GroupFields DEF RunForeground, Spawn, Enter
  <2> QED
    BY <2>2 DEF ExecInvariant, TypeOK, RunForeground, Spawn, Enter
<1>2. CallFacts'
  BY SMTT(30) DEF ExecInvariant, CommandFacts, TypeOK, CallFacts, ProcessFacts,
    RunForeground, Spawn, Enter
<1>3. ASSUME NEW d \in Cmd PROVE CommandFacts(d)'
  BY DEF ExecInvariant, CommandFacts, TypeOK, Group, CallFacts, ProcessFacts,
    SignalFacts, OwnerFacts, SessionFacts, ReportFacts, OwnExit, Signalling,
    Polling, RunForeground, Spawn, Enter, At, Exited
<1> QED  BY <1>1, <1>2, <1>3 DEF ExecInvariant

(* communicate() returned: the code is the shell's own.                    *)
LEMMA ForegroundExitsStep ==
  ASSUME ExecInvariant, NEW c \in Cmd, ForegroundExits(c)
  PROVE  ExecInvariant'
<1>1. TypeOK'
  <2>1. os[c] \in Group /\ os \in [Cmd -> Group]
    BY DEF ExecInvariant, TypeOK
  <2>2. os' \in [Cmd -> Group]
    BY <2>1, GroupFields DEF ForegroundExits, Return, At, PipesClosed, Exited
  <2>3. os[c].status \in Status \cup {None}
    BY <2>1 DEF Group
  <2> QED
    BY <2>2, <2>3 DEF ExecInvariant, TypeOK, ForegroundExits, Return, At,
      PipesClosed, Exited
<1>2. CallFacts'
  BY DEF ExecInvariant, CommandFacts, TypeOK, CallFacts, ProcessFacts,
    ForegroundExits, Return, At, PipesClosed, Exited
<1>3. ASSUME NEW d \in Cmd PROVE CommandFacts(d)'
  BY DEF ExecInvariant, CommandFacts, TypeOK, Group, CallFacts, ProcessFacts,
    SignalFacts, OwnerFacts, SessionFacts, ReportFacts, OwnExit, Signalling,
    Polling, ForegroundExits, Return, At, PipesClosed, Exited
<1> QED  BY <1>1, <1>2, <1>3 DEF ExecInvariant

(* communicate() timed out: only now is the group stopped.                 *)
LEMMA ForegroundExpiresStep ==
  ASSUME ExecInvariant, NEW c \in Cmd, ForegroundExpires(c)
  PROVE  ExecInvariant'
<1>1. TypeOK'
  BY DEF ExecInvariant, TypeOK, Group, ForegroundExpires, Goto, At,
    PipesClosed, Exited
<1>2. CallFacts'
  BY DEF ExecInvariant, CommandFacts, TypeOK, CallFacts, ProcessFacts,
    ForegroundExpires, Goto, At, PipesClosed, Exited
<1>3. ASSUME NEW d \in Cmd PROVE CommandFacts(d)'
  BY DEF ExecInvariant, CommandFacts, TypeOK, Group, CallFacts, ProcessFacts,
    SignalFacts, OwnerFacts, SessionFacts, ReportFacts, OwnExit, Signalling,
    Polling, ForegroundExpires, Goto, At, PipesClosed, Exited
<1> QED  BY <1>1, <1>2, <1>3 DEF ExecInvariant

(* The group was stopped; the pipes are drained next.                      *)
LEMMA StoppedStep ==
  ASSUME ExecInvariant, NEW c \in Cmd, Stopped(c)
  PROVE  ExecInvariant'
<1>1. TypeOK'
  BY DEF ExecInvariant, TypeOK, Group, Stopped, Goto, At
<1>2. CallFacts'
  BY DEF ExecInvariant, CommandFacts, TypeOK, CallFacts, ProcessFacts,
    Stopped, Goto, At
<1>3. ASSUME NEW d \in Cmd PROVE CommandFacts(d)'
  BY DEF ExecInvariant, CommandFacts, TypeOK, Group, CallFacts, ProcessFacts,
    SignalFacts, OwnerFacts, SessionFacts, ReportFacts, OwnExit, Signalling,
    Polling, Stopped, Goto, At, Exited
<1> QED  BY <1>1, <1>2, <1>3 DEF ExecInvariant

(* Signalling raised; a session stays registered.                          *)
LEMMA StopDeniedStep ==
  ASSUME ExecInvariant, NEW c \in Cmd, StopDenied(c)
  PROVE  ExecInvariant'
<1>1. TypeOK'
  BY DEF ExecInvariant, TypeOK, Group, StopDenied, At
<1>2. CallFacts'
  BY DEF ExecInvariant, CommandFacts, TypeOK, CallFacts, ProcessFacts,
    StopDenied, At
<1>3. ASSUME NEW d \in Cmd PROVE CommandFacts(d)'
  BY DEF ExecInvariant, CommandFacts, TypeOK, Group, CallFacts, ProcessFacts,
    SignalFacts, OwnerFacts, SessionFacts, ReportFacts, OwnExit, Signalling,
    Polling, StopDenied, At, Exited
<1> QED  BY <1>1, <1>2, <1>3 DEF ExecInvariant

(* The pipes are drained and the call returns.                             *)
LEMMA DrainAndReturnStep ==
  ASSUME ExecInvariant, NEW c \in Cmd, DrainAndReturn(c)
  PROVE  ExecInvariant'
<1>1. TypeOK'
  <2>1. os[c] \in Group /\ os \in [Cmd -> Group]
    BY DEF ExecInvariant, TypeOK
  <2>2. os' \in [Cmd -> Group]
    BY <2>1, GroupFields DEF DrainAndReturn, Return, At, PipesClosed, Exited
  <2>3. os[c].status \in Status \cup {None}
    BY <2>1 DEF Group
  <2>4. call' \in Call /\ answer' \in [Cmd -> Answer]
    <3>1. TypeOK
      BY DEF ExecInvariant
    <3>2. \/ Return(c, "timed_out", None)
          \/ Return(c, "exited", os[c].status)
      BY DEF DrainAndReturn
    <3> QED  BY <2>3, <3>1, <3>2, ReturnTyped
  <2> QED
    BY <2>2, <2>4 DEF ExecInvariant, TypeOK, DrainAndReturn
<1>2. CallFacts'
  BY DEF ExecInvariant, CommandFacts, TypeOK, CallFacts, ProcessFacts,
    DrainAndReturn, Return, At, PipesClosed, Exited
<1>3. ASSUME NEW d \in Cmd PROVE CommandFacts(d)'
  BY DEF ExecInvariant, CommandFacts, TypeOK, Group, CallFacts, ProcessFacts,
    SignalFacts, OwnerFacts, SessionFacts, ReportFacts, OwnExit, Signalling,
    Polling, DrainAndReturn, Return, At, PipesClosed, Exited
<1> QED  BY <1>1, <1>2, <1>3 DEF ExecInvariant

(* Sessions. *)

(* start_session registers the session before it polls it.                 *)
LEMMA StartSessionStep ==
  ASSUME ExecInvariant, NEW c \in Cmd, StartSession(c)
  PROVE  ExecInvariant'
<1>1. TypeOK'
  <2>1. os[c] \in Group /\ os \in [Cmd -> Group]
    BY DEF ExecInvariant, TypeOK
  <2>2. os' \in [Cmd -> Group]
    BY ZenonT(30), <2>1, GroupFields DEF StartSession, Spawn, Enter
  <2> QED
    BY <2>2 DEF ExecInvariant, TypeOK, StartSession, Spawn, Enter
<1>2. CallFacts'
  BY DEF ExecInvariant, CommandFacts, TypeOK, CallFacts, ProcessFacts,
    StartSession, Spawn, Enter
<1>3. ASSUME NEW d \in Cmd PROVE CommandFacts(d)'
  BY DEF ExecInvariant, CommandFacts, TypeOK, Group, CallFacts, ProcessFacts,
    SignalFacts, OwnerFacts, SessionFacts, ReportFacts, OwnExit, Signalling,
    Polling, StartSession, Spawn, Enter, At, Exited
<1> QED  BY <1>1, <1>2, <1>3 DEF ExecInvariant

(* A call on a registered session, which no thread is stopping.            *)
LEMMA WriteSessionStdinStep ==
  ASSUME ExecInvariant, NEW c \in Cmd, WriteSessionStdin(c)
  PROVE  ExecInvariant'
<1>1. TypeOK'
  BY DEF ExecInvariant, TypeOK, Group, WriteSessionStdin, Enter
<1>2. CallFacts'
  <2>1. PICK step \in {"check", "write"} :
          call' = [cmd |-> c, at |-> step, due |-> FALSE, late |-> c \in elapsed]
    BY DEF WriteSessionStdin, Enter
  <2>2. UNCHANGED elapsed /\ c # None
    BY DEF WriteSessionStdin
  <2> QED
    BY <2>1, <2>2 DEF CallFacts
<1>3. ASSUME NEW d \in Cmd PROVE CommandFacts(d)'
  BY DEF ExecInvariant, CommandFacts, TypeOK, Group, CallFacts, ProcessFacts,
    SignalFacts, OwnerFacts, SessionFacts, ReportFacts, OwnExit, Signalling,
    Polling, WriteSessionStdin, Enter, At, Exited
<1> QED  BY <1>1, <1>2, <1>3 DEF ExecInvariant

(* The process took the text; what is known of the call stays so.          *)
LEMMA StdinTakenStep ==
  ASSUME ExecInvariant, NEW c \in Cmd, StdinTaken(c)
  PROVE  ExecInvariant'
<1>1. TypeOK'
  BY DEF ExecInvariant, TypeOK, Group, StdinTaken, Goto, At
<1>2. CallFacts'
  BY DEF ExecInvariant, TypeOK, CallFacts, StdinTaken, Goto, At
<1>3. ASSUME NEW d \in Cmd PROVE CommandFacts(d)'
  BY DEF ExecInvariant, CommandFacts, TypeOK, CallFacts, ProcessFacts,
    SignalFacts, OwnerFacts, SessionFacts, ReportFacts, OwnExit, Signalling,
    Polling, StdinTaken, Goto, At, Exited
<1> QED  BY <1>1, <1>2, <1>3 DEF ExecInvariant

(* The call raises: the session is as registered as it was when it began.  *)
LEMMA StdinFailsStep ==
  ASSUME ExecInvariant, NEW c \in Cmd, StdinFails(c)
  PROVE  ExecInvariant'
<1>1. TypeOK'
  BY DEF ExecInvariant, TypeOK, Group, StdinFails
<1>2. CallFacts'
  BY DEF ExecInvariant, CallFacts, StdinFails
<1>3. ASSUME NEW d \in Cmd PROVE CommandFacts(d)'
  BY DEF ExecInvariant, CommandFacts, TypeOK, CallFacts, ProcessFacts,
    SignalFacts, OwnerFacts, SessionFacts, ReportFacts, OwnExit, Signalling,
    Polling, StdinFails, At, Exited
<1> QED  BY <1>1, <1>2, <1>3 DEF ExecInvariant

(* The timeout is looked at first, so a late call goes no further.         *)
LEMMA PollCheckStep ==
  ASSUME ExecInvariant, NEW c \in Cmd, PollCheck(c)
  PROVE  ExecInvariant'
<1>1. TypeOK'
  BY ZenonT(30) DEF ExecInvariant, TypeOK, Group, PollCheck, Goto, At, session_timed_out
<1>2. CallFacts'
  <2>1. CASE c \in elapsed
    BY <2>1 DEF ExecInvariant, TypeOK, CallFacts, PollCheck, Goto, At,
      session_timed_out
  <2>2. CASE c \notin elapsed
    BY <2>2 DEF ExecInvariant, TypeOK, CallFacts, PollCheck, Goto, At,
      session_timed_out
  <2> QED  BY <2>1, <2>2
<1>3. ASSUME NEW d \in Cmd PROVE CommandFacts(d)'
  BY DEF ExecInvariant, CommandFacts, TypeOK, Group, CallFacts, ProcessFacts,
    SignalFacts, OwnerFacts, SessionFacts, ReportFacts, OwnExit, Signalling,
    Polling, PollCheck, Goto, At, session_timed_out, Exited
<1> QED  BY <1>1, <1>2, <1>3 DEF ExecInvariant

(* Output is read.                                                         *)
LEMMA PollReadStep ==
  ASSUME ExecInvariant, NEW c \in Cmd, PollRead(c)
  PROVE  ExecInvariant'
<1>1. TypeOK'
  <2>1. os[c] \in Group /\ os \in [Cmd -> Group]
    BY DEF ExecInvariant, TypeOK
  <2>2. os' \in [Cmd -> Group]
    BY <2>1, GroupFields DEF PollRead, Goto, At
  <2> QED
    BY <2>2 DEF ExecInvariant, TypeOK, PollRead, Goto, At
<1>2. CallFacts'
  BY DEF ExecInvariant, CommandFacts, TypeOK, CallFacts, ProcessFacts,
    PollRead, Goto, At
<1>3. ASSUME NEW d \in Cmd PROVE CommandFacts(d)'
  BY DEF ExecInvariant, CommandFacts, TypeOK, Group, CallFacts, ProcessFacts,
    SignalFacts, OwnerFacts, SessionFacts, ReportFacts, OwnExit, Signalling,
    Polling, PollRead, Goto, At, Exited
<1> QED  BY <1>1, <1>2, <1>3 DEF ExecInvariant

(* poll() saw the exit and reaped the shell.                               *)
LEMMA PollExitedStep ==
  ASSUME ExecInvariant, NEW c \in Cmd, PollExited(c)
  PROVE  ExecInvariant'
<1>1. TypeOK'
  BY DEF ExecInvariant, TypeOK, Group, PollExited, Goto, At, Exited
<1>2. CallFacts'
  BY DEF ExecInvariant, CommandFacts, TypeOK, CallFacts, ProcessFacts,
    PollExited, Goto, At, Exited
<1>3. ASSUME NEW d \in Cmd PROVE CommandFacts(d)'
  BY DEF ExecInvariant, CommandFacts, TypeOK, Group, CallFacts, ProcessFacts,
    SignalFacts, OwnerFacts, SessionFacts, ReportFacts, OwnExit, Signalling,
    Polling, PollExited, Goto, At, Exited
<1> QED  BY <1>1, <1>2, <1>3 DEF ExecInvariant

(* The deadline hands the id back, or the loop goes on.                    *)
LEMMA PollYieldsStep ==
  ASSUME ExecInvariant, NEW c \in Cmd, PollYields(c)
  PROVE  ExecInvariant'
<1>1. TypeOK'
  <2>1. call' \in Call /\ answer' \in [Cmd -> Answer]
    <3>1. CASE call.due
      <4>1. TypeOK /\ Return(c, "session", None)
        BY <3>1 DEF ExecInvariant, PollYields
      <4> QED  BY <4>1, ReturnTyped
    <3>2. CASE ~call.due
      BY <3>2 DEF ExecInvariant, TypeOK, PollYields, Goto
    <3> QED  BY <3>1, <3>2
  <2> QED
    BY <2>1 DEF ExecInvariant, TypeOK, PollYields
<1>2. CallFacts'
  <2>1. CASE call.due
    BY <2>1 DEF ExecInvariant, TypeOK, CallFacts, PollYields, Return, Idle
  <2>2. CASE ~call.due
    BY <2>2 DEF ExecInvariant, TypeOK, CallFacts, PollYields, Goto, At
  <2> QED  BY <2>1, <2>2
<1>3. ASSUME NEW d \in Cmd PROVE CommandFacts(d)'
  BY DEF ExecInvariant, CommandFacts, TypeOK, Group, CallFacts, ProcessFacts,
    SignalFacts, OwnerFacts, SessionFacts, ReportFacts, OwnExit, Signalling,
    Polling, PollYields, Return, Goto, At, Exited
<1> QED  BY <1>1, <1>2, <1>3 DEF ExecInvariant

(* Background tasks. *)

(* run_background registers the task and starts its watcher.               *)
LEMMA RunBackgroundStep ==
  ASSUME ExecInvariant, NEW c \in Cmd, RunBackground(c)
  PROVE  ExecInvariant'
<1>1. TypeOK'
  <2>1. os[c] \in Group /\ os \in [Cmd -> Group]
    BY DEF ExecInvariant, TypeOK
  <2>2. os' \in [Cmd -> Group]
    BY ZenonT(30), <2>1, GroupFields DEF RunBackground, Spawn
  <2>3. req' \in [Cmd -> Request]
    BY DEF ExecInvariant, TypeOK, RunBackground, Spawn
  <2>4. task' \in [Cmd -> BackgroundTaskRecord]
    BY DEF ExecInvariant, TypeOK, RunBackground
  <2> QED
    BY <2>2, <2>3, <2>4 DEF ExecInvariant, TypeOK, RunBackground
<1>2. CallFacts'
  BY DEF ExecInvariant, CommandFacts, TypeOK, CallFacts, ProcessFacts,
    RunBackground, Spawn
<1>3. ASSUME NEW d \in Cmd PROVE CommandFacts(d)'
  BY DEF ExecInvariant, CommandFacts, TypeOK, Group, CallFacts, ProcessFacts,
    SignalFacts, OwnerFacts, SessionFacts, ReportFacts, OwnExit, Signalling,
    Polling, RunBackground, Spawn, At, Exited
<1> QED  BY <1>1, <1>2, <1>3 DEF ExecInvariant

(* wait() returned in the watcher: the code is the shell's own.            *)
LEMMA WatchExitsStep ==
  ASSUME ExecInvariant, NEW c \in Cmd, WatchExits(c)
  PROVE  ExecInvariant'
<1>1. TypeOK'
  BY DEF ExecInvariant, TypeOK, Group, WatchExits, Exited,
    finalize_background_task
<1>2. CallFacts'
  BY DEF ExecInvariant, CommandFacts, TypeOK, CallFacts, ProcessFacts,
    WatchExits, Exited, finalize_background_task
<1>3. ASSUME NEW d \in Cmd PROVE CommandFacts(d)'
  BY DEF ExecInvariant, CommandFacts, TypeOK, Group, CallFacts, ProcessFacts,
    SignalFacts, OwnerFacts, SessionFacts, ReportFacts, OwnExit, Signalling,
    Polling, WatchExits, Exited, finalize_background_task, At
<1> QED  BY <1>1, <1>2, <1>3 DEF ExecInvariant

(* wait() timed out in the watcher.                                        *)
LEMMA WatchExpiresStep ==
  ASSUME ExecInvariant, NEW c \in Cmd, WatchExpires(c)
  PROVE  ExecInvariant'
<1>1. TypeOK'
  BY DEF ExecInvariant, TypeOK, Group, WatchExpires, Exited
<1>2. CallFacts'
  BY DEF ExecInvariant, CommandFacts, TypeOK, CallFacts, ProcessFacts,
    WatchExpires, Exited
<1>3. ASSUME NEW d \in Cmd PROVE CommandFacts(d)'
  BY DEF ExecInvariant, CommandFacts, TypeOK, Group, CallFacts, ProcessFacts,
    SignalFacts, OwnerFacts, SessionFacts, ReportFacts, OwnExit, Signalling,
    Polling, WatchExpires, Exited, At
<1> QED  BY <1>1, <1>2, <1>3 DEF ExecInvariant

(* The watcher records what it did to the task.                            *)
LEMMA WatchFinalizesStep ==
  ASSUME ExecInvariant, NEW c \in Cmd, WatchFinalizes(c)
  PROVE  ExecInvariant'
<1>1. TypeOK'
  BY DEF ExecInvariant, TypeOK, Group, WatchFinalizes, Exited,
    finalize_background_task
<1>2. CallFacts'
  BY DEF ExecInvariant, CommandFacts, TypeOK, CallFacts, ProcessFacts,
    WatchFinalizes, Exited, finalize_background_task
<1>3. ASSUME NEW d \in Cmd PROVE CommandFacts(d)'
  BY DEF ExecInvariant, CommandFacts, TypeOK, Group, CallFacts, ProcessFacts,
    SignalFacts, OwnerFacts, SessionFacts, ReportFacts, OwnExit, Signalling,
    Polling, WatchFinalizes, Exited, finalize_background_task, At
<1> QED  BY <1>1, <1>2, <1>3 DEF ExecInvariant

(* The caller reads a task's record.                                       *)
LEMMA GetBackgroundStatusStep ==
  ASSUME ExecInvariant, NEW c \in Cmd, GetBackgroundStatus(c)
  PROVE  ExecInvariant'
<1>1. TypeOK'
  BY DEF ExecInvariant, TypeOK, Group, GetBackgroundStatus, Return
<1>2. CallFacts'
  BY DEF ExecInvariant, CommandFacts, TypeOK, CallFacts, ProcessFacts,
    GetBackgroundStatus, Return
<1>3. ASSUME NEW d \in Cmd PROVE CommandFacts(d)'
  <2>1. ProcessFacts(d)' /\ SignalFacts(d)'
    BY DEF ExecInvariant, CommandFacts, TypeOK, ProcessFacts, SignalFacts,
      GetBackgroundStatus, Exited
  <2>2. OwnerFacts(d)'
    BY DEF ExecInvariant, CommandFacts, TypeOK, OwnerFacts, Signalling, Polling,
      GetBackgroundStatus, Return, At
  <2>3. SessionFacts(d)'
    <3>1. call = Idle /\ call' = Idle /\ UNCHANGED <<req, stop, live>>
      BY DEF GetBackgroundStatus, Return
    <3>2. call.cmd # d /\ call'.cmd # d
      BY <3>1
    <3>3. CASE d = c
      <4>1. task[c].state \in BackgroundTaskState
        BY DEF ExecInvariant, TypeOK, GetBackgroundStatus
      <4>2. answer'[c].kind = task[c].state
        BY DEF ExecInvariant, TypeOK, GetBackgroundStatus, Return
      <4>3. req[c].mode = "background" /\ c \notin live
        BY <4>1 DEF ExecInvariant, CommandFacts, OwnerFacts, SessionFacts
      <4> QED  BY <3>1, <3>2, <3>3, <4>1, <4>2, <4>3 DEF SessionFacts, At
    <3>4. CASE d # c
      <4>1. answer'[d] = answer[d]
        BY <3>4 DEF ExecInvariant, TypeOK, GetBackgroundStatus, Return
      <4> QED
        BY <3>1, <3>2, <4>1 DEF ExecInvariant, CommandFacts, SessionFacts, At
    <3> QED  BY <3>3, <3>4
  <2>4. ReportFacts(d)'
    BY DEF ExecInvariant, CommandFacts, TypeOK, ReportFacts, OwnExit,
      GetBackgroundStatus, Return
  <2> QED  BY <2>1, <2>2, <2>3, <2>4 DEF CommandFacts
<1> QED  BY <1>1, <1>2, <1>3 DEF ExecInvariant

(* The yield deadline of a session call passes: only call.due changes.     *)
LEMMA DeadlinePassesStep ==
  ASSUME ExecInvariant, DeadlinePasses
  PROVE  ExecInvariant'
<1>1. TypeOK'
  BY DEF ExecInvariant, TypeOK, DeadlinePasses
<1>2. CallFacts'
  BY DEF ExecInvariant, TypeOK, CallFacts, DeadlinePasses
<1>3. ASSUME NEW d \in Cmd PROVE CommandFacts(d)'
  BY DEF ExecInvariant, CommandFacts, TypeOK, ProcessFacts, SignalFacts,
    OwnerFacts, SessionFacts, ReportFacts, OwnExit, Signalling, Polling,
    DeadlinePasses, At, Exited
<1> QED  BY <1>1, <1>2, <1>3 DEF ExecInvariant

(* A step that changes nothing keeps the invariant.                        *)
LEMMA StutterStep ==
  ASSUME ExecInvariant, UNCHANGED vars
  PROVE  ExecInvariant'
BY DEF vars, ExecInvariant, TypeOK, CallFacts, CommandFacts, ProcessFacts,
  SignalFacts, OwnerFacts, SessionFacts, ReportFacts, OwnExit, At, Exited

(* No command has been started.                                            *)
LEMMA InitHolds == Init => ExecInvariant
BY DEF Init, ExecInvariant, TypeOK, Group, CallFacts, CommandFacts,
  ProcessFacts, SignalFacts, OwnerFacts, SessionFacts, ReportFacts, OwnExit,
  Signalling, Polling, At, Exited

(* Every step of the executor, of a watcher, of the system or of time      *)
(* keeps the invariant.                                                    *)
LEMMA NextHolds == ExecInvariant /\ [Next]_vars => ExecInvariant'
<1> SUFFICES ASSUME ExecInvariant, [Next]_vars
             PROVE  ExecInvariant'
    OBVIOUS
<1>1. CASE UNCHANGED vars
  BY <1>1, StutterStep
<1>2. CASE DeadlinePasses
  BY <1>2, DeadlinePassesStep
<1>3. ASSUME NEW c \in Cmd, Environment(c) \/ TimeoutElapses(c)
      PROVE  ExecInvariant'
  BY <1>3, LeaderExitsStep, LeaderDiesStep, ForksStep, ChildEndsStep,
     WritesOutputStep, TimeoutElapsesStep DEF Environment
<1>4. ASSUME NEW c \in Cmd, Terminate(c)
      PROVE  ExecInvariant'
  BY <1>4, StopCheckStep, StopTermStep, StopKillStep, StopReapsStep,
     StopWaitExpiresStep DEF Terminate
<1>5. ASSUME NEW c \in Cmd, Starts(c)
      PROVE  ExecInvariant'
  BY <1>5, SpawnFailsStep, RunForegroundStep, RunBackgroundStep,
     StartSessionStep DEF Starts
<1>6. ASSUME NEW c \in Cmd, CallSteps(c)
      PROVE  ExecInvariant'
  BY <1>6, ForegroundExitsStep, ForegroundExpiresStep, PollCheckStep,
     PollReadStep, PollExitedStep, PollYieldsStep, StoppedStep, StopDeniedStep,
     DrainAndReturnStep DEF CallSteps
<1>7. ASSUME NEW c \in Cmd, WriteSteps(c)
      PROVE  ExecInvariant'
  BY <1>7, StdinTakenStep, StdinFailsStep DEF WriteSteps
<1>8. ASSUME NEW c \in Cmd,
             WatchSteps(c) \/ WriteSessionStdin(c) \/ GetBackgroundStatus(c)
      PROVE  ExecInvariant'
  BY <1>8, WatchExitsStep, WatchExpiresStep, WatchFinalizesStep,
     WriteSessionStdinStep, GetBackgroundStatusStep DEF WatchSteps
<1> QED
  BY <1>1, <1>2, <1>3, <1>4, <1>5, <1>6, <1>7, <1>8 DEF Next

-----------------------------------------------------------------------------
(* The theorems.                                                           *)

(* ExecInvariant holds in every reachable state, for any set of commands.  *)
THEOREM ExecInvariantHolds == Spec => []ExecInvariant
BY InitHolds, NextHolds, PTL DEF Spec

(* Every variable of SharedProcessExecutor and of its environment keeps    *)
(* its type.                                                               *)
THEOREM ExecTypeCorrect == Spec => []TypeOK
<1>1. ExecInvariant => TypeOK
  BY DEF ExecInvariant
<1> QED  BY <1>1, ExecInvariantHolds, PTL

(* No command is signalled before its own timeout_ms elapsed.              *)
THEOREM SignalsNeedATimeout == Spec => []OnlyTimeoutKills
<1>1. ExecInvariant => OnlyTimeoutKills
  BY DEF ExecInvariant, CommandFacts, ProcessFacts, SignalFacts, OnlyTimeoutKills
<1> QED  BY <1>1, ExecInvariantHolds, PTL

(* An exit code in a result or a task record is the code the shell was     *)
(* reaped with, and a command said to have exited was never signalled.     *)
THEOREM ExitsAreReal == Spec => []ReportedExitIsOwn
<1>1. ExecInvariant => ReportedExitIsOwn
  <2> SUFFICES ASSUME ExecInvariant, NEW c \in Cmd
               PROVE  /\ \A r \in {answer[c].exit_code, task[c].exit_code} :
                            r # None => c \in popen /\ os[c].status = r
                      /\ OwnExit(c) => /\ c \in popen
                                       /\ os[c].sent = {}
                                       /\ os[c].status \in ExitCode
    BY DEF ReportedExitIsOwn, ReportedExitIsReal
  <2>1. os[c].status \in Status \cup {None}
    BY DEF ExecInvariant, TypeOK, Group
  <2> QED
    BY <2>1 DEF ExecInvariant, CommandFacts, ProcessFacts, ReportFacts, Exited
<1> QED  BY <1>1, ExecInvariantHolds, PTL

(* Between calls, the ids the caller holds are the registered sessions.    *)
THEOREM SessionIdsAreHonoured == Spec => []SessionIdHonoured
<1>1. ExecInvariant => SessionIdHonoured
  <2> SUFFICES ASSUME ExecInvariant, call = Idle, NEW c \in Cmd
               PROVE  /\ answer[c].kind = "session" => c \in live
                      /\ c \in live => answer[c].kind = "session" \/ c \in Unkillable
    BY DEF SessionIdHonoured
  <2>1. call.cmd # c
    OBVIOUS
  <2> QED  BY <2>1 DEF ExecInvariant, CommandFacts, SessionFacts
<1> QED  BY <1>1, ExecInvariantHolds, PTL

(* Only _terminate_process_group signals a group, and of its steps only    *)
(* the two that call killpg.                                               *)
LEMMA OnlyStopSignals ==
  ASSUME TypeOK, Next, NEW d \in Cmd, os'[d].sent # os[d].sent
  PROVE  StopTerm(d) \/ StopKill(d)
<1> USE DEF TypeOK, Group
<1>1. ~DeadlinePasses
  BY DEF DeadlinePasses
<1>2. ASSUME NEW c \in Cmd PROVE ~Environment(c) /\ ~TimeoutElapses(c)
  <2>1. ASSUME LeaderExits(c) PROVE FALSE
    BY <2>1 DEF LeaderExits, SetGroup
  <2>2. ASSUME LeaderDies(c) PROVE FALSE
    BY <2>2 DEF LeaderDies, SetGroup
  <2>3. ASSUME Forks(c) PROVE FALSE
    BY <2>3 DEF Forks, SetGroup
  <2>4. ASSUME ChildEnds(c) PROVE FALSE
    BY <2>4 DEF ChildEnds, SetGroup
  <2>5. ASSUME WritesOutput(c) PROVE FALSE
    BY <2>5 DEF WritesOutput, SetGroup
  <2>6. ~TimeoutElapses(c)
    BY DEF TimeoutElapses
  <2> QED  BY <2>1, <2>2, <2>3, <2>4, <2>5, <2>6 DEF Environment
<1>3. ASSUME NEW c \in Cmd, Terminate(c) PROVE StopTerm(d) \/ StopKill(d)
  <2>1. ~StopCheck(c) /\ ~StopReaps(c) /\ ~StopWaitExpires(c)
    BY DEF StopCheck, StopReaps, StopWaitExpires
  <2>2. StopTerm(c) \/ StopKill(c)
    BY <1>3, <2>1 DEF Terminate
  <2>3. c = d
    BY <2>2 DEF StopTerm, StopKill, Signal
  <2> QED  BY <2>2, <2>3
<1>4. ASSUME NEW c \in Cmd PROVE ~Starts(c)
  <2>1. ASSUME os' = [os EXCEPT ![c].leader = "running"] PROVE FALSE
    BY <2>1
  <2> QED
    BY <2>1 DEF Starts, SpawnFails, RunForeground, RunBackground, StartSession, Spawn
<1>5. ASSUME NEW c \in Cmd PROVE ~CallSteps(c)
  <2>1. ASSUME ForegroundExits(c) \/ PollRead(c) PROVE FALSE
    <3>1. PICK b \in BOOLEAN :
            os' = [os EXCEPT ![c] = [os[c] EXCEPT !.unread = b]]
      BY <2>1 DEF ForegroundExits, PollRead
    <3> QED  BY <3>1
  <2>2. ASSUME DrainAndReturn(c) PROVE FALSE
    <3>1. PICK b \in BOOLEAN :
            os' = [os EXCEPT ![c] = [os[c] EXCEPT !.unread = FALSE, !.lost = b]]
      BY <2>2 DEF DrainAndReturn, PipesClosed, Exited
    <3> QED  BY <3>1
  <2> QED
    BY <2>1, <2>2 DEF CallSteps, ForegroundExpires, PollCheck, PollExited, PollYields,
      Stopped, StopDenied
<1>6. ASSUME NEW c \in Cmd
      PROVE  /\ ~WatchSteps(c) /\ ~WriteSteps(c)
             /\ ~WriteSessionStdin(c) /\ ~GetBackgroundStatus(c)
  BY DEF WatchSteps, WatchExits, WatchExpires, WatchFinalizes, WriteSteps,
    StdinTaken, StdinFails, WriteSessionStdin, GetBackgroundStatus
<1> QED
  BY <1>1, <1>2, <1>3, <1>4, <1>5, <1>6 DEF Next

(* _terminate_process_group never signals a pid that was already reaped.   *)
THEOREM ReapedPidsAreSafe == Spec => NoSignalAfterReap
<1>1. ASSUME ExecInvariant, Next, NEW d \in Cmd, os'[d].sent # os[d].sent
      PROVE  d \notin popen
  <2>1. stop[d] \in {"term", "kill"}
    BY <1>1, OnlyStopSignals DEF ExecInvariant, StopTerm, StopKill, Signal
  <2> QED  BY <1>1, <2>1 DEF ExecInvariant, CommandFacts, SignalFacts
<1>2. ExecInvariant /\ [Next]_vars
        => [\A c \in Cmd : os'[c].sent # os[c].sent => c \notin popen]_vars
  BY <1>1
<1> QED  BY <1>2, ExecInvariantHolds, PTL DEF Spec, NoSignalAfterReap

(* A session call that begins after the timeout does not hand the session  *)
(* back: a late call goes from the timeout check to the termination.       *)
THEOREM LateCallsEndSessions == Spec => LateCallEndsSession
<1>1. ExecInvariant
        => [\A c \in Cmd : (At(c, "poll") /\ call' = Idle) => ~call.late]_vars
  BY DEF ExecInvariant, CallFacts, At
<1> QED  BY <1>1, ExecInvariantHolds, PTL DEF LateCallEndsSession

-----------------------------------------------------------------------------
(* The shell tools.                                                        *)

USE DEF NoReply, Error, unexpected_runtime_error_result, BackgroundStarted

(* The answer of the executor that a result was made from.                 *)
AnswerFacts(c) ==
  /\ answer[c].kind \in {"spawn_error", "exited", "timed_out", "session"}
  /\ answer[c].kind = "exited" <=> answer[c].exit_code # None
  /\ answer[c].kind = "timed_out" => c \in elapsed /\ c \notin live

(* There is a result between calls only, and it is the answer of the       *)
(* executor, the handle of a background task, or an exception.             *)
ReplyFacts ==
  /\ reply.cmd \in Cmd \cup {None}
  /\ reply.cmd # None =>
       /\ call = Idle
       /\ \/ reply = BackgroundStarted(reply.cmd) /\ task[reply.cmd].state # None
          \/ reply = unexpected_runtime_error_result(reply.cmd)
          \/ /\ reply = command_result_to_tool_result(reply.cmd, answer[reply.cmd])
             /\ AnswerFacts(reply.cmd)

ShellInvariant == ExecInvariant /\ ReplyFacts

-----------------------------------------------------------------------------
(* Every step of the tools is a step of the executor.                      *)
LEMMA ShellStepIsExecStep ==
  ASSUME [ShellNext]_shellVars
  PROVE  [Next]_vars
BY DEF ShellNext, shellVars, vars, Next, Starts, RefuseCall, ExecuteBash,
       ExecuteBashInBackground, ExecuteCommand, WriteStdin, StartFails, FinishCall

(* While a call is in progress there is no result.                         *)
LEMMA NoReplyInACall ==
  ASSUME ReplyFacts, call # Idle
  PROVE  reply.cmd = None
BY DEF ReplyFacts

LEMMA FinishCallKeeps ==
  ASSUME ExecInvariant, ReplyFacts, NEW c \in Cmd, FinishCall(c)
  PROVE  ReplyFacts'
<1>1. call.cmd = c /\ call # Idle
  BY DEF FinishCall, CallSteps, ForegroundExits, ForegroundExpires, PollCheck, PollRead,
         PollExited, PollYields, Stopped, StopDenied, DrainAndReturn, WriteSteps,
         StdinTaken, StdinFails, At
<1>2. reply.cmd = None
  BY <1>1, NoReplyInACall
<1>3. CASE call' # Idle
  BY <1>2, <1>3 DEF FinishCall, ReplyFacts
<1>4. CASE call' = Idle /\ call.at \in {"stop", "write"}
  <2>1. reply' = unexpected_runtime_error_result(c)
    BY <1>4 DEF FinishCall
  <2> QED
    BY <1>4, <2>1 DEF ReplyFacts
<1>5. CASE call' = Idle /\ call.at \notin {"stop", "write"}
  <2>1. reply' = command_result_to_tool_result(c, answer'[c])
    BY <1>5 DEF FinishCall
  <2>2. AnswerFacts(c)'
    <3>1. CommandFacts(c) /\ TypeOK
      BY DEF ExecInvariant
    <3>2. ForegroundExits(c) \/ PollYields(c) \/ DrainAndReturn(c)
      <4>1. /\ ~ForegroundExpires(c) /\ ~PollCheck(c) /\ ~PollRead(c)
            /\ ~PollExited(c) /\ ~Stopped(c) /\ ~StopDenied(c) /\ ~WriteSteps(c)
        BY <1>5, <3>1 DEF ForegroundExpires, PollCheck, PollRead, PollExited, Stopped,
             StopDenied, WriteSteps, StdinTaken, StdinFails, Goto, At, TypeOK
      <4> QED
        BY <4>1 DEF FinishCall, CallSteps
    <3>3. CASE ForegroundExits(c)
      BY <3>1, <3>3 DEF ForegroundExits, Return, PipesClosed, CommandFacts, ProcessFacts,
           AnswerFacts, TypeOK
    <3>4. CASE PollYields(c)
      BY <3>1, <3>4, <1>5 DEF PollYields, Return, Goto, AnswerFacts, TypeOK
    <3>5. CASE DrainAndReturn(c)
      BY <3>1, <3>5 DEF DrainAndReturn, Return, CommandFacts, ProcessFacts, SignalFacts,
           OwnerFacts, AnswerFacts, TypeOK
    <3> QED
      BY <3>2, <3>3, <3>4, <3>5
  <2>3. reply'.cmd = c
    BY <2>1 DEF command_result_to_tool_result
  <2> QED
    BY <1>5, <2>1, <2>2, <2>3 DEF ReplyFacts
<1> QED
  BY <1>3, <1>4, <1>5

(* Processes, clocks and watchers leave the last result as true as it was. *)
LEMMA OthersKeep ==
  ASSUME ExecInvariant, ReplyFacts, UNCHANGED reply,
         DeadlinePasses \/ \E c \in Cmd : \/ Terminate(c) \/ WatchSteps(c)
                                          \/ TimeoutElapses(c) \/ Environment(c)
  PROVE  ReplyFacts'
<1>1. CASE DeadlinePasses
  <2>1. reply.cmd = None
    BY <1>1, NoReplyInACall DEF DeadlinePasses
  <2> QED
    BY <2>1 DEF ReplyFacts
<1>2. CASE \E c \in Cmd : Terminate(c) \/ WatchSteps(c) \/ TimeoutElapses(c) \/ Environment(c)
  <2>1. UNCHANGED <<call, answer, live>> /\ elapsed \subseteq elapsed'
    BY <1>2 DEF Terminate, WatchSteps, TimeoutElapses, Environment, StopCheck, StopTerm,
         StopKill, Signal, StopReaps, StopWaitExpires, WatchExits, WatchExpires,
         WatchFinalizes, LeaderExits, LeaderDies, Forks, ChildEnds, WritesOutput, SetGroup
  <2>2. \A d \in Cmd : task[d].state # None => task'[d].state # None
    <3>1. task \in [Cmd -> BackgroundTaskRecord]
      BY DEF ExecInvariant, TypeOK
    <3>2. CASE UNCHANGED task
      BY <3>2
    <3>3. ASSUME NEW c \in Cmd, NEW state \in BackgroundTaskState, NEW code,
                 finalize_background_task(c, state, code)
          PROVE  \A d \in Cmd : task[d].state # None => task'[d].state # None
      BY <3>1, <3>3 DEF finalize_background_task
    <3>4. \/ UNCHANGED task
          \/ \E c \in Cmd : WatchExits(c) \/ WatchFinalizes(c)
      BY <1>2 DEF Terminate, WatchSteps, TimeoutElapses, Environment, StopCheck, StopTerm,
         StopKill, Signal, StopReaps, StopWaitExpires, WatchExpires, LeaderExits,
         LeaderDies, Forks, ChildEnds, WritesOutput, SetGroup
    <3>5. ASSUME NEW c \in Cmd, WatchExits(c) \/ WatchFinalizes(c)
          PROVE  \E state \in BackgroundTaskState, code \in {os[c].status, None} :
                    finalize_background_task(c, state, code)
      BY <3>5 DEF WatchExits, WatchFinalizes
    <3> QED
      BY <3>2, <3>3, <3>4, <3>5
  <2> QED
    BY <2>1, <2>2 DEF ReplyFacts, AnswerFacts
<1> QED
  BY <1>1, <1>2

LEMMA ShellNextKeeps ==
  ASSUME ShellInvariant, [ShellNext]_shellVars
  PROVE  ShellInvariant'
<1>1. ExecInvariant'
  BY ShellStepIsExecStep, NextHolds DEF ShellInvariant
<1>2. ReplyFacts /\ ExecInvariant
  BY DEF ShellInvariant
<1> SUFFICES ReplyFacts'
  BY <1>1 DEF ShellInvariant
<1>3. CASE RefuseCall
  BY <1>2, <1>3 DEF RefuseCall, ReplyFacts
<1>4. CASE \E c \in Cmd : ExecuteBash(c) \/ ExecuteCommand(c) \/ WriteStdin(c)
  BY <1>4 DEF ExecuteBash, ExecuteCommand, WriteStdin, ReplyFacts
<1>5. ASSUME NEW c \in Cmd, ExecuteBashInBackground(c)
      PROVE  ReplyFacts'
  BY <1>2, <1>5 DEF ExecuteBashInBackground, RunBackground, Spawn, ReplyFacts, ExecInvariant,
       TypeOK
<1>6. ASSUME NEW c \in Cmd, StartFails(c)
      PROVE  ReplyFacts'
  BY <1>2, <1>6 DEF StartFails, SpawnFails, Return, ReplyFacts, AnswerFacts, ExecInvariant,
       TypeOK, command_result_to_tool_result
<1>7. ASSUME NEW c \in Cmd, FinishCall(c)
      PROVE  ReplyFacts'
  BY <1>2, <1>7, FinishCallKeeps
<1>8. CASE /\ DeadlinePasses \/ \E c \in Cmd : \/ Terminate(c) \/ WatchSteps(c)
                                               \/ TimeoutElapses(c) \/ Environment(c)
           /\ UNCHANGED <<family, reply>>
  BY <1>2, <1>8, OthersKeep
<1>9. CASE UNCHANGED shellVars
  BY <1>2, <1>9 DEF shellVars, vars, ReplyFacts, AnswerFacts, command_result_to_tool_result,
       Rendered
<1> QED
  BY <1>3, <1>4, <1>5, <1>6, <1>7, <1>8, <1>9 DEF ShellNext

LEMMA ShellInvariantIsTrue == ShellInvariant => RepliesAreTrue
<1> SUFFICES ASSUME ShellInvariant, reply.cmd # None
             PROVE  RepliesAreTrue
  BY DEF RepliesAreTrue
<1> DEFINE c == reply.cmd
<1>1. c \in Cmd /\ CommandFacts(c) /\ call = Idle /\ TypeOK
  BY DEF ShellInvariant, ExecInvariant, ReplyFacts
<1>2. CASE reply = BackgroundStarted(c) /\ task[c].state # None
  BY <1>2 DEF RepliesAreTrue
<1>3. CASE reply = unexpected_runtime_error_result(c)
  BY <1>3 DEF RepliesAreTrue
<1>4. CASE reply = command_result_to_tool_result(c, answer[c]) /\ AnswerFacts(c)
  <2>1. answer[c] \in Answer /\ os[c] \in Group
    BY <1>1 DEF TypeOK
  <2>2. CASE answer[c].kind = "exited"
    <3>1. c \in popen /\ os[c].sent = {} /\ os[c].status = answer[c].exit_code
      BY <1>1, <1>4, <2>2 DEF CommandFacts, ReportFacts, OwnExit, AnswerFacts
    <3>2. os[c].status \in ExitCode
      BY <1>1, <1>4, <2>1, <2>2, <3>1 DEF CommandFacts, ProcessFacts, AnswerFacts, Group
    <3>3. reply = [cmd |-> c, error_type |-> None, shows |-> "exit_code",
                   ok |-> os[c].status = "0"]
      BY <1>4, <2>2, <3>1 DEF command_result_to_tool_result, Rendered, AnswerFacts
    <3>4. /\ reply.shows = "exit_code" /\ reply.error_type = None
          /\ reply.ok <=> os[c].status = "0"
      <4>1. CASE os[c].status = "0"
        <5>1. reply = [cmd |-> c, error_type |-> None, shows |-> "exit_code", ok |-> TRUE]
          BY <3>3, <4>1
        <5> QED  BY <4>1, <5>1
      <4>2. CASE os[c].status # "0"
        <5>1. reply = [cmd |-> c, error_type |-> None, shows |-> "exit_code", ok |-> FALSE]
          BY <3>3, <4>2
        <5> QED  BY <4>2, <5>1
      <4> QED  BY <4>1, <4>2
    <3> QED
      BY <3>1, <3>2, <3>4 DEF RepliesAreTrue
  <2>3. CASE answer[c].kind = "session"
    <3>1. c \in live
      BY <1>1, <2>3 DEF CommandFacts, SessionFacts
    <3>2. reply = [cmd |-> c, error_type |-> None, shows |-> "session_id", ok |-> TRUE]
      BY <1>4, <2>3 DEF command_result_to_tool_result, Rendered, AnswerFacts
    <3>3. reply.shows = "session_id" /\ reply.error_type = None /\ reply.ok
      BY <3>2
    <3> QED
      BY <3>1, <3>3 DEF RepliesAreTrue
  <2>4. CASE answer[c].kind \in {"spawn_error", "timed_out"}
    BY <1>4, <2>4 DEF RepliesAreTrue, command_result_to_tool_result, AnswerFacts
  <2> QED
    BY <1>4, <2>2, <2>3, <2>4 DEF AnswerFacts
<1> QED
  BY <1>2, <1>3, <1>4 DEF ShellInvariant, ReplyFacts

(* The shell tools implement the executor's specification: all that is     *)
(* proved of it holds of every session of the agent.                       *)
THEOREM ShellToolsUseExecutor == ShellSpec => Spec
<1>1. ShellInit => Init
  BY DEF ShellInit
<1>2. [ShellNext]_shellVars => [Next]_vars
  BY ShellStepIsExecStep
<1> QED
  BY <1>1, <1>2, PTL DEF ShellSpec, Spec

(* What the model reads in a result of a shell tool is so, in every        *)
(* reachable state and for any set of commands.                            *)
THEOREM ShellRepliesAreTrue == ShellSpec => []RepliesAreTrue
<1>1. ShellInit => ShellInvariant
  BY InitHolds DEF ShellInit, ShellInvariant, ReplyFacts
<1>2. ShellInvariant /\ [ShellNext]_shellVars => ShellInvariant'
  BY ShellNextKeeps
<1> QED
  BY <1>1, <1>2, ShellInvariantIsTrue, PTL DEF ShellSpec
=============================================================================
