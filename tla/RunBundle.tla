----------------------------- MODULE RunBundle ------------------------------
(***************************************************************************)
(* The directory of one run: run_coding_task (env/coding_env.py) with the  *)
(* RuntimeTraceWriter (runtime_trace/writer.py), the RunRetentionTracker   *)
(* (runtime_trace/retention.py), the history writers and the RunRecorder,  *)
(* as the sequence of file writes they make.  The process may stop between *)
(* any two writes, by a crash or by an exception, and be started again on  *)
(* the same directory.                                                     *)
(*                                                                         *)
(* Files written through _atomic_write_text are replaced whole.  The trace *)
(* manifest, the artifacts and the event log are written in place, so a    *)
(* crash may leave them torn.  A checksum is the protected content itself. *)
(***************************************************************************)
EXTENDS Naturals, Sequences, FiniteSets

CONSTANTS
  Purpose,     \* retention classes a caller may ask for
  MaxRuns,     \* bound: invocations of run_coding_task on the directory
  MaxEvents,   \* bound: lines of the event log
  MaxPayloads  \* bound: payload files

ASSUME BundleConstants ==
  /\ MaxRuns \in Nat /\ MaxEvents \in Nat /\ MaxPayloads \in Nat
  /\ "none" \notin Purpose

VARIABLES
  \* the disk
  ws,        \* workspaces under w/, named by the run that copied them
  hist,      \* runs that wrote the lines of retained_history.jsonl
  pays,      \* payloads/NNNNNN.json: ordinal -> the run that wrote it
  elog,      \* runtime_trace.jsonl
  arts,      \* trajectory.json, tool_profile.json, verifier.json, final.patch
  tman,      \* runtime_trace_manifest.json
  ridx,      \* retained-run.index.jsonl
  rman,      \* run_retention_manifest.json
  journal,   \* event kinds of run_retention_events.jsonl
  \* the process
  pc,        \* the next write of the invocation, "idle" between invocations
  goal,      \* what the retention update under way is for
  run,       \* number of the invocation
  me,        \* [setup, root, purpose]: its arguments and its workspace_root
  trk,       \* the tracker's manifest, in memory
  seq,       \* _next_seq
  ord,       \* _next_payload_ordinal
  outcome    \* how the last invocation ended

disk == <<ws, hist, pays, elog, arts, tman, ridx, rman, journal>>
vars == <<ws, hist, pays, elog, arts, tman, ridx, rman, journal,
          pc, goal, run, me, trk, seq, ord, outcome>>

-----------------------------------------------------------------------------
(* State.                                                                  *)

None == "none"
Run == 1 .. MaxRuns
Artifact == {"trajectory", "tool_profile", "verifier", "patch"}
FileState == {None, "torn", "ok"}

(* A line of the event log: the number of its event (0: it is no JSON),    *)
(* the payload the event refers to (0: none), and whether its newline was  *)
(* written too.                                                            *)
Line == [seq : 0 .. MaxEvents, ref : 0 .. MaxPayloads, newline : BOOLEAN]
Garbage(newline) == [seq |-> 0, ref |-> 0, newline |-> newline]

(* Text appended to the log goes on with the last line if that one has no  *)
(* newline, and two JSON texts on one line are none.                       *)
Appended(line) ==
  IF elog = <<>> \/ elog[Len(elog)].newline
    THEN Append(elog, line)
    ELSE [elog EXCEPT ![Len(elog)] = Garbage(line.newline)]

(* compute_run_artifact_checksum: all but the four governance files.       *)
Content == <<ws, hist, pays, elog, arts>>
NoSum == <<>>

NoTraceManifest == [kind |-> None, root |-> 0, ended |-> FALSE, sum |-> NoSum]
TornManifest == [NoTraceManifest EXCEPT !.kind = "torn"]
NoRetention == [state |-> None, purpose |-> None, sum |-> NoSum]
NoIndex == [made |-> FALSE, sum |-> NoSum]

Goal == {None, "created", "resumed", "artifacts_refreshed", "reconcile", "seal"}
Update == {"checksum", "index", "manifest", "journal"}
Pc == {"idle", "setup_histories", "open", "trace", "new_manifest", "sync",
       "histories", "run", "end"} \cup Update \cup Artifact
Outcome == {None, "returned", "crashed", "class_mismatch", "finalized",
            "invalid_manifest", "root_mismatch", "invalid_log", "reconciled"}

Me == [setup : BOOLEAN, root : 0 .. MaxRuns, purpose : Purpose \cup {None}]
Nobody == [setup |-> FALSE, root |-> 0, purpose |-> None]

TypeOK ==
  /\ ws \subseteq Run
  /\ hist \in Seq(Run)
  /\ DOMAIN pays \subseteq 1 .. MaxPayloads
  /\ \A o \in DOMAIN pays : pays[o] \in Run
  /\ elog \in Seq(Line)
  /\ arts \in [Artifact -> FileState]
  /\ tman.kind \in FileState /\ tman.root \in 0 .. MaxRuns /\ tman.ended \in BOOLEAN
  /\ ridx.made \in BOOLEAN
  /\ \A m \in {rman, trk} : /\ m.state \in {None, "active", "finalized"}
                            /\ m.purpose \in Purpose \cup {None}
  /\ journal \in Seq({"created", "resumed", "artifacts_refreshed", "finalized"})
  /\ pc \in Pc /\ goal \in Goal /\ run \in 0 .. MaxRuns
  /\ me \in Me /\ outcome \in Outcome
  /\ seq \in 1 .. MaxEvents + 1 /\ ord \in 1 .. MaxPayloads + 1

Init ==
  /\ ws = {} /\ hist = <<>> /\ pays = <<>> /\ elog = <<>>
  /\ arts = [a \in Artifact |-> None]
  /\ tman = NoTraceManifest /\ ridx = NoIndex /\ rman = NoRetention
  /\ journal = <<>>
  /\ pc = "idle" /\ goal = None /\ run = 0 /\ me = Nobody
  /\ trk = NoRetention /\ seq = 1 /\ ord = 1 /\ outcome = None

-----------------------------------------------------------------------------
(* Control.                                                                *)

At(p) == pc = p
Goto(p) == pc' = p
process == <<goal, run, me, trk, seq, ord>>

(* The invocation ends; what it kept in memory is gone.                    *)
End(how) ==
  /\ pc' = "idle" /\ goal' = None /\ me' = Nobody /\ trk' = NoRetention
  /\ seq' = 1 /\ ord' = 1 /\ outcome' = how
  /\ UNCHANGED run

Raise(why) == End(why) /\ UNCHANGED disk

-----------------------------------------------------------------------------
(* run_coding_task up to the trace writer.  prepare_workspace copies the   *)
(* repository to a directory with a fresh name; when it fails, part of the *)
(* copy may stay behind and workspace_root is the base directory.          *)

prepare_workspace(purpose, fails) ==
  /\ At("idle") /\ run < MaxRuns
  /\ run' = run + 1
  /\ ws' \in IF fails THEN {ws, ws \cup {run + 1}} ELSE {ws \cup {run + 1}}
  /\ me' = [setup |-> fails, root |-> IF fails THEN 0 ELSE run + 1,
            purpose |-> purpose]
  /\ Goto(IF fails THEN "setup_histories" ELSE "open")
  /\ outcome' = None
  /\ UNCHANGED <<hist, pays, elog, arts, tman, ridx, rman, journal,
                 goal, trk, seq, ord>>

(* RequestContextWriter.create and RetainedHistoryWriter.create empty      *)
(* their logs; on a setup failure they run before the trace writer.        *)
CreateHistories ==
  /\ pc \in {"setup_histories", "histories"}
  /\ hist' = <<>>
  /\ Goto(IF At("histories") THEN "run" ELSE "open")
  /\ UNCHANGED <<ws, pays, elog, arts, tman, ridx, rman, journal, outcome>>
  /\ UNCHANGED process

-----------------------------------------------------------------------------
(* RunRetentionTracker.                                                    *)

StartUpdate(why, state, purpose) ==
  /\ goal' = why
  /\ trk' = [trk EXCEPT !.state = state, !.purpose = purpose]
  /\ Goto("checksum")
  /\ UNCHANGED disk /\ UNCHANGED <<run, me, seq, ord, outcome>>

OpenFresh ==
  /\ At("open") /\ rman.state = None
  /\ StartUpdate("created", "active", me.purpose)

OpenResumes ==
  /\ At("open") /\ rman.state = "active" /\ rman.purpose = me.purpose
  /\ StartUpdate("resumed", "active", rman.purpose)

OpenRefused ==
  /\ At("open") /\ rman.state # None
  /\ \/ rman.purpose # me.purpose /\ Raise("class_mismatch")
     \/ rman.purpose = me.purpose /\ rman.state = "finalized" /\ Raise("finalized")

create_or_resume == OpenFresh \/ OpenResumes \/ OpenRefused

(* _update: checksum, then _persist (index before manifest, each replaced  *)
(* atomically), then the journal.                                          *)
ComputeChecksum ==
  /\ At("checksum")
  /\ trk' = [trk EXCEPT !.sum = Content]
  /\ Goto("index")
  /\ UNCHANGED disk /\ UNCHANGED <<goal, run, me, seq, ord, outcome>>

WriteIndex ==
  /\ At("index")
  /\ ridx' = [made |-> TRUE, sum |-> trk.sum]
  /\ Goto("manifest")
  /\ UNCHANGED <<ws, hist, pays, elog, arts, tman, rman, journal, outcome>>
  /\ UNCHANGED process

WriteRetentionManifest ==
  /\ At("manifest")
  /\ rman' = trk
  /\ Goto("journal")
  /\ UNCHANGED <<ws, hist, pays, elog, arts, tman, ridx, journal, outcome>>
  /\ UNCHANGED process

EventKind == IF goal \in {"reconcile", "seal"} THEN "finalized" ELSE goal

AppendJournal ==
  /\ At("journal")
  /\ journal' = Append(journal, EventKind)
  /\ Goto(IF goal \in {"created", "resumed"} THEN "trace" ELSE "sync")
  /\ UNCHANGED <<ws, hist, pays, elog, arts, tman, ridx, rman, outcome>>
  /\ UNCHANGED process

-----------------------------------------------------------------------------
(* RuntimeTraceWriter.create, once the tracker is open.                    *)

TraceIsNew ==
  /\ At("trace") /\ tman.kind = None
  /\ Goto("new_manifest")
  /\ UNCHANGED disk /\ UNCHANGED process /\ UNCHANGED outcome

TraceRefused ==
  /\ At("trace")
  /\ \/ tman.kind = "torn" /\ Raise("invalid_manifest")
     \/ tman.kind = "ok" /\ tman.root # me.root /\ Raise("root_mismatch")
     \/ /\ tman.kind = "ok" /\ tman.root = me.root /\ ~tman.ended
        /\ \E i \in DOMAIN elog : elog[i].seq # i
        /\ Raise("invalid_log")

TraceReconciles ==
  /\ At("trace") /\ tman.kind = "ok" /\ tman.root = me.root /\ tman.ended
  /\ StartUpdate("reconcile", "finalized", trk.purpose)

(* Mutant: the last number is used again, and payloads are counted anew.   *)
Mut_restore_ordinals_seq ==
  /\ \A i \in DOMAIN elog : elog[i].seq = i
  /\ seq' = IF elog = <<>> THEN 1 ELSE Len(elog)
  /\ ord' = 1 + Cardinality(DOMAIN pays)

(* A last line without its newline is as good as any other.                *)
_restore_ordinals ==
  /\ \A i \in DOMAIN elog : elog[i].seq = i
  /\ seq' = Len(elog) + 1
  /\ ord' = 1 + (IF DOMAIN pays = {} THEN 0
                 ELSE CHOOSE o \in DOMAIN pays : \A p \in DOMAIN pays : p <= o)

TraceResumes ==
  /\ At("trace") /\ tman.kind = "ok" /\ tman.root = me.root /\ ~tman.ended
  /\ _restore_ordinals
  /\ Goto("sync")
  /\ UNCHANGED disk /\ UNCHANGED <<goal, run, me, trk, outcome>>

OpenTrace == TraceIsNew \/ TraceRefused \/ TraceReconciles \/ TraceResumes

TraceManifest(ended) ==
  [kind |-> "ok", root |-> me.root, ended |-> ended, sum |-> trk.sum]

(* A new manifest is followed by _refresh_retention.                       *)
WriteNewManifest ==
  /\ At("new_manifest")
  /\ tman' = TraceManifest(FALSE)
  /\ goal' = "artifacts_refreshed"
  /\ Goto("checksum")
  /\ UNCHANGED <<ws, hist, pays, elog, arts, ridx, rman, journal>>
  /\ UNCHANGED <<run, me, trk, seq, ord, outcome>>

(* _sync_retention; the last step of create, of finalize and of the        *)
(* reconciliation of an interrupted finalize, which then raises.           *)
SyncManifest ==
  /\ At("sync")
  /\ tman' = TraceManifest(goal \in {"seal", "reconcile"})
  /\ UNCHANGED <<ws, hist, pays, elog, arts, ridx, rman, journal>>
  /\ \/ /\ goal \notin {"seal", "reconcile"}
        /\ Goto(IF me.setup THEN "run" ELSE "histories")
        /\ UNCHANGED process /\ UNCHANGED outcome
     \/ goal = "seal" /\ End("returned")
     \/ goal = "reconcile" /\ End("reconciled")

-----------------------------------------------------------------------------
(* The run itself: run_agent_task writes payloads, events and history      *)
(* lines through the writers it was given.                                 *)

write_json_payload ==
  /\ At("run") /\ ord <= MaxPayloads
  /\ pays' = [o \in DOMAIN pays \cup {ord} |-> IF o = ord THEN run ELSE pays[o]]
  /\ ord' = ord + 1
  /\ UNCHANGED <<ws, hist, elog, arts, tman, ridx, rman, journal,
                 pc, goal, run, me, trk, seq, outcome>>

AppendEvent ==
  /\ At("run") /\ seq <= MaxEvents
  /\ elog' = Appended([seq |-> seq, ref |-> ord - 1, newline |-> TRUE])
  /\ seq' = seq + 1
  /\ UNCHANGED <<ws, hist, pays, arts, tman, ridx, rman, journal,
                 pc, goal, run, me, trk, ord, outcome>>

AppendHistory ==
  /\ At("run") /\ ~me.setup /\ hist = <<>>
  /\ hist' = Append(hist, run)
  /\ UNCHANGED <<ws, pays, elog, arts, tman, ridx, rman, journal, pc, outcome>>
  /\ UNCHANGED process

(* The loop has returned, the verifier has run and the reward is known.    *)
RunEnds ==
  /\ At("run") /\ elog # <<>>
  /\ Goto("trajectory")
  /\ UNCHANGED disk /\ UNCHANGED process /\ UNCHANGED outcome

(* Mutant: the verifier's result is not written.                           *)
Mut_AfterArtifact == [trajectory |-> "tool_profile", tool_profile |-> "patch",
                      verifier |-> "patch", patch |-> "end"]

(* RunRecorder.write_all writes the four files in this order.              *)
AfterArtifact == [trajectory |-> "tool_profile", tool_profile |-> "verifier",
                  verifier |-> "patch", patch |-> "end"]

WriteArtifact ==
  /\ pc \in Artifact
  /\ arts' = [arts EXCEPT ![pc] = "ok"]
  /\ Goto(AfterArtifact[pc])
  /\ UNCHANGED <<ws, hist, pays, elog, tman, ridx, rman, journal, outcome>>
  /\ UNCHANGED process

(* Mutant: the seal comes before the ended manifest.                       *)
Mut_FinalizeTrace ==
  /\ At("end")
  /\ goal' = "seal"
  /\ trk' = [trk EXCEPT !.state = "finalized"]
  /\ Goto("checksum")
  /\ UNCHANGED disk
  /\ UNCHANGED <<run, me, seq, ord, outcome>>

(* RuntimeTraceWriter.finalize: first the manifest, then the seal.         *)
FinalizeTrace ==
  /\ At("end")
  /\ tman' = [TraceManifest(TRUE) EXCEPT !.sum = tman.sum]
  /\ goal' = "seal"
  /\ trk' = [trk EXCEPT !.state = "finalized"]
  /\ Goto("checksum")
  /\ UNCHANGED <<ws, hist, pays, elog, arts, ridx, rman, journal>>
  /\ UNCHANGED <<run, me, seq, ord, outcome>>

-----------------------------------------------------------------------------
(* Faults.                                                                 *)

Crash ==
  /\ ~At("idle")
  /\ Raise("crashed")

(* The crash hits in the middle of a write in place.  Of an event, a part  *)
(* of the JSON text is on the disk, or all of it but not the newline.      *)
CrashTears ==
  /\ End("crashed")
  /\ \/ /\ pc \in {"new_manifest", "sync", "end"}
        /\ tman' = TornManifest
        /\ UNCHANGED <<arts, elog>>
     \/ /\ pc \in Artifact
        /\ arts' = [arts EXCEPT ![pc] = "torn"]
        /\ UNCHANGED <<tman, elog>>
     \/ /\ At("run") /\ seq <= MaxEvents
        /\ \E line \in {Garbage(FALSE),
                        [seq |-> seq, ref |-> ord - 1, newline |-> FALSE]} :
              elog' = Appended(line)
        /\ UNCHANGED <<tman, arts>>
  /\ UNCHANGED <<ws, hist, pays, ridx, rman, journal>>

-----------------------------------------------------------------------------

RetentionUpdate ==
  \/ ComputeChecksum
  \/ WriteIndex
  \/ WriteRetentionManifest
  \/ AppendJournal

TraceWrites ==
  \/ WriteNewManifest
  \/ SyncManifest
  \/ write_json_payload
  \/ AppendEvent
  \/ FinalizeTrace

Next ==
  \/ \E p \in Purpose, f \in BOOLEAN : prepare_workspace(p, f)
  \/ CreateHistories
  \/ create_or_resume
  \/ RetentionUpdate
  \/ OpenTrace
  \/ TraceWrites
  \/ AppendHistory
  \/ RunEnds
  \/ WriteArtifact
  \/ Crash
  \/ CrashTears

Spec == Init /\ [][Next]_vars

-----------------------------------------------------------------------------
(* Properties.                                                             *)

Readable(i) == elog[i].seq # 0
BadLineBefore(i) == \E j \in DOMAIN elog : j < i /\ ~Readable(j)

(* Whatever is appended, torn, resumed or refused, the readable lines of   *)
(* the event log are numbered in order, every payload they refer to was    *)
(* written, and only the last line lacks its newline.  At most one whole   *)
(* line is unreadable, and the numbers say what it holds: they have no gap *)
(* before it, and behind it they go on as behind two events, which is what *)
(* a resumed writer puts on a line that a crash left without newline       *)
(* (writer.py: append, write_json_payload, _restore_ordinals).             *)
EventLogSound ==
  \A i \in DOMAIN elog :
     /\ Readable(i) =>
          /\ elog[i].seq = IF BadLineBefore(i) THEN i + 1 ELSE i
          /\ elog[i].ref = 0 \/ elog[i].ref \in DOMAIN pays
     /\ ~Readable(i) /\ elog[i].newline => ~BadLineBefore(i)
     /\ ~elog[i].newline => i = Len(elog)

(* A sealed run is whole: retention says "finalized" only when all four    *)
(* artifacts are on disk, the index carries the same checksum as the       *)
(* manifest, and the trace manifest was ended (unless a crash tore it      *)
(* later).  An interrupted finalize that a later run reconciles seals no   *)
(* less.                                                                   *)
SealedIsWhole ==
  rman.state = "finalized" =>
     /\ \A a \in Artifact : arts[a] = "ok"
     /\ ridx.made /\ ridx.sum = rman.sum
     /\ tman.kind = "ok" => tman.ended

(* _validate_complete_attempt of eval/run_campaign.py on this directory.   *)
BundleComplete ==
  /\ arts["trajectory"] = "ok" /\ arts["tool_profile"] = "ok"
  /\ tman.kind = "ok" /\ tman.ended

Contract == INSTANCE AttemptBundle WITH
  complete <- BundleComplete,
  running <- ~At("idle"),
  built <- goal = "seal",
  outcome <- IF outcome \in {None, "returned"} THEN outcome ELSE "failed"

(* run_coding_task implements the contract that campaigns rely on: it      *)
(* returns only with a bundle that it completed itself, and a complete     *)
(* bundle is lost only to a crash that tears the trace manifest.           *)
ImplementsContract == Contract!BundleSpec

=============================================================================
