---------------------------- MODULE RunCampaign -----------------------------
(***************************************************************************)
(* execute_profile_run_campaigns and execute_run_campaign of               *)
(* pycodeagent/eval/run_campaign.py: a group of campaigns, one per         *)
(* ToolView profile, each a plan of logical runs that are executed one     *)
(* after another and resumed from what is on disk after a crash, an        *)
(* interrupt or a normal end.                                              *)
(*                                                                         *)
(* All files of the campaign are replaced atomically (_write_json_atomic), *)
(* so each write is one step and a crash falls between two of them.  The   *)
(* run of one attempt follows the contract of AttemptBundle, which         *)
(* RunBundle implements: its directory becomes complete in one step, and a *)
(* crash may take that back.  One process works on the group at a time.    *)
(***************************************************************************)
EXTENDS Naturals, Sequences, FiniteSets

CONSTANTS
  Campaigns,  \* number of campaigns of the group
  Cases,      \* number of runs in each campaign's plan
  Specs,      \* specifications a caller may pass for the output root
  Status,     \* statuses of a recorded trajectory
  MaxFaults   \* bound: crashes, interrupts and errors

ASSUME CampaignConstants ==
  /\ Campaigns \in Nat \ {0} /\ Cases \in Nat \ {0} /\ MaxFaults \in Nat
  /\ "completed" \in Status /\ "none" \notin Status \cup Specs

None == "none"
Campaign == 1 .. Campaigns
Case == Campaign \X (1 .. Cases)

VARIABLES
  \* the disk
  spec,      \* the bound specification of the group and of its campaigns
  attempts,  \* attempts/: per case, the sequence of attempt directories
  record,    \* campaign_run_record.json of each case
  index,     \* campaign_artifact_index.json of each campaign
  failures,  \* campaign_failure_summary.json: the failed runs
  manifest,  \* campaign_manifest.json of each campaign
  group,     \* profile_campaign_group_manifest.json
  \* the process
  pc, at,    \* the next step, and the case it is for
  records,   \* the cases with a record, in memory
  stopped,   \* a KeyboardInterrupt ended the plan
  outcome,   \* how the last invocation ended
  faults     \* faults so far

disk == <<spec, attempts, record, index, failures, manifest, group>>
vars == <<spec, attempts, record, index, failures, manifest, group,
          pc, at, records, stopped, outcome, faults>>

-----------------------------------------------------------------------------
(* State.                                                                  *)

AttemptOutcome ==
  {None, "running", "trajectory_recorded", "executor_error", "interrupted"}
(* One attempt directory: campaign_attempt.json, whether the bundle passes *)
(* _validate_complete_attempt, and the status its trajectory.json holds.   *)
Attempt == [said : AttemptOutcome, complete : BOOLEAN, status : Status \cup {None}]
NewAttempt == [said |-> None, complete |-> FALSE, status |-> None]

(* The files of a complete bundle (RunRecorder, the trace writer) and the  *)
(* names under which _validate_complete_attempt looks for them.            *)
BundleFiles ==
  {"trajectory.json", "tool_profile.json", "verifier.json", "final.patch",
   "runtime_trace.jsonl", "runtime_trace_manifest.json",
   "run_retention_manifest.json"}
ArtifactName ==
  [trajectory |-> "trajectory.json", tool_profile |-> "tool_profile.json",
   runtime_trace |-> "runtime_trace.jsonl",
   runtime_trace_manifest |-> "runtime_trace_manifest.json",
   verifier |-> "verifier.json", patch |-> "patch.diff",
   run_retention_manifest |-> "run_retention_manifest.json"]
artifact_paths == {a \in DOMAIN ArtifactName : ArtifactName[a] \in BundleFiles}

CampaignRunRecord ==
  [outcome : {"trajectory_recorded", "executor_error"}, attempt : Nat,
   status : Status \cup {None}, artifacts : SUBSET DOMAIN ArtifactName]
NoRecord == [outcome |-> None, attempt |-> 0, status |-> None, artifacts |-> {}]

IndexEntry == [record : CampaignRunRecord \cup {NoRecord}, attempts : Nat]
NoIndex == <<>>

Pc == {"idle", "case", "mkdir", "mark", "execute", "attempt_record",
       "run_record", "keep", "error_attempt", "error_record", "interrupt",
       "index", "failures", "manifest", "group"}

Plan(k) == {k} \X (1 .. Cases)

TypeOK ==
  /\ spec \in Specs \cup {None}
  /\ attempts \in [Case -> Seq(Attempt)]
  /\ \A c \in Case : record[c] \in CampaignRunRecord \cup {NoRecord}
  /\ \A k \in Campaign :
       /\ index[k] = NoIndex \/ \A c \in Plan(k) : index[k][c] \in IndexEntry
       /\ failures[k] \subseteq Plan(k)
       /\ manifest[k].terminal \in 0 .. Cases /\ manifest[k].ok \in BOOLEAN
  /\ group.terminal \in 0 .. Campaigns * Cases /\ group.ok \in BOOLEAN
  /\ pc \in Pc /\ at \in Campaign \X (1 .. Cases + 1)
  /\ records \subseteq Case /\ stopped \in BOOLEAN
  /\ outcome \in {None, "returned", "interrupted", "spec_mismatch", "crashed"}
  /\ faults \in 0 .. MaxFaults

NoManifest == [terminal |-> 0, ok |-> FALSE]

Init ==
  /\ spec = None
  /\ attempts = [c \in Case |-> <<>>]
  /\ record = [c \in Case |-> NoRecord]
  /\ index = [k \in Campaign |-> NoIndex]
  /\ failures = [k \in Campaign |-> {}]
  /\ manifest = [k \in Campaign |-> NoManifest]
  /\ group = NoManifest
  /\ pc = "idle" /\ at = <<1, 1>> /\ records = {} /\ stopped = FALSE
  /\ outcome = None /\ faults = 0

-----------------------------------------------------------------------------

Goto(p) == pc' = p
At(p) == pc = p
Last == Len(attempts[at])
UpdateAttempt(a) == attempts' = [attempts EXCEPT ![at][Last] = a]
SetAttempt(outc) == UpdateAttempt([attempts[at][Last] EXCEPT !.said = outc])
NextCase == at' = <<at[1], at[2] + 1>> /\ Goto("case")
SetRecord(r) == record' = [record EXCEPT ![at] = r]

End(how) ==
  /\ pc' = "idle" /\ at' = <<1, 1>> /\ records' = {} /\ stopped' = FALSE
  /\ outcome' = how

(* The output root is bound to its first specification; a different one    *)
(* is refused before anything else happens.                                *)
Invoke(s) ==
  /\ At("idle")
  /\ IF spec \in {None, s}
     THEN spec' = s /\ Goto("case") /\ outcome' = None
     ELSE Goto("idle") /\ outcome' = "spec_mismatch" /\ UNCHANGED spec
  /\ UNCHANGED <<attempts, record, index, failures, manifest, group,
                 at, records, stopped, faults>>

(* A run with a terminal record is validated and skipped.                  *)
RecordValid(c) ==
  LET r == record[c]
  IN /\ r.attempt \in DOMAIN attempts[c]
     /\ attempts[c][r.attempt].said # None
     /\ r.outcome = "trajectory_recorded" => attempts[c][r.attempt].complete

Mut_SkipRecorded_refuses ==
  /\ At("case") /\ at \in Case /\ record[at] # NoRecord
  /\ IF record[at].outcome = "trajectory_recorded"
     THEN NextCase /\ records' = records \cup {at} /\ UNCHANGED <<stopped, outcome>>
     ELSE End("crashed")
  /\ UNCHANGED disk /\ UNCHANGED faults

SkipRecorded ==
  /\ At("case") /\ at \in Case /\ record[at] # NoRecord
  /\ RecordValid(at)
  /\ records' = records \cup {at}
  /\ NextCase
  /\ UNCHANGED disk /\ UNCHANGED <<stopped, outcome, faults>>

TrajectoryRecord(c, n) ==
  [outcome |-> "trajectory_recorded", attempt |-> n,
   status |-> attempts[c][n].status, artifacts |-> artifact_paths]

(* Mutant: only attempts already marked as recorded are recovered.         *)
Mut_CompleteAttempts(c) ==
  {n \in DOMAIN attempts[c] :
     attempts[c][n].complete /\ attempts[c][n].said = "trajectory_recorded"}

CompleteAttempts(c) == {n \in DOMAIN attempts[c] : attempts[c][n].complete}

(* _recover_completed_attempt: the newest complete attempt, if any.        *)
Recover ==
  /\ At("case") /\ at \in Case /\ record[at] = NoRecord
  /\ \E n \in CompleteAttempts(at) :
       /\ \A m \in CompleteAttempts(at) : m <= n
       /\ SetRecord(TrajectoryRecord(at, n))
  /\ records' = records \cup {at}
  /\ NextCase
  /\ UNCHANGED <<spec, attempts, index, failures, manifest, group,
                 stopped, outcome, faults>>

NeedsAttempt ==
  /\ At("case") /\ at \in Case /\ record[at] = NoRecord
  /\ CompleteAttempts(at) = {}
  /\ Goto("mkdir")
  /\ UNCHANGED disk /\ UNCHANGED <<at, records, stopped, outcome, faults>>

(* The next number is one more than the highest directory's, which is the  *)
(* number of directories: they are numbered from 1 and never removed.      *)
MakeAttempt ==
  /\ At("mkdir")
  /\ attempts' = [attempts EXCEPT ![at] = Append(@, NewAttempt)]
  /\ Goto("mark")
  /\ UNCHANGED <<spec, record, index, failures, manifest, group,
                 at, records, stopped, outcome, faults>>

MarkRunning ==
  /\ At("mark")
  /\ SetAttempt("running")
  /\ Goto("execute")
  /\ UNCHANGED <<spec, record, index, failures, manifest, group,
                 at, records, stopped, outcome, faults>>

-----------------------------------------------------------------------------
(* The executor, by the contract of AttemptBundle.                         *)

ExecutorCompletes ==
  /\ At("execute") /\ ~attempts[at][Last].complete
  /\ \E s \in Status :
       UpdateAttempt([attempts[at][Last] EXCEPT !.complete = TRUE, !.status = s])
  /\ UNCHANGED <<spec, record, index, failures, manifest, group,
                 pc, at, records, stopped, outcome, faults>>

(* Mutant: the returned trajectory is recorded without validation.         *)
Mut_ExecutorReturns ==
  /\ At("execute")
  /\ Goto("attempt_record")
  /\ UNCHANGED disk /\ UNCHANGED <<at, records, stopped, outcome, faults>>

ExecutorReturns ==
  /\ At("execute") /\ attempts[at][Last].complete
  /\ Goto("attempt_record")
  /\ UNCHANGED disk /\ UNCHANGED <<at, records, stopped, outcome, faults>>

(* A run that is cut short may leave a torn manifest.                      *)
Spoil ==
  /\ At("execute")
  /\ UpdateAttempt([attempts[at][Last] EXCEPT !.complete = FALSE])

(* An exception out of the client, of the executor, of _trajectory_record  *)
(* or of one of the two writes that follow.                                *)
ExecutorRaises ==
  /\ pc \in {"execute", "attempt_record", "run_record"} /\ faults < MaxFaults
  /\ faults' = faults + 1
  /\ Goto("error_attempt")
  /\ UNCHANGED attempts \/ Spoil
  /\ UNCHANGED <<spec, record, index, failures, manifest, group,
                 at, records, stopped, outcome>>

(* KeyboardInterrupt or SystemExit anywhere in the try block.              *)
Interrupted ==
  /\ pc \in {"execute", "attempt_record", "run_record", "keep"}
  /\ pc = "keep" => record[at].outcome = "trajectory_recorded"
  /\ faults < MaxFaults
  /\ faults' = faults + 1
  /\ Goto("interrupt")
  /\ UNCHANGED attempts \/ Spoil
  /\ UNCHANGED <<spec, record, index, failures, manifest, group,
                 at, records, stopped, outcome>>

-----------------------------------------------------------------------------
(* Recording the attempt.                                                  *)

WriteAttemptRecord ==
  /\ At("attempt_record")
  /\ SetAttempt("trajectory_recorded")
  /\ Goto("run_record")
  /\ UNCHANGED <<spec, record, index, failures, manifest, group,
                 at, records, stopped, outcome, faults>>

WriteRunRecord ==
  /\ At("run_record")
  /\ SetRecord(TrajectoryRecord(at, Last))
  /\ Goto("keep")
  /\ UNCHANGED <<spec, attempts, index, failures, manifest, group,
                 at, records, stopped, outcome, faults>>

KeepRecord ==
  /\ At("keep")
  /\ records' = records \cup {at}
  /\ NextCase
  /\ UNCHANGED disk /\ UNCHANGED <<stopped, outcome, faults>>

WriteErrorAttempt ==
  /\ At("error_attempt")
  /\ SetAttempt("executor_error")
  /\ Goto("error_record")
  /\ UNCHANGED <<spec, record, index, failures, manifest, group,
                 at, records, stopped, outcome, faults>>

WriteErrorRecord ==
  /\ At("error_record")
  /\ SetRecord([outcome |-> "executor_error", attempt |-> Last, status |-> None,
                artifacts |-> {}])
  /\ Goto("keep")
  /\ UNCHANGED <<spec, attempts, index, failures, manifest, group,
                 at, records, stopped, outcome, faults>>

WriteInterrupted ==
  /\ At("interrupt")
  /\ SetAttempt("interrupted")
  /\ stopped' = TRUE
  /\ Goto("index")
  /\ UNCHANGED <<spec, record, index, failures, manifest, group,
                 at, records, outcome, faults>>

-----------------------------------------------------------------------------
(* _write_campaign_artifacts, from the records in memory.                  *)

Current == at[1]
Known == records \cap Plan(Current)

PlanDone ==
  /\ At("case") /\ at \notin Case
  /\ Goto("index")
  /\ UNCHANGED disk /\ UNCHANGED <<at, records, stopped, outcome, faults>>

WriteArtifactIndex ==
  /\ At("index")
  /\ index' = [index EXCEPT ![Current] =
       [c \in Plan(Current) |-> [record |-> IF c \in Known THEN record[c] ELSE NoRecord,
                                 attempts |-> Len(attempts[c])]]]
  /\ Goto("failures")
  /\ UNCHANGED <<spec, attempts, record, failures, manifest, group,
                 at, records, stopped, outcome, faults>>

Failed(c) ==
  record[c].outcome = "executor_error" \/ record[c].status # "completed"

WriteFailureSummary ==
  /\ At("failures")
  /\ failures' = [failures EXCEPT ![Current] = {c \in Known : Failed(c)}]
  /\ Goto("manifest")
  /\ UNCHANGED <<spec, attempts, record, index, manifest, group,
                 at, records, stopped, outcome, faults>>

(* Mutant: executor errors do not count against the contract.              *)
Mut_ContractOk == Known = Plan(Current)

ContractOk ==
  /\ Known = Plan(Current)
  /\ \A c \in Known : record[c].outcome # "executor_error"

(* After its manifest the campaign raises the interrupt again, or returns  *)
(* to the group, which goes on with the next one.                          *)
WriteCampaignManifest ==
  /\ At("manifest")
  /\ manifest' = [manifest EXCEPT ![Current] =
       [terminal |-> Cardinality(Known), ok |-> ContractOk]]
  /\ UNCHANGED <<spec, attempts, record, index, failures, group, faults>>
  /\ \/ stopped /\ End("interrupted")
     \/ /\ ~stopped
        /\ IF Current < Campaigns THEN at' = <<Current + 1, 1>> /\ Goto("case")
                                  ELSE UNCHANGED at /\ Goto("group")
        /\ UNCHANGED <<records, stopped, outcome>>

WriteGroupManifest ==
  /\ At("group")
  /\ group' = [terminal |-> Cardinality(records),
               ok |-> \A j \in Campaign : manifest[j].ok]
  /\ End("returned")
  /\ UNCHANGED <<spec, attempts, record, index, failures, manifest, faults>>

Crash ==
  /\ ~At("idle") /\ faults < MaxFaults
  /\ faults' = faults + 1
  /\ End("crashed")
  /\ UNCHANGED attempts \/ Spoil
  /\ UNCHANGED <<spec, record, index, failures, manifest, group>>

-----------------------------------------------------------------------------

RunPlan ==
  \/ SkipRecorded \/ Recover \/ NeedsAttempt \/ MakeAttempt \/ MarkRunning
  \/ ExecutorCompletes \/ ExecutorReturns
  \/ WriteAttemptRecord \/ WriteRunRecord \/ KeepRecord
  \/ WriteErrorAttempt \/ WriteErrorRecord \/ WriteInterrupted
  \/ PlanDone

WriteCampaignArtifacts ==
  \/ WriteArtifactIndex \/ WriteFailureSummary
  \/ WriteCampaignManifest \/ WriteGroupManifest

Next ==
  \/ \E s \in Specs : Invoke(s)
  \/ RunPlan
  \/ WriteCampaignArtifacts
  \/ ExecutorRaises \/ Interrupted \/ Crash

Spec == Init /\ [][Next]_vars

(* The process runs on; a campaign that did not finish is invoked again    *)
(* with its own specification; the executor ends (the agent loop does).    *)
Fairness ==
  /\ WF_vars(RunPlan \/ WriteCampaignArtifacts)
  /\ \A s \in Specs : WF_vars(spec \in {None, s} /\ Invoke(s))

FairSpec == Spec /\ Fairness
-----------------------------------------------------------------------------
(* Properties.                                                             *)

Recorded(c) == record[c] # NoRecord

(* Rule 2: a run with a complete attempt on disk, recorded or not, is      *)
(* never executed again, however the previous invocation ended             *)
(* (_recover_completed_attempt).                                           *)
NoRerunOfComplete ==
  [][\A c \in Case :
       Len(attempts'[c]) > Len(attempts[c])
         => ~Recorded(c) /\ \A n \in DOMAIN attempts[c] : ~attempts[c][n].complete]_vars

(* Every record stands on an attempt that a resume will accept: its        *)
(* directory is marked and, for a trajectory, complete with the recorded   *)
(* status.  _load_and_validate_record never raises for the campaign's own  *)
(* records.                                                                *)
RecordIsEvidence ==
  \A c \in Case : Recorded(c) =>
    /\ RecordValid(c)
    /\ record[c].outcome = "trajectory_recorded"
         => record[c].status = attempts[c][record[c].attempt].status

AllClean(C) ==
  \A c \in C : record[c].outcome = "trajectory_recorded"

(* contract_ok in a campaign manifest or in the group manifest, stale or   *)
(* not, is true only when every planned run has its trajectory on record.  *)
ManifestHonest ==
  /\ \A k \in Campaign : manifest[k].ok => AllClean(Plan(k))
  /\ group.ok => AllClean(Case)

(* However its invocations are cut short, a group that is resumed ends     *)
(* with every planned run on record and counted.                           *)
CampaignFinishes == <>[](group.terminal = Campaigns * Cases)

=============================================================================
