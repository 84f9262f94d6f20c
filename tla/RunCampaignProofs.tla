------------------------- MODULE RunCampaignProofs --------------------------
(***************************************************************************)
(* The theorems about RunCampaign: its type invariant, that every record   *)
(* stands on evidence, that the manifests are honest and that no complete  *)
(* run is executed again, for every size of the group and of its plans.    *)
(***************************************************************************)
EXTENDS RunCampaign, FiniteSetTheorems, TLAPS

-----------------------------------------------------------------------------
(* The inductive invariant.                                                *)

Record == CampaignRunRecord \cup {NoRecord}

(* The files of the group have an entry for each case or campaign.         *)
ShapeOK ==
  /\ record \in [Case -> Record]
  /\ DOMAIN index = Campaign
  /\ failures \in [Campaign -> SUBSET Case]
  /\ manifest \in [Campaign -> [terminal : 0 .. Cases, ok : BOOLEAN]]
  /\ group \in [terminal : 0 .. Campaigns * Cases, ok : BOOLEAN]

(* Steps at which the last attempt of the case is under way.               *)
Marked == {"execute", "attempt_record", "run_record", "error_attempt", "error_record"}
Attempting == Marked \cup {"mark", "keep", "interrupt"}

LastAttempt == attempts[at][Last]

(* A bundle is completed only by an executor, after its directory was      *)
(* marked.                                                                 *)
AttemptFacts ==
  \A c \in Case : \A n \in DOMAIN attempts[c] :
     attempts[c][n].complete => attempts[c][n].said # None

(* What each step knows of the case it works on.                           *)
PlaceFacts ==
  /\ pc \in Attempting \cup {"mkdir"} => at \in Case
  /\ pc = "mkdir" => record[at] = NoRecord /\ CompleteAttempts(at) = {}
  /\ pc \in Attempting => Last > 0
  /\ pc \in Marked \cup {"mark"} => record[at] = NoRecord
  /\ pc = "mark" => ~LastAttempt.complete
  /\ pc \in Marked => LastAttempt.said # None
  /\ pc \in {"attempt_record", "run_record"} => LastAttempt.complete
  /\ pc = "keep" => record[at] # NoRecord

(* The records in memory are on disk.                                      *)
MemoryFacts == \A c \in records : Recorded(c)

CampaignInvariant ==
  /\ TypeOK
  /\ ShapeOK
  /\ AttemptFacts
  /\ PlaceFacts
  /\ MemoryFacts
  /\ RecordIsEvidence
  /\ ManifestHonest

-----------------------------------------------------------------------------
USE CampaignConstants DEF None, Goto, At, disk, Marked, Attempting

(* The effect of rewriting the last attempt of the current case: nothing   *)
(* else changes, and no attempt is added.                                  *)
LEMMA AttemptUpdate ==
  ASSUME TypeOK, at \in Case, Last > 0, NEW a \in Attempt, UpdateAttempt(a)
  PROVE  /\ attempts' \in [Case -> Seq(Attempt)]
         /\ \A c \in Case : DOMAIN attempts'[c] = DOMAIN attempts[c]
                           /\ Len(attempts'[c]) = Len(attempts[c])
         /\ \A c \in Case : \A n \in DOMAIN attempts[c] :
              attempts'[c][n] = IF c = at /\ n = Last THEN a ELSE attempts[c][n]
         /\ Last \in DOMAIN attempts[at]
<1> DEFINE old == attempts[at]
           new == [old EXCEPT ![Last] = a]
<1>1. attempts \in [Case -> Seq(Attempt)] /\ old \in Seq(Attempt) /\ Last = Len(old)
  BY DEF TypeOK, Last
<1>2. /\ new \in Seq(Attempt) /\ Len(new) = Len(old) /\ DOMAIN new = DOMAIN old
      /\ \A n \in DOMAIN old : new[n] = IF n = Last THEN a ELSE old[n]
      /\ Last \in DOMAIN old
  BY <1>1
<1>3. attempts' = [attempts EXCEPT ![at] = new]
  BY <1>1 DEF UpdateAttempt
<1> HIDE DEF new
<1>4. attempts' \in [Case -> Seq(Attempt)]
      /\ \A c \in Case : attempts'[c] = IF c = at THEN new ELSE attempts[c]
  BY <1>1, <1>2, <1>3
<1> QED BY <1>1, <1>2, <1>4


(* The attempt of the current case is rewritten.  A case under way has no  *)
(* record unless it was interrupted after the record was written, and then *)
(* only what the attempt says of itself changes.                           *)
LEMMA AttemptWrite ==
  ASSUME CampaignInvariant, at \in Case, Last > 0,
         NEW a \in Attempt, UpdateAttempt(a), UNCHANGED <<record, manifest, group>>,
         a.complete => a.said # None,
         record[at] # NoRecord => /\ a.complete = LastAttempt.complete
                                  /\ a.status = LastAttempt.status
                                  /\ a.said # None
  PROVE  /\ attempts' \in [Case -> Seq(Attempt)]
         /\ attempts'[at][Last] = a /\ Len(attempts'[at]) = Last
         /\ AttemptFacts' /\ RecordIsEvidence' /\ ManifestHonest'
<1> USE DEF CampaignInvariant
<1>1. /\ attempts' \in [Case -> Seq(Attempt)]
      /\ \A c \in Case : DOMAIN attempts'[c] = DOMAIN attempts[c]
                        /\ Len(attempts'[c]) = Len(attempts[c])
      /\ \A c \in Case : \A n \in DOMAIN attempts[c] :
           attempts'[c][n] = IF c = at /\ n = Last THEN a ELSE attempts[c][n]
      /\ Last \in DOMAIN attempts[at]
  BY AttemptUpdate
<1>2. AttemptFacts'
  BY <1>1 DEF AttemptFacts
<1>3. RecordIsEvidence'
  <2> SUFFICES ASSUME NEW c \in Case, Recorded(c)
               PROVE  /\ RecordValid(c)'
                      /\ record[c].outcome = "trajectory_recorded"
                           => record[c].status = attempts'[c][record[c].attempt].status
    BY DEF RecordIsEvidence, Recorded
  <2> DEFINE n == record[c].attempt
  <2>1. /\ n \in DOMAIN attempts[c] /\ attempts[c][n].said # None
        /\ record[c].outcome = "trajectory_recorded" => 
             attempts[c][n].complete /\ record[c].status = attempts[c][n].status
    BY DEF RecordIsEvidence, RecordValid
  <2>2. /\ n \in DOMAIN attempts'[c] /\ attempts'[c][n].said # None
        /\ attempts'[c][n].complete = attempts[c][n].complete
        /\ attempts'[c][n].status = attempts[c][n].status
    <3>1. CASE c = at /\ n = Last
      BY <1>1, <2>1, <3>1 DEF Recorded, LastAttempt
    <3>2. CASE ~(c = at /\ n = Last)
      BY <1>1, <2>1, <3>2
    <3> QED BY <3>1, <3>2
  <2> QED BY <2>1, <2>2 DEF RecordValid
<1>4. ManifestHonest'
  BY DEF ManifestHonest, AllClean
<1> QED BY <1>1, <1>2, <1>3, <1>4 DEF Last

(* The record of a case that had none is written, on an attempt that       *)
(* supports it.  No record that a manifest counts on changes.              *)
LEMMA RecordWrite ==
  ASSUME CampaignInvariant, at \in Case, record[at] = NoRecord,
         NEW r \in CampaignRunRecord, SetRecord(r),
         UNCHANGED <<attempts, manifest, group>>,
         r.attempt \in DOMAIN attempts[at], attempts[at][r.attempt].said # None,
         r.outcome = "trajectory_recorded" =>
           attempts[at][r.attempt].complete /\ r.status = attempts[at][r.attempt].status
  PROVE  /\ record' \in [Case -> Record] /\ record'[at] # NoRecord
         /\ \A c \in Case : Recorded(c) \/ c = at => Recorded(c)'
         /\ RecordIsEvidence' /\ ManifestHonest'
<1> USE DEF CampaignInvariant
<1>1. r # NoRecord /\ NoRecord.outcome # "trajectory_recorded"
  BY DEF CampaignRunRecord, NoRecord
<1>2. /\ record' \in [Case -> Record]
      /\ \A c \in Case : record'[c] = IF c = at THEN r ELSE record[c]
  BY DEF SetRecord, ShapeOK, Record
<1>3. \A c \in Case : Recorded(c) \/ c = at => Recorded(c)'
  BY <1>1, <1>2 DEF Recorded
<1>4. RecordIsEvidence'
  BY <1>1, <1>2 DEF RecordIsEvidence, RecordValid, Recorded
<1>5. \A C \in SUBSET Case : AllClean(C) => AllClean(C)'
  BY <1>1, <1>2 DEF AllClean
<1>6. Case \in SUBSET Case /\ \A k \in Campaign : Plan(k) \in SUBSET Case
  BY DEF Plan, Case
<1>7. ManifestHonest'
  BY <1>5, <1>6 DEF ManifestHonest
<1> QED BY <1>1, <1>2, <1>3, <1>4, <1>7

(* The sizes of the plans.                                                 *)
LEMMA PlanSizes ==
  /\ IsFiniteSet(Case) /\ Cardinality(Case) = Campaigns * Cases
  /\ \A k \in Campaign : IsFiniteSet(Plan(k)) /\ Cardinality(Plan(k)) = Cases
<1>1. IsFiniteSet(1 .. Cases) /\ Cardinality(1 .. Cases) = Cases
  BY FS_Interval
<1>2. IsFiniteSet(Campaign) /\ Cardinality(Campaign) = Campaigns
  BY FS_Interval DEF Campaign
<1>3. IsFiniteSet(Case) /\ Cardinality(Case) = Campaigns * Cases
  BY <1>1, <1>2, FS_Product DEF Case
<1>4. ASSUME NEW k \in Campaign
      PROVE  IsFiniteSet(Plan(k)) /\ Cardinality(Plan(k)) = Cases
  <2>1. IsFiniteSet({k}) /\ Cardinality({k}) = 1
    BY FS_Singleton
  <2>2. IsFiniteSet({k} \X (1 .. Cases)) /\ Cardinality({k} \X (1 .. Cases)) = 1 * Cases
    BY ZenonT(30), <1>1, <2>1, FS_Product
  <2> QED BY <2>2 DEF Plan
<1> QED BY <1>3, <1>4

(* A step of the process that leaves the disk alone keeps what the         *)
(* invariant says of the disk.                                             *)
LEMMA DiskAlone ==
  ASSUME CampaignInvariant, UNCHANGED <<attempts, record, index, failures, manifest, group>>
  PROVE  ShapeOK' /\ AttemptFacts' /\ RecordIsEvidence' /\ ManifestHonest'
<1> USE DEF CampaignInvariant
<1> QED BY DEF ShapeOK, AttemptFacts, RecordIsEvidence, RecordValid, Recorded,
            ManifestHonest, AllClean

(* An invocation starts, or its specification is refused.                  *)
LEMMA InvokeKeeps ==
  ASSUME CampaignInvariant, NEW s \in Specs, Invoke(s)
  PROVE  CampaignInvariant'
<1> USE DEF CampaignInvariant, Invoke
<1>1. ShapeOK' /\ AttemptFacts' /\ RecordIsEvidence' /\ ManifestHonest'
  BY DiskAlone
<1>2. TypeOK'
  BY DEF TypeOK, Pc
<1>3. PlaceFacts'
  BY DEF PlaceFacts, LastAttempt, Last, CompleteAttempts
<1>4. MemoryFacts'
  BY DEF MemoryFacts, Recorded, PlaceFacts
<1> QED BY <1>1, <1>2, <1>3, <1>4

(* A recorded run is skipped.                                              *)
LEMMA SkipRecordedKeeps ==
  ASSUME CampaignInvariant, SkipRecorded
  PROVE  CampaignInvariant'
<1> USE DEF CampaignInvariant, SkipRecorded, NextCase
<1>1. ShapeOK' /\ AttemptFacts' /\ RecordIsEvidence' /\ ManifestHonest'
  BY DiskAlone
<1>2. TypeOK'
  BY DEF TypeOK, Pc, Case
<1>3. PlaceFacts'
  BY DEF PlaceFacts, LastAttempt, Last, CompleteAttempts
<1>4. MemoryFacts'
  BY DEF MemoryFacts, Recorded, PlaceFacts
<1> QED BY <1>1, <1>2, <1>3, <1>4

(* The newest complete attempt of a run without a record is recorded.      *)
LEMMA RecoverKeeps ==
  ASSUME CampaignInvariant, Recover
  PROVE  CampaignInvariant'
<1> USE DEF CampaignInvariant, Recover, NextCase
<1>0. PICK n \in CompleteAttempts(at) : SetRecord(TrajectoryRecord(at, n))
  OBVIOUS
<1> DEFINE r == TrajectoryRecord(at, n)
<1>1. /\ at \in Case /\ record[at] = NoRecord /\ SetRecord(r)
      /\ r.attempt \in DOMAIN attempts[at]
      /\ attempts[at][r.attempt].said # None
  BY <1>0 DEF CompleteAttempts, AttemptFacts, TrajectoryRecord
<1>2. r \in CampaignRunRecord
  <2>1. attempts[at] \in Seq(Attempt)
    BY <1>1 DEF TypeOK
  <2>2. \A i \in DOMAIN attempts[at] : i \in Nat /\ attempts[at][i] \in Attempt
    BY <2>1
  <2>3. r.attempt \in Nat /\ attempts[at][r.attempt].status \in Status \cup {None}
    BY <1>1, <2>2 DEF Attempt
  <2>4. artifact_paths \in SUBSET DOMAIN ArtifactName
    BY DEF artifact_paths
  <2> QED BY <2>3, <2>4 DEF TrajectoryRecord, CampaignRunRecord
<1>3. r.outcome = "trajectory_recorded" =>
        attempts[at][r.attempt].complete /\ r.status = attempts[at][r.attempt].status
  BY <1>0 DEF TrajectoryRecord, PlaceFacts, LastAttempt, CompleteAttempts
<1> HIDE DEF r
<1>4. /\ record' \in [Case -> Record] /\ record'[at] # NoRecord
      /\ \A c \in Case : Recorded(c) \/ c = at => Recorded(c)'
      /\ RecordIsEvidence' /\ ManifestHonest'
  BY <1>1, <1>2, <1>3, RecordWrite
<1>5. TypeOK' /\ ShapeOK'
  BY SMTT(30), <1>1, <1>4 DEF TypeOK, ShapeOK, Pc, Record, Case
<1>6. AttemptFacts' /\ PlaceFacts' /\ MemoryFacts'
  BY <1>1, <1>4 DEF AttemptFacts, PlaceFacts, Last, MemoryFacts, TypeOK
<1> QED BY <1>4, <1>5, <1>6

(* A run without a record or a complete attempt needs a new attempt.       *)
LEMMA NeedsAttemptKeeps ==
  ASSUME CampaignInvariant, NeedsAttempt
  PROVE  CampaignInvariant'
<1> USE DEF CampaignInvariant, NeedsAttempt
<1>1. ShapeOK' /\ AttemptFacts' /\ RecordIsEvidence' /\ ManifestHonest'
  BY DiskAlone
<1>2. TypeOK'
  BY DEF TypeOK, Pc
<1>3. PlaceFacts'
  BY DEF PlaceFacts, LastAttempt, Last, CompleteAttempts
<1>4. MemoryFacts'
  BY DEF MemoryFacts, Recorded, PlaceFacts
<1> QED BY <1>1, <1>2, <1>3, <1>4

(* A new, empty attempt directory is made.                                 *)
LEMMA MakeAttemptKeeps ==
  ASSUME CampaignInvariant, MakeAttempt
  PROVE  CampaignInvariant'
<1> USE DEF CampaignInvariant, MakeAttempt
<1> DEFINE old == attempts[at]
<1>1. /\ at \in Case /\ attempts \in [Case -> Seq(Attempt)] /\ old \in Seq(Attempt)
      /\ NewAttempt \in Attempt /\ ~NewAttempt.complete /\ record[at] = NoRecord
  BY DEF PlaceFacts, TypeOK, NewAttempt, Attempt, AttemptOutcome
<1> HIDE DEF NewAttempt
<1>2. /\ attempts' \in [Case -> Seq(Attempt)]
      /\ Len(attempts'[at]) = Len(old) + 1 /\ attempts'[at][Len(old) + 1] = NewAttempt
      /\ \A n \in DOMAIN old : n \in DOMAIN attempts'[at] /\ attempts'[at][n] = old[n]
      /\ \A n \in DOMAIN attempts'[at] : n \in DOMAIN old \/ n = Len(old) + 1
      /\ \A c \in Case : c # at => attempts'[c] = attempts[c]
  BY <1>1
<1>3. AttemptFacts'
  BY <1>1, <1>2 DEF AttemptFacts
<1>4. RecordIsEvidence' /\ ManifestHonest'
  BY <1>1, <1>2 DEF RecordIsEvidence, RecordValid, Recorded, ManifestHonest, AllClean
<1>5. TypeOK' /\ ShapeOK'
  BY <1>2 DEF TypeOK, ShapeOK, Pc
<1>6. Len(old) \in Nat
  BY <1>1
<1>7. PlaceFacts' /\ MemoryFacts'
  BY <1>1, <1>2, <1>6 DEF PlaceFacts, LastAttempt, Last, MemoryFacts, Recorded
<1> QED BY <1>3, <1>4, <1>5, <1>7

(* The new attempt is marked as running.                                   *)
LEMMA MarkRunningKeeps ==
  ASSUME CampaignInvariant, MarkRunning
  PROVE  CampaignInvariant'
<1> USE DEF CampaignInvariant, MarkRunning, SetAttempt
<1> DEFINE a == [LastAttempt EXCEPT !.said = "running"]
<1>1. at \in Case /\ Last > 0 /\ LastAttempt \in Attempt
  BY DEF PlaceFacts, LastAttempt, Last, TypeOK
<1>2. /\ a \in Attempt /\ UpdateAttempt(a) /\ a.said # None
      /\ a.complete = LastAttempt.complete /\ a.status = LastAttempt.status
  BY <1>1 DEF LastAttempt, Attempt, AttemptOutcome
<1> HIDE DEF a
<1>3. /\ attempts' \in [Case -> Seq(Attempt)]
      /\ attempts'[at][Last] = a /\ Len(attempts'[at]) = Last
      /\ AttemptFacts' /\ RecordIsEvidence' /\ ManifestHonest'
  BY <1>1, <1>2, AttemptWrite
<1>4. TypeOK' /\ ShapeOK'
  BY <1>3 DEF TypeOK, ShapeOK, Pc
<1>5. PlaceFacts'
  BY <1>1, <1>2, <1>3 DEF PlaceFacts, LastAttempt, Last
<1>6. MemoryFacts'
  BY DEF MemoryFacts, Recorded
<1> QED BY <1>3, <1>4, <1>5, <1>6

(* The executor completes the bundle of the attempt it was given.          *)
LEMMA ExecutorCompletesKeeps ==
  ASSUME CampaignInvariant, ExecutorCompletes
  PROVE  CampaignInvariant'
<1> USE DEF CampaignInvariant, ExecutorCompletes
<1>1. at \in Case /\ Last > 0 /\ LastAttempt \in Attempt
  BY DEF PlaceFacts, LastAttempt, Last, TypeOK
<1>2. PICK s \in Status : UpdateAttempt([LastAttempt EXCEPT !.complete = TRUE, !.status = s])
  BY DEF LastAttempt
<1> DEFINE a == [LastAttempt EXCEPT !.complete = TRUE, !.status = s]
<1>3. a \in Attempt /\ UpdateAttempt(a) /\ a.said # None /\ record[at] = NoRecord
  BY <1>1, <1>2 DEF Attempt, PlaceFacts
<1> HIDE DEF a
<1>4. /\ attempts' \in [Case -> Seq(Attempt)]
      /\ attempts'[at][Last] = a /\ Len(attempts'[at]) = Last
      /\ AttemptFacts' /\ RecordIsEvidence' /\ ManifestHonest'
  BY <1>1, <1>3, AttemptWrite
<1>5. TypeOK' /\ ShapeOK'
  BY <1>4 DEF TypeOK, ShapeOK, Pc
<1>6. PlaceFacts'
  BY <1>1, <1>3, <1>4 DEF PlaceFacts, LastAttempt, Last
<1>7. MemoryFacts'
  BY DEF MemoryFacts, Recorded
<1> QED BY <1>4, <1>5, <1>6, <1>7

(* The executor returned and its bundle validates.                         *)
LEMMA ExecutorReturnsKeeps ==
  ASSUME CampaignInvariant, ExecutorReturns
  PROVE  CampaignInvariant'
<1> USE DEF CampaignInvariant, ExecutorReturns
<1>1. ShapeOK' /\ AttemptFacts' /\ RecordIsEvidence' /\ ManifestHonest'
  BY DiskAlone
<1>2. TypeOK'
  BY DEF TypeOK, Pc
<1>3. PlaceFacts'
  BY DEF PlaceFacts, LastAttempt, Last, CompleteAttempts
<1>4. MemoryFacts'
  BY DEF MemoryFacts, Recorded, PlaceFacts
<1> QED BY <1>1, <1>2, <1>3, <1>4

(* A run that is cut short has no record yet, so a torn bundle takes no    *)
(* evidence away.                                                          *)
LEMMA SpoilEffect ==
  ASSUME CampaignInvariant, Spoil, UNCHANGED <<record, manifest, group>>
  PROVE  /\ attempts' \in [Case -> Seq(Attempt)]
         /\ AttemptFacts' /\ RecordIsEvidence' /\ ManifestHonest'
         /\ Len(attempts'[at]) > 0 /\ attempts'[at][Len(attempts'[at])].said # None
<1> USE DEF CampaignInvariant, Spoil
<1> DEFINE a == [LastAttempt EXCEPT !.complete = FALSE]
<1>1. at \in Case /\ Last > 0 /\ LastAttempt \in Attempt
  BY DEF PlaceFacts, LastAttempt, Last, TypeOK
<1>2. /\ a \in Attempt /\ UpdateAttempt(a) /\ record[at] = NoRecord
      /\ a.said # None /\ ~a.complete
  BY <1>1 DEF Attempt, PlaceFacts, LastAttempt
<1> HIDE DEF a
<1> QED BY <1>1, <1>2, AttemptWrite

(* An exception ends the attempt before its record is written.             *)
LEMMA ExecutorRaisesKeeps ==
  ASSUME CampaignInvariant, ExecutorRaises
  PROVE  CampaignInvariant'
<1> USE DEF CampaignInvariant, ExecutorRaises
<1>1. /\ attempts' \in [Case -> Seq(Attempt)]
      /\ AttemptFacts' /\ RecordIsEvidence' /\ ManifestHonest'
      /\ Len(attempts'[at]) > 0 /\ attempts'[at][Len(attempts'[at])].said # None
  <2>1. CASE UNCHANGED attempts
    BY <2>1, DiskAlone DEF TypeOK, PlaceFacts, LastAttempt, Last
  <2>2. CASE Spoil
    BY <2>2, SpoilEffect
  <2> QED BY <2>1, <2>2
<1>2. TypeOK' /\ ShapeOK'
  BY <1>1 DEF TypeOK, ShapeOK, Pc
<1>3. PlaceFacts'
  BY <1>1 DEF PlaceFacts, LastAttempt, Last
<1>4. MemoryFacts'
  BY DEF MemoryFacts, Recorded
<1> QED BY <1>1, <1>2, <1>3, <1>4

(* An interrupt ends the plan.                                             *)
LEMMA InterruptedKeeps ==
  ASSUME CampaignInvariant, Interrupted
  PROVE  CampaignInvariant'
<1> USE DEF CampaignInvariant, Interrupted
<1>1. /\ attempts' \in [Case -> Seq(Attempt)]
      /\ AttemptFacts' /\ RecordIsEvidence' /\ ManifestHonest'
      /\ Len(attempts'[at]) > 0
  <2>1. CASE UNCHANGED attempts
    BY <2>1, DiskAlone DEF TypeOK, PlaceFacts, LastAttempt, Last
  <2>2. CASE Spoil
    BY <2>2, SpoilEffect
  <2> QED BY <2>1, <2>2
<1>2. TypeOK' /\ ShapeOK'
  BY <1>1 DEF TypeOK, ShapeOK, Pc
<1>3. PlaceFacts'
  BY <1>1 DEF PlaceFacts, LastAttempt, Last
<1>4. MemoryFacts'
  BY DEF MemoryFacts, Recorded
<1> QED BY <1>1, <1>2, <1>3, <1>4

(* The attempt is marked as recorded.                                      *)
LEMMA WriteAttemptRecordKeeps ==
  ASSUME CampaignInvariant, WriteAttemptRecord
  PROVE  CampaignInvariant'
<1> USE DEF CampaignInvariant, WriteAttemptRecord, SetAttempt
<1> DEFINE a == [LastAttempt EXCEPT !.said = "trajectory_recorded"]
<1>1. at \in Case /\ Last > 0 /\ LastAttempt \in Attempt
  BY DEF PlaceFacts, LastAttempt, Last, TypeOK
<1>2. /\ a \in Attempt /\ UpdateAttempt(a) /\ a.said # None
      /\ a.complete = LastAttempt.complete /\ a.status = LastAttempt.status
  BY <1>1 DEF LastAttempt, Attempt, AttemptOutcome
<1> HIDE DEF a
<1>3. /\ attempts' \in [Case -> Seq(Attempt)]
      /\ attempts'[at][Last] = a /\ Len(attempts'[at]) = Last
      /\ AttemptFacts' /\ RecordIsEvidence' /\ ManifestHonest'
  BY <1>1, <1>2, AttemptWrite
<1>4. TypeOK' /\ ShapeOK'
  BY <1>3 DEF TypeOK, ShapeOK, Pc
<1>5. PlaceFacts'
  BY <1>1, <1>2, <1>3 DEF PlaceFacts, LastAttempt, Last
<1>6. MemoryFacts'
  BY DEF MemoryFacts, Recorded
<1> QED BY <1>3, <1>4, <1>5, <1>6

(* The record of a validated trajectory is written.                        *)
LEMMA WriteRunRecordKeeps ==
  ASSUME CampaignInvariant, WriteRunRecord
  PROVE  CampaignInvariant'
<1> USE DEF CampaignInvariant, WriteRunRecord
<1> DEFINE r == TrajectoryRecord(at, Last)
<1>1. /\ at \in Case /\ record[at] = NoRecord /\ SetRecord(r)
      /\ r.attempt \in DOMAIN attempts[at]
      /\ attempts[at][r.attempt].said # None
  BY DEF PlaceFacts, LastAttempt, Last, AttemptFacts, TypeOK, TrajectoryRecord
<1>2. r \in CampaignRunRecord
  <2>1. attempts[at] \in Seq(Attempt)
    BY <1>1 DEF TypeOK
  <2>2. \A i \in DOMAIN attempts[at] : i \in Nat /\ attempts[at][i] \in Attempt
    BY <2>1
  <2>3. r.attempt \in Nat /\ attempts[at][r.attempt].status \in Status \cup {None}
    BY <1>1, <2>2 DEF Attempt
  <2>4. artifact_paths \in SUBSET DOMAIN ArtifactName
    BY DEF artifact_paths
  <2> QED BY <2>3, <2>4 DEF TrajectoryRecord, CampaignRunRecord
<1>3. r.outcome = "trajectory_recorded" =>
        attempts[at][r.attempt].complete /\ r.status = attempts[at][r.attempt].status
  BY DEF TrajectoryRecord, PlaceFacts, LastAttempt, CompleteAttempts
<1> HIDE DEF r
<1>4. /\ record' \in [Case -> Record] /\ record'[at] # NoRecord
      /\ \A c \in Case : Recorded(c) \/ c = at => Recorded(c)'
      /\ RecordIsEvidence' /\ ManifestHonest'
  BY <1>1, <1>2, <1>3, RecordWrite
<1>5. TypeOK' /\ ShapeOK'
  BY <1>1, <1>4 DEF TypeOK, ShapeOK, Pc, Record, Case
<1>6. AttemptFacts' /\ PlaceFacts' /\ MemoryFacts'
  BY <1>1, <1>4 DEF AttemptFacts, PlaceFacts, Last, MemoryFacts, TypeOK
<1> QED BY <1>4, <1>5, <1>6

(* The record of the run is kept in memory.                                *)
LEMMA KeepRecordKeeps ==
  ASSUME CampaignInvariant, KeepRecord
  PROVE  CampaignInvariant'
<1> USE DEF CampaignInvariant, KeepRecord, NextCase
<1>1. ShapeOK' /\ AttemptFacts' /\ RecordIsEvidence' /\ ManifestHonest'
  BY DiskAlone
<1>2. TypeOK'
  BY DEF TypeOK, Pc, Case, PlaceFacts
<1>3. PlaceFacts'
  BY DEF PlaceFacts, LastAttempt, Last, CompleteAttempts
<1>4. MemoryFacts'
  BY DEF MemoryFacts, Recorded, PlaceFacts
<1> QED BY <1>1, <1>2, <1>3, <1>4

(* The attempt is marked as failed.                                        *)
LEMMA WriteErrorAttemptKeeps ==
  ASSUME CampaignInvariant, WriteErrorAttempt
  PROVE  CampaignInvariant'
<1> USE DEF CampaignInvariant, WriteErrorAttempt, SetAttempt
<1> DEFINE a == [LastAttempt EXCEPT !.said = "executor_error"]
<1>1. at \in Case /\ Last > 0 /\ LastAttempt \in Attempt
  BY DEF PlaceFacts, LastAttempt, Last, TypeOK
<1>2. /\ a \in Attempt /\ UpdateAttempt(a) /\ a.said # None
      /\ a.complete = LastAttempt.complete /\ a.status = LastAttempt.status
  BY <1>1 DEF LastAttempt, Attempt, AttemptOutcome
<1> HIDE DEF a
<1>3. /\ attempts' \in [Case -> Seq(Attempt)]
      /\ attempts'[at][Last] = a /\ Len(attempts'[at]) = Last
      /\ AttemptFacts' /\ RecordIsEvidence' /\ ManifestHonest'
  BY <1>1, <1>2, AttemptWrite
<1>4. TypeOK' /\ ShapeOK'
  BY <1>3 DEF TypeOK, ShapeOK, Pc
<1>5. PlaceFacts'
  BY <1>1, <1>2, <1>3 DEF PlaceFacts, LastAttempt, Last
<1>6. MemoryFacts'
  BY DEF MemoryFacts, Recorded
<1> QED BY <1>3, <1>4, <1>5, <1>6

(* The record of a failed attempt is written.                              *)
LEMMA WriteErrorRecordKeeps ==
  ASSUME CampaignInvariant, WriteErrorRecord
  PROVE  CampaignInvariant'
<1> USE DEF CampaignInvariant, WriteErrorRecord
<1> DEFINE r == [outcome |-> "executor_error", attempt |-> Last, status |-> None,
                 artifacts |-> {}]
<1>1. /\ at \in Case /\ record[at] = NoRecord /\ SetRecord(r)
      /\ r.attempt \in DOMAIN attempts[at]
      /\ attempts[at][r.attempt].said # None
  BY DEF PlaceFacts, LastAttempt, Last, AttemptFacts, TypeOK
<1>2. r \in CampaignRunRecord
  BY <1>1 DEF CampaignRunRecord, TypeOK
<1>3. r.outcome = "trajectory_recorded" =>
        attempts[at][r.attempt].complete /\ r.status = attempts[at][r.attempt].status
  BY DEF TrajectoryRecord, PlaceFacts, LastAttempt, CompleteAttempts
<1> HIDE DEF r
<1>4. /\ record' \in [Case -> Record] /\ record'[at] # NoRecord
      /\ \A c \in Case : Recorded(c) \/ c = at => Recorded(c)'
      /\ RecordIsEvidence' /\ ManifestHonest'
  BY <1>1, <1>2, <1>3, RecordWrite
<1>5. TypeOK' /\ ShapeOK'
  BY <1>1, <1>4 DEF TypeOK, ShapeOK, Pc, Record, Case
<1>6. AttemptFacts' /\ PlaceFacts' /\ MemoryFacts'
  BY <1>1, <1>4 DEF AttemptFacts, PlaceFacts, Last, MemoryFacts, TypeOK
<1> QED BY <1>4, <1>5, <1>6

(* The attempt is marked as interrupted; the run may have its record.      *)
LEMMA WriteInterruptedKeeps ==
  ASSUME CampaignInvariant, WriteInterrupted
  PROVE  CampaignInvariant'
<1> USE DEF CampaignInvariant, WriteInterrupted, SetAttempt
<1> DEFINE a == [LastAttempt EXCEPT !.said = "interrupted"]
<1>1. at \in Case /\ Last > 0 /\ LastAttempt \in Attempt
  BY DEF PlaceFacts, LastAttempt, Last, TypeOK
<1>2. /\ a \in Attempt /\ UpdateAttempt(a) /\ a.said # None
      /\ a.complete = LastAttempt.complete /\ a.status = LastAttempt.status
  BY <1>1 DEF LastAttempt, Attempt, AttemptOutcome
<1> HIDE DEF a
<1>3. /\ attempts' \in [Case -> Seq(Attempt)]
      /\ attempts'[at][Last] = a /\ Len(attempts'[at]) = Last
      /\ AttemptFacts' /\ RecordIsEvidence' /\ ManifestHonest'
  BY <1>1, <1>2, AttemptWrite
<1>4. TypeOK' /\ ShapeOK'
  BY <1>3 DEF TypeOK, ShapeOK, Pc
<1>5. PlaceFacts'
  BY <1>1, <1>2, <1>3 DEF PlaceFacts, LastAttempt, Last
<1>6. MemoryFacts'
  BY DEF MemoryFacts, Recorded
<1> QED BY <1>3, <1>4, <1>5, <1>6

(* The plan of the campaign is done.                                       *)
LEMMA PlanDoneKeeps ==
  ASSUME CampaignInvariant, PlanDone
  PROVE  CampaignInvariant'
<1> USE DEF CampaignInvariant, PlanDone
<1>1. ShapeOK' /\ AttemptFacts' /\ RecordIsEvidence' /\ ManifestHonest'
  BY DiskAlone
<1>2. TypeOK'
  BY DEF TypeOK, Pc
<1>3. PlaceFacts'
  BY DEF PlaceFacts, LastAttempt, Last, CompleteAttempts
<1>4. MemoryFacts'
  BY DEF MemoryFacts, Recorded, PlaceFacts
<1> QED BY <1>1, <1>2, <1>3, <1>4

(* The artifact index of the campaign is written.                          *)
LEMMA WriteArtifactIndexKeeps ==
  ASSUME CampaignInvariant, WriteArtifactIndex
  PROVE  CampaignInvariant'
<1> USE DEF CampaignInvariant, WriteArtifactIndex
<1> DEFINE entry(c) == [record |-> IF c \in Known THEN record[c] ELSE NoRecord,
                        attempts |-> Len(attempts[c])]
<1>1. Current \in Campaign /\ Plan(Current) \subseteq Case
  BY DEF Current, TypeOK, Plan, Case
<1>2. \A c \in Plan(Current) : entry(c) \in IndexEntry
  <2> SUFFICES ASSUME NEW c \in Plan(Current) PROVE entry(c) \in IndexEntry
    OBVIOUS
  <2>1. record[c] \in CampaignRunRecord \cup {NoRecord} /\ Len(attempts[c]) \in Nat
    BY <1>1 DEF TypeOK
  <2> QED BY <2>1 DEF IndexEntry
<1>3. index' = [index EXCEPT ![Current] = [c \in Plan(Current) |-> entry(c)]]
  OBVIOUS
<1> HIDE DEF entry
<1>4. /\ DOMAIN index' = Campaign
      /\ \A k \in Campaign : k # Current => index'[k] = index[k]
      /\ \A c \in Plan(Current) : index'[Current][c] \in IndexEntry
  <2> DEFINE f == [c \in Plan(Current) |-> entry(c)]
  <2>1. \A c \in Plan(Current) : f[c] \in IndexEntry
    BY <1>2
  <2> HIDE DEF f
  <2>2. index' = [index EXCEPT ![Current] = f]
    BY <1>3 DEF f
  <2>3. /\ DOMAIN index' = Campaign
        /\ \A k \in Campaign : index'[k] = IF k = Current THEN f ELSE index[k]
    BY <2>2 DEF ShapeOK
  <2> QED BY <1>1, <2>1, <2>3
<1>5. TypeOK' /\ ShapeOK'
  BY <1>4 DEF TypeOK, ShapeOK, Pc
<1>6. AttemptFacts' /\ RecordIsEvidence' /\ ManifestHonest'
  BY DEF AttemptFacts, RecordIsEvidence, RecordValid, Recorded, ManifestHonest, AllClean
<1>7. PlaceFacts' /\ MemoryFacts'
  BY DEF PlaceFacts, MemoryFacts, Recorded
<1> QED BY <1>5, <1>6, <1>7

(* The failure summary of the campaign is written.                         *)
LEMMA WriteFailureSummaryKeeps ==
  ASSUME CampaignInvariant, WriteFailureSummary
  PROVE  CampaignInvariant'
<1> USE DEF CampaignInvariant, WriteFailureSummary
<1>1. Current \in Campaign /\ Plan(Current) \subseteq Case
  BY DEF Current, TypeOK, Plan, Case
<1>2. /\ failures' \in [Campaign -> SUBSET Case]
      /\ \A k \in Campaign : failures'[k] \subseteq Plan(k)
  BY <1>1 DEF ShapeOK, TypeOK, Known
<1>3. TypeOK' /\ ShapeOK'
  BY <1>2 DEF TypeOK, ShapeOK, Pc
<1>4. AttemptFacts' /\ RecordIsEvidence' /\ ManifestHonest'
  BY DEF AttemptFacts, RecordIsEvidence, RecordValid, Recorded, ManifestHonest, AllClean
<1>5. PlaceFacts' /\ MemoryFacts'
  BY DEF PlaceFacts, MemoryFacts, Recorded
<1> QED BY <1>3, <1>4, <1>5

(* The manifest of the campaign is written: it says contract_ok only over  *)
(* records that are all there and none of them an error.                   *)
LEMMA WriteCampaignManifestKeeps ==
  ASSUME CampaignInvariant, WriteCampaignManifest
  PROVE  CampaignInvariant'
<1> USE DEF CampaignInvariant, WriteCampaignManifest
<1> DEFINE m == [terminal |-> Cardinality(Known), ok |-> ContractOk]
<1>1. /\ at \in Campaign \X (1 .. Cases + 1)
      /\ Current \in Campaign /\ Plan(Current) \subseteq Case
  BY DEF Current, TypeOK, Plan, Case
<1>2. Cardinality(Known) \in 0 .. Cases
  <2>1. IsFiniteSet(Plan(Current)) /\ Cardinality(Plan(Current)) = Cases
    BY <1>1, PlanSizes
  <2>2. Known \in SUBSET Plan(Current)
    BY DEF Known
  <2>3. IsFiniteSet(Known) /\ Cardinality(Known) <= Cases
    BY <2>1, <2>2, FS_Subset
  <2>4. Cardinality(Known) \in Nat
    BY <2>3, FS_CardinalityType
  <2> QED BY <2>3, <2>4
<1>3. m.ok \in BOOLEAN
  BY DEF ContractOk
<1>4. m \in [terminal : 0 .. Cases, ok : BOOLEAN]
  BY <1>2, <1>3
<1>5. m.ok => AllClean(Plan(Current))
  <2> SUFFICES ASSUME ContractOk, NEW c \in Plan(Current)
               PROVE  record[c].outcome = "trajectory_recorded"
    BY DEF AllClean
  <2>1. c \in Known /\ c \in Case /\ record[c].outcome # "executor_error"
    BY <1>1 DEF ContractOk
  <2>2. record[c] \in CampaignRunRecord
    BY <2>1 DEF Known, MemoryFacts, Recorded, TypeOK
  <2> QED BY <2>1, <2>2 DEF CampaignRunRecord
<1>6. manifest' = [manifest EXCEPT ![Current] = m]
  OBVIOUS
<1> HIDE DEF m
<1>7. /\ manifest' \in [Campaign -> [terminal : 0 .. Cases, ok : BOOLEAN]]
      /\ \A k \in Campaign : manifest'[k] = IF k = Current THEN m ELSE manifest[k]
  BY <1>1, <1>4, <1>6 DEF ShapeOK
<1>8. ManifestHonest'
  BY <1>5, <1>7 DEF ManifestHonest, AllClean
<1>9. /\ pc' \in Pc /\ at' \in Campaign \X (1 .. Cases + 1) /\ records' \subseteq Case
      /\ outcome' \in {None, "returned", "interrupted", "spec_mismatch", "crashed"}
      /\ pc' \in {"idle", "case", "group"} /\ records' \subseteq records
  BY <1>1 DEF TypeOK, End, Pc, Current, Campaign
<1>10. stopped' \in BOOLEAN
  BY DEF TypeOK, End
<1>11. TypeOK' /\ ShapeOK'
  BY <1>7, <1>9, <1>10 DEF TypeOK, ShapeOK
<1>12. AttemptFacts' /\ RecordIsEvidence' /\ PlaceFacts' /\ MemoryFacts'
  BY <1>9 DEF AttemptFacts, RecordIsEvidence, RecordValid, Recorded, PlaceFacts, MemoryFacts
<1> QED BY <1>8, <1>11, <1>12

(* The manifest of the group is written and the invocation returns.        *)
LEMMA WriteGroupManifestKeeps ==
  ASSUME CampaignInvariant, WriteGroupManifest
  PROVE  CampaignInvariant'
<1> USE DEF CampaignInvariant, WriteGroupManifest, End
<1>1. Cardinality(records) \in 0 .. Campaigns * Cases
  <2>1. records \in SUBSET Case
    BY DEF TypeOK
  <2>2. IsFiniteSet(records) /\ Cardinality(records) <= Campaigns * Cases
    BY <2>1, PlanSizes, FS_Subset
  <2>3. Cardinality(records) \in Nat
    BY <2>2, FS_CardinalityType
  <2> QED BY <2>2, <2>3
<1>2. (\A j \in Campaign : manifest[j].ok) \in BOOLEAN
  OBVIOUS
<1>3. group' \in [terminal : 0 .. Campaigns * Cases, ok : BOOLEAN]
  BY <1>1, <1>2
<1>4. group'.ok => AllClean(Case)
  <2> SUFFICES ASSUME \A j \in Campaign : manifest[j].ok, NEW c \in Case
               PROVE  record[c].outcome = "trajectory_recorded"
    BY DEF AllClean
  <2>1. PICK k \in Campaign : c \in Plan(k)
    BY DEF Case, Plan
  <2> QED BY <2>1 DEF ManifestHonest, AllClean
<1>5. ManifestHonest'
  BY <1>4 DEF ManifestHonest, AllClean
<1>6. TypeOK' /\ ShapeOK'
  <2>1. at' \in Campaign \X (1 .. Cases + 1)
    BY DEF Campaign
  <2>2. stopped' \in BOOLEAN
    OBVIOUS
  <2> QED BY <1>3, <2>1, <2>2 DEF TypeOK, ShapeOK, Pc
<1>7. AttemptFacts' /\ RecordIsEvidence' /\ PlaceFacts' /\ MemoryFacts'
  BY DEF AttemptFacts, RecordIsEvidence, RecordValid, Recorded, PlaceFacts, MemoryFacts
<1> QED BY <1>5, <1>6, <1>7

(* A crash loses the memory of the process and may tear the bundle.        *)
LEMMA CrashKeeps ==
  ASSUME CampaignInvariant, Crash
  PROVE  CampaignInvariant'
<1> USE DEF CampaignInvariant, Crash, End
<1>1. /\ attempts' \in [Case -> Seq(Attempt)]
      /\ AttemptFacts' /\ RecordIsEvidence' /\ ManifestHonest'
  BY DiskAlone, SpoilEffect DEF TypeOK
<1>2. TypeOK' /\ ShapeOK'
  <2>1. at' \in Campaign \X (1 .. Cases + 1)
    BY DEF Campaign
  <2>2. stopped' \in BOOLEAN
    OBVIOUS
  <2> QED BY <1>1, <2>1, <2>2 DEF TypeOK, ShapeOK, Pc
<1>3. PlaceFacts' /\ MemoryFacts'
  BY DEF PlaceFacts, MemoryFacts
<1> QED BY <1>1, <1>2, <1>3

(* The invariant holds initially.                                          *)
LEMMA InitHolds == Init => CampaignInvariant
<1> SUFFICES ASSUME Init PROVE CampaignInvariant
  OBVIOUS
<1> USE DEF Init, NoManifest
<1>1. at \in Campaign \X (1 .. Cases + 1) /\ 0 \in 0 .. Campaigns * Cases /\ 0 \in 0 .. Cases
  BY DEF Campaign
<1>2. ShapeOK
  BY <1>1 DEF ShapeOK, Record
<1>3. TypeOK
  <2>1. stopped \in BOOLEAN
    OBVIOUS
  <2>2. attempts \in [Case -> Seq(Attempt)]
    OBVIOUS
  <2>3. \A k \in Campaign : manifest[k].terminal \in 0 .. Cases /\ manifest[k].ok \in BOOLEAN
    BY <1>2 DEF ShapeOK
  <2>4. group.terminal \in 0 .. Campaigns * Cases /\ group.ok \in BOOLEAN
    BY <1>2 DEF ShapeOK
  <2> QED BY <1>1, <2>1, <2>2, <2>3, <2>4 DEF TypeOK, Pc
<1>4. AttemptFacts /\ PlaceFacts /\ MemoryFacts
  BY DEF AttemptFacts, PlaceFacts, MemoryFacts
<1>5. RecordIsEvidence /\ ManifestHonest
  BY DEF RecordIsEvidence, Recorded, ManifestHonest
<1> QED BY <1>2, <1>3, <1>4, <1>5 DEF CampaignInvariant

(* ... and every step of an invocation keeps it.                           *)
LEMMA NextKeeps == CampaignInvariant /\ [Next]_vars => CampaignInvariant'
<1> SUFFICES ASSUME CampaignInvariant, [Next]_vars PROVE CampaignInvariant'
  OBVIOUS
<1>1. CASE UNCHANGED vars
  <2> USE <1>1 DEF vars
  <2>1. ShapeOK' /\ AttemptFacts' /\ RecordIsEvidence' /\ ManifestHonest'
    BY DiskAlone
  <2>2. TypeOK' /\ MemoryFacts'
    BY DEF CampaignInvariant, TypeOK, MemoryFacts, Recorded
  <2>3. PlaceFacts'
    BY DEF CampaignInvariant, PlaceFacts, LastAttempt, Last, CompleteAttempts
  <2> QED BY <2>1, <2>2, <2>3 DEF CampaignInvariant
<1>2. CASE RunPlan
  BY <1>2, SkipRecordedKeeps, RecoverKeeps, NeedsAttemptKeeps, MakeAttemptKeeps,
     MarkRunningKeeps, ExecutorCompletesKeeps, ExecutorReturnsKeeps,
     WriteAttemptRecordKeeps, WriteRunRecordKeeps, KeepRecordKeeps,
     WriteErrorAttemptKeeps, WriteErrorRecordKeeps, WriteInterruptedKeeps,
     PlanDoneKeeps DEF RunPlan
<1>3. CASE WriteCampaignArtifacts
  BY <1>3, WriteArtifactIndexKeeps, WriteFailureSummaryKeeps, WriteCampaignManifestKeeps,
     WriteGroupManifestKeeps DEF WriteCampaignArtifacts
<1> QED BY <1>1, <1>2, <1>3, InvokeKeeps, ExecutorRaisesKeeps, InterruptedKeeps,
           CrashKeeps DEF Next

-----------------------------------------------------------------------------
(* What is proved of every group.                                          *)

(* The inductive invariant holds in every reachable state.                 *)
THEOREM CampaignInvariantHolds == Spec => []CampaignInvariant
<1> QED BY InitHolds, NextKeeps, PTL DEF Spec

(* The type invariant of RunCampaign.                                      *)
THEOREM CampaignTypeCorrect == Spec => []TypeOK
<1>1. CampaignInvariant => TypeOK
  BY DEF CampaignInvariant
<1> QED BY <1>1, CampaignInvariantHolds, PTL

(* Every record stands on an attempt that a resume will accept             *)
(* (run_campaign.py: _load_and_validate_record).                           *)
THEOREM RecordsAreEvidence == Spec => []RecordIsEvidence
<1>1. CampaignInvariant => RecordIsEvidence
  BY DEF CampaignInvariant
<1> QED BY <1>1, CampaignInvariantHolds, PTL

(* contract_ok is true only over a trajectory for every planned run,       *)
(* however stale the manifest (run_campaign.py: _write_campaign_artifacts, *)
(* execute_profile_run_campaigns).                                         *)
THEOREM ManifestsAreHonest == Spec => []ManifestHonest
<1>1. CampaignInvariant => ManifestHonest
  BY DEF CampaignInvariant
<1> QED BY <1>1, CampaignInvariantHolds, PTL

(* Only MakeAttempt adds an attempt directory.                             *)
LEMMA AttemptsGrow ==
  ASSUME CampaignInvariant, [Next]_vars, NEW c \in Case,
         Len(attempts'[c]) > Len(attempts[c])
  PROVE  At("mkdir") /\ c = at
<1> USE DEF CampaignInvariant
<1>1. attempts[c] \in Seq(Attempt) /\ Len(attempts[c]) \in Nat
  BY DEF TypeOK
<1>2. attempts' # attempts
  BY <1>1
<1>3. CASE MakeAttempt
  <2>1. at \in Case
    BY <1>3 DEF MakeAttempt, PlaceFacts
  <2> QED BY <1>1, <1>3, <2>1 DEF MakeAttempt, TypeOK
<1>4. ASSUME NEW a, UpdateAttempt(a), pc \in Attempting
      PROVE  FALSE
  <2>1. at \in Case /\ attempts[at] \in Seq(Attempt)
    BY <1>4 DEF PlaceFacts, TypeOK
  <2>2. Len([attempts[at] EXCEPT ![Last] = a]) = Len(attempts[at])
    BY <2>1
  <2>3. Len(attempts'[c]) = Len(attempts[c])
    BY <1>4, <2>1, <2>2 DEF UpdateAttempt, TypeOK
  <2> QED BY <1>1, <2>3
<1>5. CASE MarkRunning \/ WriteAttemptRecord \/ WriteErrorAttempt \/ WriteInterrupted
  BY <1>4, <1>5 DEF MarkRunning, WriteAttemptRecord, WriteErrorAttempt, WriteInterrupted,
       SetAttempt
<1>6. CASE ExecutorCompletes \/ Spoil
  BY <1>4, <1>6 DEF ExecutorCompletes, Spoil
<1> QED BY <1>2, <1>3, <1>5, <1>6 DEF Next, RunPlan, WriteCampaignArtifacts, vars, Invoke,
        SkipRecorded, Recover, NeedsAttempt, ExecutorReturns, WriteRunRecord, KeepRecord,
        WriteErrorRecord, PlanDone, WriteArtifactIndex, WriteFailureSummary,
        WriteCampaignManifest, WriteGroupManifest, ExecutorRaises, Interrupted, Crash

(* A run with a record, or with a complete attempt that was never          *)
(* recorded, is never executed again (_recover_completed_attempt).         *)
THEOREM CompleteRunsAreKept == Spec => NoRerunOfComplete
<1>1. ASSUME CampaignInvariant, [Next]_vars, NEW c \in Case,
             Len(attempts'[c]) > Len(attempts[c])
      PROVE  ~Recorded(c) /\ \A n \in DOMAIN attempts[c] : ~attempts[c][n].complete
  <2>1. At("mkdir") /\ c = at
    BY <1>1, AttemptsGrow
  <2> QED BY <1>1, <2>1 DEF CampaignInvariant, PlaceFacts, Recorded, CompleteAttempts
<1>2. CampaignInvariant /\ [Next]_vars =>
        [\A c \in Case :
           Len(attempts'[c]) > Len(attempts[c])
             => ~Recorded(c) /\ \A n \in DOMAIN attempts[c] : ~attempts[c][n].complete]_vars
  BY <1>1
<1> QED BY <1>2, CampaignInvariantHolds, PTL DEF Spec, NoRerunOfComplete
=============================================================================
