---------------------------- MODULE RunsArchive -----------------------------
(***************************************************************************)
(* The run lifecycle tools on one repository: the inventory scan of        *)
(* dev/runs_inventory.py, the archive and its verification of              *)
(* dev/runs_archive.py, and the index validation of dev/runs_retention.py, *)
(* run one after another by an operator while campaigns go on writing      *)
(* under runs/.  Reading the tree is not atomic: each file is read in a    *)
(* step of its own, and the archive reads it three times.                  *)
(*                                                                         *)
(* A file is its content, version and modification time; a fingerprint or  *)
(* digest is what it digests.  Every file is a group of its own.           *)
(***************************************************************************)
EXTENDS RetentionIndex, Sequences

CONSTANTS
  Purposes,    \* purpose classes the owner may declare
  Days,        \* days on which something happens
  Dests,       \* archive destinations
  MaxWrites,   \* bound: files rewritten under runs/
  MaxCommands  \* bound: commands run

ASSUME ArchiveConstants ==
  /\ Group # {} /\ IsFiniteSet(Group)
  /\ Purposes \subseteq PurposeClass
  /\ Days \subseteq Nat /\ 0 \in Days
  /\ MaxWrites \in Nat /\ MaxCommands \in Nat

VARIABLES
  \* the disk
  runs,      \* runs/: the file of each group
  summary,   \* runs-inventory.json
  records,   \* runs-inventory.jsonl
  cls,       \* runs-archive-classification.json, kept by the owner
  archives,  \* the installed archives
  index,     \* retained-runs.index.jsonl
  areport,   \* runs-archive-manifest.json
  sreport,   \* runs-archive-scrub-report.json
  \* the command under way
  cmd,       \* [name, dest, started]: the command, "none" when idle
  pc,        \* its next step
  todo,      \* groups it has still to read
  snap,      \* what it has read of runs/, scanning
  staged,    \* what it has put in the staging directory
  outcome,   \* how the last command ended
  \* the world
  today, writes, commands

disk == <<runs, summary, records, cls, archives, index, areport, sreport>>
memory == <<cmd, pc, todo, snap, staged>>
vars == <<runs, summary, records, cls, archives, index, areport, sreport,
          cmd, pc, todo, snap, staged, outcome, today, writes, commands>>

-----------------------------------------------------------------------------
(* State.                                                                  *)

Content == [version : 0 .. MaxWrites, kind : {"plain", "secret", "binary"}, mtime : Days]
Missing == <<>>
NoCommand == [name |-> None, dest |-> None, started |-> 0]
NoClassification == [fingerprint |-> Missing, archive_id |-> None, class |-> Missing]
NoArchive == [payload |-> Missing, report |-> Missing]

Init ==
  /\ runs \in [Group -> {c \in Content : c.version = 0 /\ c.kind # "binary" /\ c.mtime = 0}]
  /\ summary = Missing /\ records = Missing
  /\ cls = NoClassification
  /\ archives = [d \in Dests |-> NoArchive]
  /\ index = Missing /\ areport = Missing /\ sreport = Missing
  /\ cmd = NoCommand /\ pc = "idle" /\ todo = {}
  /\ snap = Missing /\ staged = Missing
  /\ outcome = None /\ today = 0 /\ writes = 0 /\ commands = 0

-----------------------------------------------------------------------------
(* Control.                                                                *)

At(p) == pc = p
Goto(p) == pc' = p

(* The command ends: by itself, by an exception that removes the staging   *)
(* directory, or by a crash.  What is installed stays.                     *)
End(how) ==
  /\ cmd' = NoCommand /\ pc' = "idle" /\ todo' = {}
  /\ snap' = Missing /\ staged' = Missing
  /\ outcome' = how

Raise(why) == End(why) /\ UNCHANGED disk

Start(name, dest) ==
  /\ At("idle") /\ commands < MaxCommands
  /\ commands' = commands + 1
  /\ outcome' = None
  /\ cmd' = [name |-> name, dest |-> dest, started |-> today]
  /\ UNCHANGED <<runs, summary, records, cls, archives, index, areport, sreport,
                 today, writes>>

StartReading == todo' = Group /\ snap' = Missing /\ Goto("read")

-----------------------------------------------------------------------------
(* runs_inventory: scan reads the tree and writes two files in place.      *)

scan_runs ==
  /\ Start("scan", None)
  /\ StartReading
  /\ UNCHANGED staged

(* One _scan_artifact, of a scan or of a verification.                     *)
ReadFile ==
  /\ At("read")
  /\ \E g \in todo :
       /\ snap' = [h \in DOMAIN snap \cup {g} |-> IF h = g THEN runs[g] ELSE snap[h]]
       /\ todo' = todo \ {g}
       /\ Goto(IF todo # {g} THEN "read"
               ELSE IF cmd.name = "scan" THEN "summary" ELSE "compare")
  /\ UNCHANGED disk /\ UNCHANGED <<cmd, staged, outcome, today, writes, commands>>

WriteSummary ==
  /\ At("summary")
  /\ summary' = snap
  /\ Goto("records")
  /\ UNCHANGED <<runs, records, cls, archives, index, areport, sreport>>
  /\ UNCHANGED <<cmd, todo, snap, staged, outcome, today, writes, commands>>

WriteRecords ==
  /\ At("records")
  /\ records' = snap
  /\ End("scanned")
  /\ UNCHANGED <<runs, summary, cls, archives, index, areport, sreport>>
  /\ UNCHANGED <<today, writes, commands>>

(* load_and_validate_inventory: the records begin with the summary.        *)
InventoryLoads == summary # Missing /\ summary = records

-----------------------------------------------------------------------------
(* The owner declares the campaigns of the tracked inventory.              *)

Classify ==
  /\ At("idle") /\ InventoryLoads /\ cls.fingerprint # summary
  /\ \E class \in [Group -> Purposes] :
       cls' = [fingerprint |-> summary, archive_id |-> "rc054", class |-> class]
  /\ UNCHANGED <<runs, summary, records, archives, index, areport, sreport>>
  /\ UNCHANGED memory /\ UNCHANGED <<outcome, today, writes, commands>>

-----------------------------------------------------------------------------
(* archive_runs.                                                           *)

(* verify_inventory_against_runs begins: the tracked inventory loads.      *)
VerifyInventory ==
  IF InventoryLoads THEN StartReading /\ UNCHANGED staged
  ELSE Goto("refuse") /\ UNCHANGED <<todo, snap, staged>>

archive_runs(d) ==
  /\ Start("archive", d)
  /\ IF archives[d] # NoArchive
     THEN Goto("refuse") /\ UNCHANGED <<todo, snap, staged>>
     ELSE VerifyInventory

Refuse ==
  /\ At("refuse")
  /\ Raise("refused")
  /\ UNCHANGED <<today, writes, commands>>

(* The end of verify_inventory_against_runs, and the classification.       *)
InventoryVerified == snap = summary /\ InventoryLoads /\ cls.fingerprint = summary

CompareInventory ==
  /\ At("compare")
  /\ UNCHANGED disk /\ UNCHANGED <<today, writes, commands>>
  /\ IF ~InventoryVerified THEN End("drift")
     ELSE /\ Goto(IF cmd.name = "archive" THEN "copy" ELSE "evidence")
          /\ todo' = Group
          /\ UNCHANGED <<cmd, snap, staged, outcome>>

(* _scrub_bytes; anything but UTF-8 fails closed.                          *)
Scrub(c) == IF c.kind = "secret" THEN [c EXCEPT !.kind = "plain"] ELSE c

(* _materialize_scrubbed_payload reads each file again.                    *)
CopyFile ==
  /\ At("copy")
  /\ \E g \in todo :
       IF runs[g].kind = "binary" THEN Raise("unscrubbable")
       ELSE /\ staged' = [h \in DOMAIN staged \cup {g} |->
                            IF h = g THEN runs[g] ELSE staged[h]]
            /\ todo' = todo \ {g}
            /\ Goto(IF todo = {g} THEN "restore" ELSE "copy")
            /\ UNCHANGED disk /\ UNCHANGED <<cmd, snap, outcome>>
  /\ UNCHANGED <<today, writes, commands>>

(* _verify_temporary_restore compares classes and metadata with the        *)
(* inventory, not content: a file that changed since may pass or not.      *)
VerifyRestore ==
  /\ At("restore")
  /\ UNCHANGED disk /\ UNCHANGED <<today, writes, commands>>
  /\ \/ Goto("install") /\ UNCHANGED <<cmd, todo, snap, staged, outcome>>
     \/ staged # snap /\ End("restore_mismatch")

Payload == [g \in Group |-> Scrub(staged[g])]

(* starts_at comes from the inventory, the digests from what was copied.   *)
BuiltIndex ==
  [fingerprint |-> snap, auths |-> {},
   entries |-> [g \in Group |->
     build_entry(cls.class[g], snap[g].mtime, cmd.started, snap[g].kind = "secret",
                 {staged[g]}, {Payload[g]})]]

ArchiveReport ==
  [archive_id |-> cls.archive_id, fingerprint |-> snap, time |-> cmd.started,
   payload |-> Payload, index |-> BuiltIndex]

(* Mutant: the archive is built in its destination.                        *)
Mut_InstallArchive ==
  /\ At("copy") \/ At("restore") \/ At("install")
  /\ archives' = [archives EXCEPT ![cmd.dest] =
       [payload |-> staged, report |-> IF At("install") THEN ArchiveReport ELSE Missing]]
  /\ Goto(IF At("install") THEN "index" ELSE pc)
  /\ UNCHANGED <<runs, summary, records, cls, index, areport, sreport>>
  /\ UNCHANGED <<cmd, todo, snap, staged, outcome, today, writes, commands>>

(* The staging directory, its manifest included, becomes the destination.  *)
InstallArchive ==
  /\ At("install")
  /\ archives' = [archives EXCEPT ![cmd.dest] = [payload |-> Payload, report |-> ArchiveReport]]
  /\ Goto("index")
  /\ UNCHANGED <<runs, summary, records, cls, index, areport, sreport>>
  /\ UNCHANGED <<cmd, todo, snap, staged, outcome, today, writes, commands>>

WriteIndex ==
  /\ At("index")
  /\ index' = BuiltIndex
  /\ Goto("report")
  /\ UNCHANGED <<runs, summary, records, cls, archives, areport, sreport>>
  /\ UNCHANGED <<cmd, todo, snap, staged, outcome, today, writes, commands>>

WriteArchiveReport ==
  /\ At("report")
  /\ areport' = ArchiveReport
  /\ Goto("scrub_report")
  /\ UNCHANGED <<runs, summary, records, cls, archives, index, sreport>>
  /\ UNCHANGED <<cmd, todo, snap, staged, outcome, today, writes, commands>>

WriteScrubReport ==
  /\ At("scrub_report")
  /\ sreport' = [archive_id |-> cls.archive_id, fingerprint |-> snap]
  /\ Goto("load")
  /\ UNCHANGED <<runs, summary, records, cls, archives, index, areport>>
  /\ UNCHANGED <<cmd, todo, snap, staged, outcome, today, writes, commands>>

(* Mutant: the installed archive is not verified.                          *)
Mut_LoadIndex ==
  /\ At("load")
  /\ IF load_and_validate_index(index) THEN End("archived") ELSE End("index_rejected")
  /\ UNCHANGED disk /\ UNCHANGED <<today, writes, commands>>

(* The index just written is loaded; then verify_archive runs.             *)
LoadIndex ==
  /\ At("load")
  /\ IF load_and_validate_index(index)
     THEN /\ cmd' = [cmd EXCEPT !.name = "verify_archive"]
          /\ VerifyInventory
          /\ UNCHANGED outcome
     ELSE End("index_rejected")
  /\ UNCHANGED disk /\ UNCHANGED <<today, writes, commands>>

-----------------------------------------------------------------------------
(* verify_archive, by itself or as the last step of archive_runs.          *)

verify_archive(d) ==
  /\ Start("verify", d)
  /\ VerifyInventory

EvidenceHolds(d) ==
  /\ index # Missing /\ areport # Missing /\ sreport # Missing
  /\ load_and_validate_index(index) /\ index.fingerprint = summary
  /\ index.auths = {}
  /\ areport.archive_id = cls.archive_id /\ sreport.archive_id = cls.archive_id
  /\ areport.index = index
  /\ archives[d].report # Missing
  /\ archives[d].payload = areport.payload
  /\ archives[d].report = areport

CheckEvidence ==
  /\ At("evidence")
  /\ IF EvidenceHolds(cmd.dest)
     THEN End(IF cmd.name = "verify" THEN "verified" ELSE "archived")
     ELSE End("evidence_drift")
  /\ UNCHANGED disk /\ UNCHANGED <<today, writes, commands>>

-----------------------------------------------------------------------------
(* Deletion batches.  The owner marks entries of the index and adds an     *)
(* authorization, right or wrong; validate-index says whether it stands.   *)

Authorize ==
  /\ At("idle") /\ index # Missing /\ index.auths = {}
  /\ \E marked \in (SUBSET Group) \ {{}} : \E targets \in {marked, Group} :
       index' = [index EXCEPT
         !.entries = [g \in Group |-> IF g \notin marked THEN @[g]
                       ELSE [@[g] EXCEPT !.disposition = "delete_authorized",
                                         !.authorization = "batch"]],
         !.auths = {[id |-> "batch", fingerprint |-> index.fingerprint,
                     targets |-> targets, authorized_at |-> today]}]
  /\ UNCHANGED <<runs, summary, records, cls, archives, areport, sreport>>
  /\ outcome' = None
  /\ UNCHANGED memory /\ UNCHANGED <<today, writes, commands>>

validate_index ==
  /\ At("idle") /\ commands < MaxCommands /\ index # Missing
  /\ commands' = commands + 1
  /\ outcome' = IF load_and_validate_index(index) THEN "index_valid" ELSE "index_invalid"
  /\ UNCHANGED disk /\ UNCHANGED memory /\ UNCHANGED <<today, writes>>

-----------------------------------------------------------------------------
(* The world: runs/ is written to, time passes, a command is killed.       *)

RunWrites ==
  /\ writes < MaxWrites
  /\ writes' = writes + 1
  /\ \E g \in Group, k \in {"plain", "secret", "binary"} :
       runs' = [runs EXCEPT ![g] = [version |-> writes + 1, kind |-> k, mtime |-> today]]
  /\ UNCHANGED <<summary, records, cls, archives, index, areport, sreport>>
  /\ UNCHANGED memory /\ UNCHANGED <<outcome, today, commands>>

DayPasses ==
  /\ At("idle")
  /\ today' \in {d \in Days : d > today /\ \A e \in Days : e > today => d <= e}
  /\ UNCHANGED disk /\ UNCHANGED memory /\ UNCHANGED <<outcome, writes, commands>>

(* The inventory files are written in place, so a command killed while it  *)
(* writes one leaves a file that no longer loads; the others are replaced  *)
(* by a rename.                                                            *)
Crash ==
  /\ ~At("idle")
  /\ End("crashed")
  /\ summary' \in {summary} \cup {Missing : p \in {pc} \cap {"summary"}}
  /\ records' \in {records} \cup {Missing : p \in {pc} \cap {"records"}}
  /\ UNCHANGED <<runs, cls, archives, index, areport, sreport, today, writes, commands>>

Next ==
  \/ scan_runs \/ ReadFile \/ WriteSummary \/ WriteRecords
  \/ Classify
  \/ \E d \in Dests : archive_runs(d) \/ verify_archive(d)
  \/ Refuse \/ CompareInventory \/ CopyFile \/ VerifyRestore \/ InstallArchive
  \/ WriteIndex \/ WriteArchiveReport \/ WriteScrubReport \/ LoadIndex
  \/ CheckEvidence
  \/ Authorize \/ validate_index
  \/ RunWrites \/ DayPasses \/ Crash

Spec == Init /\ [][Next]_vars

-----------------------------------------------------------------------------
(* Properties.                                                             *)

(* archive_runs or verify_archive ends well only with an archive that      *)
(* holds the scrubbed form of exactly what the tracked inventory           *)
(* describes, and an index built from that inventory and those bytes, even *)
(* if runs/ was written to while it was read, or an earlier command was    *)
(* cut short between two of its files.                                     *)
VerifiedIsFaithful ==
  outcome \in {"archived", "verified"} =>
    /\ InventoryLoads /\ index.fingerprint = summary
    /\ \E d \in Dests :
         /\ archives[d].payload = [g \in Group |-> Scrub(summary[g])]
         /\ \A g \in Group : /\ index.entries[g].source = {summary[g]}
                             /\ index.entries[g].archive = {archives[d].payload[g]}

(* A destination that exists is a whole archive with its own manifest,     *)
(* however the command that made it ended, and it is never changed again.  *)
DestinationIsWhole ==
  /\ \A d \in Dests : archives[d] # NoArchive =>
       /\ archives[d].report # Missing
       /\ DOMAIN archives[d].payload = Group
       /\ archives[d].payload = archives[d].report.payload
       /\ \A g \in Group : archives[d].payload[g].kind = "plain"

(* A deletion batch that validate-index accepts names exactly the marked   *)
(* entries, and none of them is inside the active retention and quarantine *)
(* of its class, counted from its run (docs/runs_retention_policy.md).     *)
DeletionWaits ==
  outcome = "index_valid" =>
    \A a \in index.auths :
      /\ a.targets = Marked(index)
      /\ \A g \in Marked(index) :
           LET e == index.entries[g]
           IN /\ e.purpose_class \in ExpiringClass
              /\ a.authorized_at >= e.retention.starts_at
                                      + MinimumRetentionDays[e.purpose_class] + QuarantineDays
=============================================================================
