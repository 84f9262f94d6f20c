------------------------- MODULE RunsArchiveProofs --------------------------
(***************************************************************************)
(* The theorems about RunsArchive: a verified archive is faithful to the   *)
(* inventory, a destination is a whole archive, and a deletion waits for   *)
(* the retention of its class, for every set of groups, destinations and   *)
(* days and any number of writes under runs/.                              *)
(***************************************************************************)
EXTENDS RunsArchive, TLAPS

-----------------------------------------------------------------------------
(* What the files may hold.                                                *)

Window == [starts_at : Nat, expires_at : Int, quarantine_until : Int]
Entry ==
  [purpose_class : PurposeClass, risky : BOOLEAN, retention : Window,
   disposition : {"manual_review_hold", "retain_active", "retain_local", "quarantine",
                  "delete_authorized"},
   source : SUBSET Content, archive : SUBSET Content,
   scrub : {"verified", "not_required"}, restore : {"verified"},
   credential_review : {"complete", "not_required"}, authorization : {None, "batch"}]
IndexShape ==
  /\ index = [fingerprint |-> index.fingerprint, auths |-> index.auths,
              entries |-> index.entries]
  /\ index.entries \in [Group -> Entry]
  /\ \A a \in index.auths : a.id = "batch" /\ a.authorized_at \in Nat

(* A copy of a file, and one that is not newer.                            *)
Older(a, b) == a.version < b.version \/ a = b
Copies(f) == DOMAIN f \subseteq Group /\ \A g \in DOMAIN f : f[g] \in Content

TypeFacts ==
  /\ runs \in [Group -> Content] /\ Copies(snap) /\ Copies(staged)
  /\ todo \subseteq Group
  /\ cmd = [name |-> cmd.name, dest |-> cmd.dest, started |-> cmd.started]
  /\ DOMAIN archives = Dests
  /\ index = Missing \/ IndexShape
  /\ cls = NoClassification \/ cls.class \in [Group -> Purposes]
  /\ today \in Days /\ writes \in 0 .. MaxWrites

-----------------------------------------------------------------------------
(* The inductive invariant.                                                *)

Verifying ==
  pc \in {"read", "compare", "evidence"} /\ cmd.name \in {"verify", "verify_archive"}
Building == {"copy", "restore", "install", "index", "report", "scrub_report", "load"}

(* Versions only grow, and what was read of a file is not newer than it.   *)
ReadFacts ==
  /\ \A g \in Group : runs[g].version <= writes /\ runs[g].mtime <= today
  /\ \A g \in DOMAIN snap : Older(snap[g], runs[g]) /\ snap[g].mtime <= today
  /\ \A g \in DOMAIN staged : /\ Older(staged[g], runs[g]) /\ staged[g].kind # "binary"

(* What each step of a command knows.                                      *)
StepFacts ==
  /\ pc # "idle" => outcome = None /\ cmd.started = today
  /\ pc = "read" => DOMAIN snap = Group \ todo
  /\ pc \in {"compare", "evidence"} \cup Building => DOMAIN snap = Group
  /\ pc \in Building \cup {"evidence"} =>
       cmd.dest \in Dests /\ cls.class \in [Group -> Purposes]
  /\ pc = "read" => cmd.name \in {"scan", "archive", "verify", "verify_archive"}
  /\ pc = "compare" => cmd.name \in {"archive", "verify", "verify_archive"}
  /\ pc \in {"read", "compare"} /\ cmd.name # "scan" => cmd.dest \in Dests
  /\ pc \in {"read", "compare"} /\ cmd.name = "archive" => archives[cmd.dest] = NoArchive
  /\ pc \in {"copy", "restore", "install"} => archives[cmd.dest] = NoArchive
  /\ pc = "idle" => DOMAIN staged = {}
  /\ pc \in {"read", "compare"} /\ cmd.name = "archive" => DOMAIN staged = {}
  /\ pc = "copy" => DOMAIN staged = Group \ todo
  /\ pc \in Building \ {"copy"} => DOMAIN staged = Group
  /\ pc \in Building => \A g \in DOMAIN staged : Older(snap[g], staged[g])
  /\ pc = "evidence" => Verifying /\ snap = summary /\ InventoryLoads

(* The report of an archive is about one reading of runs/, no older than   *)
(* the inventory it names, and a verification reads runs/ after it.        *)
ReportFacts ==
  areport # Missing =>
    /\ areport.payload = [g \in Group |-> areport.payload[g]]
    /\ \A g \in Group : \E c \in Content :
         /\ areport.index.fingerprint[g] \in Content
         /\ areport.index.entries[g].source = {c}
         /\ areport.index.entries[g].archive = {Scrub(c)}
         /\ areport.payload[g] = Scrub(c)
         /\ Older(areport.index.fingerprint[g], c)
         /\ Older(c, runs[g])
         /\ Verifying /\ g \in DOMAIN snap => Older(c, snap[g])

(* The windows of the index are those of the schedule, and its marks carry *)
(* the one authorization it may have.                                      *)
IndexFacts ==
  index # Missing =>
    /\ \A g \in Group :
         LET e == index.entries[g]
         IN /\ e.purpose_class \in ExpiringClass /\ e.retention.quarantine_until # NoTime =>
                 e.retention.quarantine_until >= e.retention.starts_at
                    + MinimumRetentionDays[e.purpose_class] + QuarantineDays
            /\ e.disposition = "delete_authorized" => e.authorization = "batch"
    /\ \A a, b \in index.auths : a = b

(* An index that was found valid has not changed since.                    *)
ValidFacts ==
  outcome = "index_valid" => index # Missing /\ load_and_validate_index(index)

ArchiveInvariant ==
  /\ TypeFacts
  /\ ReadFacts
  /\ StepFacts
  /\ ReportFacts
  /\ IndexFacts
  /\ ValidFacts
  /\ DestinationIsWhole
  /\ VerifiedIsFaithful

-----------------------------------------------------------------------------
USE ArchiveConstants DEF None, Goto, At, disk, memory

(* The order of copies.                                                    *)
LEMMA OlderIsOrder ==
  ASSUME NEW a \in Content, NEW b \in Content, NEW c \in Content
  PROVE  /\ Older(a, b) /\ Older(b, c) => Older(a, c)
         /\ Older(a, b) /\ Older(b, a) => a = b
         /\ Older(a, a)
<1>1. a.version \in Nat /\ b.version \in Nat /\ c.version \in Nat
  BY DEF Content
<1> QED BY <1>1 DEF Older

(* A scrubbed file is a text file without a secret, unless it is binary.   *)
LEMMA ScrubIsPlain ==
  ASSUME NEW c \in Content
  PROVE  Scrub(c) \in Content /\ (c.kind # "binary" => Scrub(c).kind = "plain")
BY DEF Scrub, Content

(* An entry as the archive writes it: its window keeps the schedule of its *)
(* class, and it is not marked for deletion.                               *)
LEMMA BuiltEntry ==
  ASSUME NEW class \in PurposeClass, NEW start \in Nat, NEW now \in Nat, start <= now,
         NEW secret \in BOOLEAN, NEW src \in SUBSET Content, NEW arc \in SUBSET Content
  PROVE  LET e == build_entry(class, start, now, secret, src, arc)
         IN /\ e \in Entry /\ e.source = src /\ e.archive = arc
            /\ e.disposition # "delete_authorized"
            /\ class \in ExpiringClass /\ e.retention.quarantine_until # NoTime =>
                 e.retention.quarantine_until >= start + MinimumRetentionDays[class]
                                                   + QuarantineDays
            /\ e.purpose_class = class /\ e.retention.starts_at = start
<1> DEFINE r == _retention_window(class, start, now)
           e == build_entry(class, start, now, secret, src, arc)
<1>1. /\ r.window \in Window /\ r.window.starts_at = start
      /\ r.disposition \in {"manual_review_hold", "retain_active", "retain_local", "quarantine"}
      /\ class \in ExpiringClass /\ r.window.quarantine_until # NoTime =>
           r.window.quarantine_until >= start + MinimumRetentionDays[class] + QuarantineDays
  <2> USE DEF _retention_window, Window, NoTime, MinimumRetentionDays, QuarantineDays
  <2>1. CASE class \in PermanentClass
    BY <2>1 DEF PermanentClass, ExpiringClass
  <2>2. CASE class = "provider_raw"
    BY <2>2 DEF PermanentClass, ExpiringClass
  <2>3. CASE class \in {"debug", "failed"}
    <3>1. /\ r.window = [starts_at |-> start, expires_at |-> start + 90,
                         quarantine_until |-> start + 120]
          /\ r.disposition \in {"quarantine", "retain_local"}
      BY <2>3 DEF PermanentClass
    <3>2. MinimumRetentionDays[class] = 90
      BY <2>3
    <3> HIDE DEF r
    <3> QED BY <3>1, <3>2
  <2>4. CASE class \in {"superseded", "duplicate"}
    <3>1. /\ r.window = [starts_at |-> start, expires_at |-> start,
                         quarantine_until |-> now + 30]
          /\ r.disposition = "quarantine"
      BY <2>4 DEF PermanentClass
    <3>2. MinimumRetentionDays[class] = 0
      BY <2>4
    <3> HIDE DEF r
    <3> QED BY <3>1, <3>2
  <2> QED BY <2>1, <2>2, <2>3, <2>4 DEF PurposeClass, ExpiringClass
<1>2. e = [purpose_class |-> class, risky |-> secret, retention |-> r.window,
           disposition |-> r.disposition, source |-> src, archive |-> arc,
           scrub |-> IF secret THEN "verified" ELSE "not_required",
           restore |-> "verified",
           credential_review |-> IF secret THEN "complete" ELSE "not_required",
           authorization |-> None]
  BY DEF build_entry
<1> HIDE DEF e, r
<1>3. e \in Entry
  BY <1>1, <1>2 DEF Entry
<1>4. /\ e.source = src /\ e.archive = arc /\ e.purpose_class = class
      /\ e.retention = r.window /\ e.disposition = r.disposition
  BY <1>2
<1> QED BY <1>1, <1>3, <1>4 DEF e

(* A command that ends, by itself or not, without a verdict leaves the     *)
(* archive, the index and the reports as they are.                         *)
LEMMA EndKeeps ==
  ASSUME ArchiveInvariant, NEW how, End(how), how \notin {"index_valid", "archived", "verified"},
         UNCHANGED <<runs, cls, archives, index, areport, today, writes>>
  PROVE  ArchiveInvariant'
<1> USE DEF ArchiveInvariant, End
<1>1. TypeFacts'
  BY DEF TypeFacts, IndexShape, Copies, Missing, NoCommand
<1>2. ReadFacts' /\ StepFacts'
  BY DEF ReadFacts, StepFacts, Missing, Building
<1>3. ReportFacts'
  BY DEF ReportFacts, Verifying
<1>4. IndexFacts' /\ ValidFacts'
  BY DEF IndexFacts, ValidFacts
<1>5. DestinationIsWhole' /\ VerifiedIsFaithful'
  BY DEF DestinationIsWhole, VerifiedIsFaithful
<1> QED BY <1>1, <1>2, <1>3, <1>4, <1>5

(* A command reads on: nothing but its own memory changes.  What remains   *)
(* to be shown of such a step is what it has read and where it is.         *)
LEMMA CommandKeeps ==
  ASSUME ArchiveInvariant, UNCHANGED <<runs, cls, archives, index, areport, today, writes>>,
         TypeFacts', StepFacts', pc' # "idle",
         \A g \in DOMAIN snap' :
            \/ snap'[g] = runs[g]
            \/ g \in DOMAIN snap /\ snap'[g] = snap[g],
         \A g \in DOMAIN staged' :
            \/ staged'[g] = runs[g] /\ runs[g].kind # "binary"
            \/ g \in DOMAIN staged /\ staged'[g] = staged[g],
         Verifying' => snap' = Missing \/ Verifying
  PROVE  ArchiveInvariant'
<1> USE DEF ArchiveInvariant
<1>1. ReadFacts'
  BY DEF ReadFacts, TypeFacts, Copies, Older
<1>2. ReportFacts'
  BY DEF ReportFacts, Missing
<1>3. IndexFacts'
  BY DEF IndexFacts
<1>4. outcome' = None
  BY DEF StepFacts
<1>5. ValidFacts' /\ DestinationIsWhole' /\ VerifiedIsFaithful'
  BY <1>4 DEF ValidFacts, DestinationIsWhole, VerifiedIsFaithful
<1> QED BY <1>1, <1>2, <1>3, <1>5

(* The memory of a command that begins to read runs/.                      *)
LEMMA ReadingStarts ==
  ASSUME ArchiveInvariant, StartReading, UNCHANGED <<runs, cls, archives, index, today, writes>>,
         staged' = staged, outcome' = None,
         cmd' = [name |-> cmd'.name, dest |-> cmd'.dest, started |-> today],
         cmd'.name \in {"scan", "archive", "verify", "verify_archive"},
         cmd'.name # "scan" => cmd'.dest \in Dests,
         cmd'.name = "archive" => archives[cmd'.dest] = NoArchive,
         pc = "idle" \/ cmd'.name = "verify_archive"
  PROVE  TypeFacts' /\ StepFacts' /\ snap' = Missing /\ DOMAIN snap' = {}
<1> USE DEF ArchiveInvariant, StartReading
<1>1. snap' = Missing /\ DOMAIN snap' = {}
  BY DEF Missing
<1>2. TypeFacts'
  BY <1>1 DEF TypeFacts, IndexShape, Copies
<1>3. StepFacts'
  BY <1>1 DEF StepFacts, Building
<1> QED BY <1>1, <1>2, <1>3

(* A command refuses to begin.                                             *)
LEMMA RefusingStarts ==
  ASSUME ArchiveInvariant, pc' = "refuse", UNCHANGED <<todo, snap, staged>>,
         UNCHANGED <<runs, cls, archives, index, areport, today, writes>>, outcome' = None,
         cmd' = [name |-> cmd'.name, dest |-> cmd'.dest, started |-> today]
  PROVE  ArchiveInvariant'
<1>1. TypeFacts'
  BY DEF ArchiveInvariant, TypeFacts, IndexShape, Copies
<1>2. StepFacts' /\ ~Verifying'
  BY DEF StepFacts, Building, Verifying
<1> QED BY <1>1, <1>2, CommandKeeps

(* The start of scan_runs, archive_runs and verify_archive.                *)
LEMMA StartKeeps ==
  ASSUME ArchiveInvariant,
         scan_runs \/ \E d \in Dests : archive_runs(d) \/ verify_archive(d)
  PROVE  ArchiveInvariant'
<1>1. PICK name \in {"scan", "archive", "verify"}, dest \in Dests \cup {None} :
        Start(name, dest) /\ (name # "scan" => dest \in Dests)
  BY DEF scan_runs, archive_runs, verify_archive
<1>2. /\ UNCHANGED <<runs, cls, archives, index, areport, today, writes>>
      /\ pc = "idle" /\ outcome' = None
      /\ cmd' = [name |-> cmd'.name, dest |-> cmd'.dest, started |-> today]
      /\ cmd'.name \in {"scan", "archive", "verify"}
      /\ cmd'.name # "scan" => cmd'.dest \in Dests
  BY <1>1 DEF Start
<1>3. CASE StartReading /\ staged' = staged
  <2>1. cmd'.name = "archive" => archives[cmd'.dest] = NoArchive
    BY <1>3 DEF scan_runs, archive_runs, verify_archive, Start, StartReading
  <2>2. TypeFacts' /\ StepFacts' /\ snap' = Missing /\ DOMAIN snap' = {}
    BY <1>2, <1>3, <2>1, ReadingStarts
  <2> QED BY <1>2, <1>3, <2>2, CommandKeeps DEF StartReading
<1>4. CASE pc' = "refuse" /\ UNCHANGED <<todo, snap, staged>>
  BY <1>2, <1>4, RefusingStarts
<1> QED BY <1>3, <1>4 DEF scan_runs, archive_runs, verify_archive, VerifyInventory

(* A file of runs/ is read.                                                *)
LEMMA ReadFileKeeps ==
  ASSUME ArchiveInvariant, ReadFile
  PROVE  ArchiveInvariant'
<1> USE DEF ArchiveInvariant, ReadFile
<1>1. PICK g \in todo :
        /\ snap' = [h \in DOMAIN snap \cup {g} |-> IF h = g THEN runs[g] ELSE snap[h]]
        /\ todo' = todo \ {g}
        /\ Goto(IF todo # {g} THEN "read"
                ELSE IF cmd.name = "scan" THEN "summary" ELSE "compare")
  OBVIOUS
<1>2. /\ DOMAIN snap' = DOMAIN snap \cup {g}
      /\ \A h \in DOMAIN snap' : snap'[h] = IF h = g THEN runs[g] ELSE snap[h]
      /\ g \in Group
  BY <1>1 DEF TypeFacts
<1>3. TypeFacts'
  BY <1>1, <1>2 DEF TypeFacts, IndexShape, Copies
<1>4. StepFacts'
  BY <1>1, <1>2 DEF StepFacts, Building, TypeFacts
<1>5. pc' # "idle" /\ (Verifying' => Verifying)
  BY <1>1 DEF Verifying
<1>6. UNCHANGED <<runs, cls, archives, index, areport, today, writes, staged>>
  OBVIOUS
<1> HIDE DEF ArchiveInvariant, ReadFile
<1> QED BY <1>2, <1>3, <1>4, <1>5, <1>6, CommandKeeps

(* A scan writes its summary.                                              *)
LEMMA WriteSummaryKeeps ==
  ASSUME ArchiveInvariant, WriteSummary
  PROVE  ArchiveInvariant'
<1> USE DEF WriteSummary
<1>1. TypeFacts'
  BY DEF ArchiveInvariant, TypeFacts, IndexShape, Copies
<1>2. StepFacts' /\ ~Verifying'
  BY DEF ArchiveInvariant, StepFacts, Building, Verifying
<1> QED BY <1>1, <1>2, CommandKeeps

(* The inventory is compared with what was read of runs/.                  *)
LEMMA CompareInventoryKeeps ==
  ASSUME ArchiveInvariant, CompareInventory
  PROVE  ArchiveInvariant'
<1> USE DEF CompareInventory
<1>1. CASE ~InventoryVerified
  BY <1>1, EndKeeps
<1>2. CASE InventoryVerified
  <2>1. cls.class \in [Group -> Purposes]
    BY <1>2 DEF ArchiveInvariant, TypeFacts, InventoryVerified, InventoryLoads,
         NoClassification
  <2>2. TypeFacts'
    BY <1>2 DEF ArchiveInvariant, TypeFacts, IndexShape, Copies
  <2>3. Verifying' => Verifying
    BY <1>2 DEF ArchiveInvariant, StepFacts, Verifying
  <2>4. StepFacts'
    BY <1>2, <2>1 DEF ArchiveInvariant, StepFacts, Building, Verifying, InventoryVerified,
         InventoryLoads
  <2> QED BY <1>2, <2>2, <2>3, <2>4, CommandKeeps
<1> QED BY <1>1, <1>2

(* A file is copied to the staging directory, or cannot be scrubbed.       *)
LEMMA CopyFileKeeps ==
  ASSUME ArchiveInvariant, CopyFile
  PROVE  ArchiveInvariant'
<1> USE DEF CopyFile
<1>1. PICK g \in todo :
        IF runs[g].kind = "binary" THEN Raise("unscrubbable")
        ELSE /\ staged' = [h \in DOMAIN staged \cup {g} |->
                             IF h = g THEN runs[g] ELSE staged[h]]
             /\ todo' = todo \ {g}
             /\ Goto(IF todo = {g} THEN "restore" ELSE "copy")
             /\ UNCHANGED disk /\ UNCHANGED <<cmd, snap, outcome>>
  OBVIOUS
<1>2. CASE runs[g].kind = "binary"
  BY <1>1, <1>2, EndKeeps DEF Raise
<1>3. CASE runs[g].kind # "binary"
  <2>1. /\ DOMAIN staged' = DOMAIN staged \cup {g} /\ g \in Group
        /\ \A h \in DOMAIN staged' : staged'[h] = IF h = g THEN runs[g] ELSE staged[h]
    BY <1>1, <1>3 DEF ArchiveInvariant, TypeFacts
  <2>2. UNCHANGED <<runs, cls, archives, index, areport, today, writes, snap>>
    BY <1>1, <1>3
  <2>3. TypeFacts'
    BY <1>1, <1>3, <2>1 DEF ArchiveInvariant, TypeFacts, IndexShape, Copies
  <2>4. \A h \in DOMAIN staged' : Older(snap[h], staged'[h])
    BY <2>1 DEF ArchiveInvariant, StepFacts, Building, ReadFacts
  <2>5. StepFacts' /\ ~Verifying' /\ pc' # "idle"
    BY <1>1, <1>3, <2>1, <2>4 DEF ArchiveInvariant, StepFacts, TypeFacts, Building, Verifying
  <2> HIDE DEF CopyFile
  <2> QED BY <1>3, <2>1, <2>2, <2>3, <2>5, CommandKeeps
<1> QED BY <1>2, <1>3

(* The staged files are restored for a trial.                              *)
LEMMA VerifyRestoreKeeps ==
  ASSUME ArchiveInvariant, VerifyRestore
  PROVE  ArchiveInvariant'
<1> USE DEF VerifyRestore
<1>1. CASE End("restore_mismatch")
  BY <1>1, EndKeeps
<1>2. CASE pc' = "install" /\ UNCHANGED <<cmd, todo, snap, staged, outcome>>
  <2>1. TypeFacts'
    BY <1>2 DEF ArchiveInvariant, TypeFacts, IndexShape, Copies
  <2>2. StepFacts' /\ ~Verifying'
    BY <1>2 DEF ArchiveInvariant, StepFacts, Building, Verifying
  <2> QED BY <1>2, <2>1, <2>2, CommandKeeps
<1> QED BY <1>1, <1>2

(* The scrub report is written.                                            *)
LEMMA WriteScrubReportKeeps ==
  ASSUME ArchiveInvariant, WriteScrubReport
  PROVE  ArchiveInvariant'
<1> USE DEF WriteScrubReport
<1>1. TypeFacts'
  BY DEF ArchiveInvariant, TypeFacts, IndexShape, Copies
<1>2. StepFacts' /\ ~Verifying'
  BY DEF ArchiveInvariant, StepFacts, Building, Verifying
<1> QED BY <1>1, <1>2, CommandKeeps

(* The new index is loaded and the verification begins.                    *)
LEMMA LoadIndexKeeps ==
  ASSUME ArchiveInvariant, LoadIndex
  PROVE  ArchiveInvariant'
<1> USE DEF LoadIndex
<1>1. CASE End("index_rejected")
  BY <1>1, EndKeeps
<1>2. CASE /\ cmd' = [cmd EXCEPT !.name = "verify_archive"]
           /\ VerifyInventory
           /\ UNCHANGED outcome
  <2>1. cmd' = [name |-> "verify_archive", dest |-> cmd.dest, started |-> today]
    BY <1>2 DEF ArchiveInvariant, TypeFacts, StepFacts
  <2>2. cmd.dest \in Dests /\ outcome' = None
    BY <1>2 DEF ArchiveInvariant, StepFacts, Building
  <2>3. CASE StartReading /\ staged' = staged
    <3>1. TypeFacts' /\ StepFacts' /\ snap' = Missing /\ DOMAIN snap' = {}
      BY <2>1, <2>2, <2>3, ReadingStarts
    <3> QED BY <2>3, <3>1, CommandKeeps DEF StartReading
  <2>4. CASE pc' = "refuse" /\ UNCHANGED <<todo, snap, staged>>
    BY <2>1, <2>2, <2>4, RefusingStarts
  <2> QED BY <1>2, <2>3, <2>4 DEF VerifyInventory
<1> QED BY <1>1, <1>2

-----------------------------------------------------------------------------
(* The archive and its records.                                            *)

(* What is built from the inventory and the staged copies.                 *)
LEMMA BuiltFacts ==
  ASSUME ArchiveInvariant, pc \in Building \ {"copy"}
  PROVE  /\ BuiltIndex.fingerprint = snap /\ BuiltIndex.auths = {}
         /\ BuiltIndex = [fingerprint |-> BuiltIndex.fingerprint, auths |-> BuiltIndex.auths,
                          entries |-> BuiltIndex.entries]
         /\ BuiltIndex.entries \in [Group -> Entry]
         /\ \A g \in Group :
              /\ staged[g] \in Content /\ staged[g].kind # "binary" /\ snap[g] \in Content
              /\ Older(snap[g], staged[g]) /\ Older(staged[g], runs[g])
              /\ BuiltIndex.entries[g].source = {staged[g]}
              /\ BuiltIndex.entries[g].archive = {Scrub(staged[g])}
              /\ BuiltIndex.entries[g].disposition # "delete_authorized"
              /\ LET e == BuiltIndex.entries[g]
                 IN e.purpose_class \in ExpiringClass /\ e.retention.quarantine_until # NoTime =>
                      e.retention.quarantine_until >= e.retention.starts_at
                         + MinimumRetentionDays[e.purpose_class] + QuarantineDays
<1> DEFINE entry(g) == build_entry(cls.class[g], snap[g].mtime, cmd.started,
                                   snap[g].kind = "secret", {staged[g]}, {Payload[g]})
<1>1. BuiltIndex = [fingerprint |-> snap, auths |-> {}, entries |-> [g \in Group |-> entry(g)]]
  BY DEF BuiltIndex
<1>2. \A g \in Group :
        /\ staged[g] \in Content /\ staged[g].kind # "binary" /\ snap[g] \in Content
        /\ Older(snap[g], staged[g]) /\ Older(staged[g], runs[g])
        /\ snap[g].mtime <= today /\ snap[g].mtime \in Nat
        /\ cls.class[g] \in PurposeClass
  BY DEF ArchiveInvariant, TypeFacts, Copies, StepFacts, ReadFacts, Building, Content
<1>3. cmd.started = today /\ today \in Nat
  BY DEF ArchiveInvariant, TypeFacts, StepFacts, Building
<1>4. ASSUME NEW g \in Group
      PROVE  /\ entry(g) \in Entry
             /\ entry(g).source = {staged[g]} /\ entry(g).archive = {Scrub(staged[g])}
             /\ entry(g).disposition # "delete_authorized"
             /\ entry(g).purpose_class \in ExpiringClass
                /\ entry(g).retention.quarantine_until # NoTime =>
                  entry(g).retention.quarantine_until >= entry(g).retention.starts_at
                     + MinimumRetentionDays[entry(g).purpose_class] + QuarantineDays
  <2>1. Payload[g] = Scrub(staged[g]) /\ Scrub(staged[g]) \in Content
    BY <1>2, ScrubIsPlain DEF Payload
  <2>2. {staged[g]} \in SUBSET Content /\ {Payload[g]} \in SUBSET Content
    BY <1>2, <2>1
  <2> DEFINE secret == snap[g].kind = "secret"
  <2>3. secret \in BOOLEAN
    OBVIOUS
  <2>4. cls.class[g] \in PurposeClass /\ snap[g].mtime \in Nat /\ snap[g].mtime <= cmd.started
        /\ cmd.started \in Nat
    BY <1>2, <1>3
  <2>5. entry(g) = build_entry(cls.class[g], snap[g].mtime, cmd.started, secret,
                               {staged[g]}, {Payload[g]})
    OBVIOUS
  <2> HIDE DEF secret, entry
  <2> QED BY <2>1, <2>2, <2>3, <2>4, <2>5, BuiltEntry
<1> HIDE DEF entry
<1> QED BY <1>1, <1>2, <1>4

(* The staging directory becomes the destination.                          *)
LEMMA InstallArchiveKeeps ==
  ASSUME ArchiveInvariant, InstallArchive
  PROVE  ArchiveInvariant'
<1> USE DEF InstallArchive
<1> DEFINE new == [payload |-> Payload, report |-> ArchiveReport]
<1>1. cmd.dest \in Dests /\ pc \in Building \ {"copy"}
  BY DEF ArchiveInvariant, StepFacts, Building
<1>2. /\ new.report # Missing /\ new.report.payload = new.payload
      /\ DOMAIN new.payload = Group
      /\ \A g \in Group : new.payload[g].kind = "plain"
  <2>1. DOMAIN ArchiveReport # DOMAIN Missing
    BY DEF ArchiveReport, Missing
  <2>2. \A g \in Group : Scrub(staged[g]).kind = "plain"
    BY <1>1, BuiltFacts, ScrubIsPlain
  <2> QED BY <2>1, <2>2 DEF ArchiveReport, Payload
<1> HIDE DEF new
<1>3. /\ DOMAIN archives' = Dests
      /\ \A d \in Dests : archives'[d] = IF d = cmd.dest THEN new ELSE archives[d]
  BY <1>1 DEF new, ArchiveInvariant, TypeFacts
<1>4. DestinationIsWhole'
  BY <1>2, <1>3 DEF ArchiveInvariant, DestinationIsWhole
<1>5. TypeFacts' /\ ReadFacts'
  BY <1>3 DEF ArchiveInvariant, TypeFacts, IndexShape, Copies, ReadFacts
<1>6. StepFacts' /\ outcome' = None /\ ~Verifying'
  BY DEF ArchiveInvariant, StepFacts, Building, Verifying
<1>7. ReportFacts' /\ IndexFacts'
  BY <1>6 DEF ArchiveInvariant, ReportFacts, IndexFacts
<1>8. ValidFacts' /\ VerifiedIsFaithful'
  BY <1>6 DEF ValidFacts, VerifiedIsFaithful
<1> QED BY <1>4, <1>5, <1>6, <1>7, <1>8 DEF ArchiveInvariant

(* The index is written.                                                   *)
LEMMA WriteIndexKeeps ==
  ASSUME ArchiveInvariant, WriteIndex
  PROVE  ArchiveInvariant'
<1> USE DEF WriteIndex
<1>1. pc \in Building \ {"copy"} /\ index' = BuiltIndex
  BY DEF Building
<1>2. IndexShape'
  BY <1>1, BuiltFacts DEF IndexShape
<1>3. TypeFacts' /\ ReadFacts'
  BY <1>2 DEF ArchiveInvariant, TypeFacts, Copies, ReadFacts
<1>4. IndexFacts'
  BY <1>1, BuiltFacts DEF IndexFacts
<1>5. StepFacts' /\ outcome' = None /\ ~Verifying'
  BY DEF ArchiveInvariant, StepFacts, Building, Verifying
<1>6. ReportFacts' /\ DestinationIsWhole'
  BY <1>5 DEF ArchiveInvariant, ReportFacts, DestinationIsWhole
<1>7. ValidFacts' /\ VerifiedIsFaithful'
  BY <1>5 DEF ValidFacts, VerifiedIsFaithful
<1> QED BY <1>3, <1>4, <1>5, <1>6, <1>7 DEF ArchiveInvariant

(* The archive report is written.                                          *)
LEMMA WriteArchiveReportKeeps ==
  ASSUME ArchiveInvariant, WriteArchiveReport
  PROVE  ArchiveInvariant'
<1> USE DEF WriteArchiveReport
<1>1. pc \in Building \ {"copy"} /\ areport' = ArchiveReport /\ runs' = runs
  BY DEF Building
<1>2. StepFacts' /\ outcome' = None /\ ~Verifying'
  BY DEF ArchiveInvariant, StepFacts, Building, Verifying
<1>3. ReportFacts'
  <2>1. areport'.index = BuiltIndex /\ areport'.payload = [g \in Group |-> Scrub(staged[g])]
    BY <1>1 DEF ArchiveReport, Payload
  <2>2. areport'.payload = [g \in Group |-> areport'.payload[g]]
    BY <2>1
  <2>3. ASSUME NEW g \in Group
        PROVE  /\ staged[g] \in Content
               /\ areport'.index.fingerprint[g] \in Content
               /\ areport'.index.entries[g].source = {staged[g]}
               /\ areport'.index.entries[g].archive = {Scrub(staged[g])}
               /\ areport'.payload[g] = Scrub(staged[g])
               /\ Older(areport'.index.fingerprint[g], staged[g])
               /\ Older(staged[g], runs'[g])
    BY <1>1, <2>1, BuiltFacts
  <2> QED BY <1>2, <2>2, <2>3 DEF ReportFacts
<1>4. TypeFacts' /\ ReadFacts'
  BY DEF ArchiveInvariant, TypeFacts, IndexShape, Copies, ReadFacts
<1>5. IndexFacts' /\ DestinationIsWhole'
  BY DEF ArchiveInvariant, IndexFacts, DestinationIsWhole
<1>6. ValidFacts' /\ VerifiedIsFaithful'
  BY <1>2 DEF ValidFacts, VerifiedIsFaithful
<1> QED BY <1>2, <1>3, <1>4, <1>5, <1>6 DEF ArchiveInvariant

(* The evidence holds only of an archive of what the inventory describes:  *)
(* the copies are not older than the inventory, the files read now are not *)
(* older than the copies, and they are the inventory's again.              *)
LEMMA EvidenceIsFaithful ==
  ASSUME ArchiveInvariant, At("evidence"), EvidenceHolds(cmd.dest)
  PROVE  /\ InventoryLoads /\ index.fingerprint = summary /\ cmd.dest \in Dests
         /\ archives[cmd.dest].payload = [g \in Group |-> Scrub(summary[g])]
         /\ \A g \in Group : /\ index.entries[g].source = {summary[g]}
                             /\ index.entries[g].archive = {archives[cmd.dest].payload[g]}
<1>1. /\ snap = summary /\ InventoryLoads /\ Verifying /\ cmd.dest \in Dests
      /\ DOMAIN snap = Group
  BY DEF ArchiveInvariant, StepFacts, Building
<1>2. /\ areport # Missing /\ areport.index = index /\ index.fingerprint = summary
      /\ archives[cmd.dest].payload = areport.payload
  BY DEF EvidenceHolds
<1>3. ASSUME NEW g \in Group
      PROVE  /\ index.entries[g].source = {summary[g]}
             /\ index.entries[g].archive = {Scrub(summary[g])}
             /\ areport.payload[g] = Scrub(summary[g])
  <2>1. PICK c \in Content :
          /\ areport.index.entries[g].source = {c}
          /\ areport.index.entries[g].archive = {Scrub(c)}
          /\ areport.payload[g] = Scrub(c)
          /\ Older(areport.index.fingerprint[g], c)
          /\ Older(c, snap[g])
    BY <1>1, <1>2 DEF ArchiveInvariant, ReportFacts
  <2>2. summary[g] \in Content
    BY <1>1 DEF ArchiveInvariant, TypeFacts, Copies
  <2>3. c = summary[g]
    BY <1>1, <1>2, <2>1, <2>2, OlderIsOrder
  <2> QED BY <1>2, <2>1, <2>3
<1>4. areport.payload = [g \in Group |-> areport.payload[g]]
  BY <1>2 DEF ArchiveInvariant, ReportFacts
<1>5. areport.payload = [g \in Group |-> Scrub(summary[g])]
  BY <1>3, <1>4
<1> QED BY <1>1, <1>2, <1>3, <1>5

(* The verdict of verify_archive.                                          *)
LEMMA CheckEvidenceKeeps ==
  ASSUME ArchiveInvariant, CheckEvidence
  PROVE  ArchiveInvariant'
<1> USE DEF CheckEvidence
<1>1. CASE ~EvidenceHolds(cmd.dest)
  BY <1>1, EndKeeps
<1>2. CASE EvidenceHolds(cmd.dest)
  <2>1. PICK how \in {"verified", "archived"} : End(how)
    BY <1>2
  <2>2. VerifiedIsFaithful'
    BY <1>2, EvidenceIsFaithful DEF VerifiedIsFaithful, InventoryLoads
  <2> USE <2>1 DEF ArchiveInvariant, End
  <2>3. TypeFacts'
    BY DEF TypeFacts, IndexShape, Copies, Missing, NoCommand
  <2>4. ReadFacts' /\ StepFacts'
    BY DEF ReadFacts, StepFacts, Missing, Building
  <2>5. ReportFacts' /\ IndexFacts'
    BY DEF ReportFacts, Verifying, IndexFacts
  <2>6. ValidFacts' /\ DestinationIsWhole'
    BY DEF ValidFacts, DestinationIsWhole
  <2> QED BY <2>2, <2>3, <2>4, <2>5, <2>6
<1> QED BY <1>1, <1>2

-----------------------------------------------------------------------------
(* The owner and the world.                                                *)

(* The owner classifies the campaigns.                                     *)
LEMMA ClassifyKeeps ==
  ASSUME ArchiveInvariant, Classify
  PROVE  ArchiveInvariant'
<1> USE DEF ArchiveInvariant, Classify
<1>1. TypeFacts'
  BY DEF TypeFacts, IndexShape, Copies
<1>2. ReadFacts' /\ StepFacts'
  BY DEF ReadFacts, StepFacts, Building
<1>3. ReportFacts' /\ IndexFacts'
  BY DEF ReportFacts, Verifying, IndexFacts
<1>4. ValidFacts' /\ DestinationIsWhole' /\ VerifiedIsFaithful'
  BY DEF ValidFacts, DestinationIsWhole, VerifiedIsFaithful, InventoryLoads
<1> QED BY <1>1, <1>2, <1>3, <1>4

(* The owner marks entries of the index for deletion.                      *)
LEMMA AuthorizeKeeps ==
  ASSUME ArchiveInvariant, Authorize
  PROVE  ArchiveInvariant'
<1> USE DEF Authorize
<1>1. PICK marked \in (SUBSET Group) \ {{}} : \E targets \in {marked, Group} :
        index' = [index EXCEPT
          !.entries = [g \in Group |-> IF g \notin marked THEN @[g]
                        ELSE [@[g] EXCEPT !.disposition = "delete_authorized",
                                          !.authorization = "batch"]],
          !.auths = {[id |-> "batch", fingerprint |-> index.fingerprint,
                      targets |-> targets, authorized_at |-> today]}]
  OBVIOUS
<1>2. PICK targets \in {marked, Group} :
        index' = [index EXCEPT
          !.entries = [g \in Group |-> IF g \notin marked THEN @[g]
                        ELSE [@[g] EXCEPT !.disposition = "delete_authorized",
                                          !.authorization = "batch"]],
          !.auths = {[id |-> "batch", fingerprint |-> index.fingerprint,
                      targets |-> targets, authorized_at |-> today]}]
  BY <1>1
<1>3. IndexShape /\ today \in Nat
  BY DEF ArchiveInvariant, TypeFacts
<1> DEFINE entry(g) == IF g \notin marked THEN index.entries[g]
                       ELSE [index.entries[g] EXCEPT !.disposition = "delete_authorized",
                                                     !.authorization = "batch"]
           auth == [id |-> "batch", fingerprint |-> index.fingerprint,
                    targets |-> targets, authorized_at |-> today]
<1>4. \A g \in Group :
        /\ entry(g) \in Entry
        /\ entry(g).purpose_class = index.entries[g].purpose_class
        /\ entry(g).retention = index.entries[g].retention
        /\ \/ entry(g) = index.entries[g]
           \/ entry(g).authorization = "batch"
  <2> SUFFICES ASSUME NEW g \in Group
               PROVE  /\ entry(g) \in Entry
                      /\ entry(g).purpose_class = index.entries[g].purpose_class
                      /\ entry(g).retention = index.entries[g].retention
                      /\ \/ entry(g) = index.entries[g]
                         \/ entry(g).authorization = "batch"
    OBVIOUS
  <2>1. index.entries[g] \in Entry
    BY <1>3 DEF IndexShape
  <2>2. CASE g \notin marked
    BY <2>1, <2>2
  <2>3. CASE g \in marked
    BY <2>1, <2>3 DEF Entry
  <2> QED BY <2>2, <2>3
<1>5. auth.id = "batch" /\ auth.authorized_at \in Nat
  BY <1>3
<1>6. index' = [fingerprint |-> index.fingerprint, auths |-> {auth},
                entries |-> [g \in Group |-> entry(g)]]
  BY <1>2, <1>3 DEF IndexShape
<1> HIDE DEF entry, auth
<1>7. /\ index'.auths = {auth} /\ index'.entries \in [Group -> Entry]
      /\ \A g \in Group : index'.entries[g] = entry(g)
  BY <1>4, <1>6
<1>8. IndexShape'
  BY <1>5, <1>6, <1>7 DEF IndexShape
<1>9. IndexFacts'
  <2> HIDE DEF Authorize
  <2>1. index # Missing
    BY DEF Authorize
  <2> SUFFICES ASSUME NEW g \in Group
               PROVE  LET e == entry(g)
                      IN /\ e.purpose_class \in ExpiringClass
                            /\ e.retention.quarantine_until # NoTime =>
                              e.retention.quarantine_until >= e.retention.starts_at
                                 + MinimumRetentionDays[e.purpose_class] + QuarantineDays
                         /\ e.disposition = "delete_authorized" => e.authorization = "batch"
    BY <1>7 DEF IndexFacts
  <2> QED BY <1>4, <2>1 DEF ArchiveInvariant, IndexFacts
<1>10. TypeFacts' /\ ReadFacts' /\ StepFacts'
  BY <1>8 DEF ArchiveInvariant, TypeFacts, Copies, ReadFacts, StepFacts, Building
<1>11. ReportFacts' /\ DestinationIsWhole'
  BY DEF ArchiveInvariant, ReportFacts, Verifying, DestinationIsWhole
<1>12. ValidFacts' /\ VerifiedIsFaithful'
  BY DEF ValidFacts, VerifiedIsFaithful
<1> QED BY <1>9, <1>10, <1>11, <1>12 DEF ArchiveInvariant

(* The index is validated.                                                 *)
LEMMA ValidateIndexKeeps ==
  ASSUME ArchiveInvariant, validate_index
  PROVE  ArchiveInvariant'
<1> USE DEF validate_index
<1>1. ValidFacts' /\ VerifiedIsFaithful'
  BY DEF ValidFacts, VerifiedIsFaithful
<1>2. TypeFacts' /\ ReadFacts' /\ StepFacts'
  BY DEF ArchiveInvariant, TypeFacts, IndexShape, Copies, ReadFacts, StepFacts, Building
<1>3. ReportFacts' /\ IndexFacts' /\ DestinationIsWhole'
  BY DEF ArchiveInvariant, ReportFacts, Verifying, IndexFacts, DestinationIsWhole
<1> QED BY <1>1, <1>2, <1>3 DEF ArchiveInvariant

(* A campaign writes a file under runs/: it is newer than every copy.      *)
LEMMA RunWritesKeeps ==
  ASSUME ArchiveInvariant, RunWrites
  PROVE  ArchiveInvariant'
<1> USE DEF RunWrites
<1>1. PICK h \in Group, k \in {"plain", "secret", "binary"} :
        runs' = [runs EXCEPT ![h] = [version |-> writes + 1, kind |-> k, mtime |-> today]]
  OBVIOUS
<1>2. runs \in [Group -> Content] /\ today \in Days /\ writes \in Nat /\ writes + 1 <= MaxWrites
  BY DEF ArchiveInvariant, TypeFacts
<1>3. /\ runs' \in [Group -> Content]
      /\ \A g \in Group : \/ runs'[g] = runs[g]
                          \/ runs'[g].version = writes + 1 /\ runs'[g].mtime = today
  BY <1>1, <1>2 DEF Content
<1>4. \A g \in Group : runs[g].version <= writes /\ runs[g].version \in Nat
  BY <1>2 DEF ArchiveInvariant, ReadFacts, Content
<1>5. \A g \in Group : \A c \in Content : Older(c, runs[g]) => Older(c, runs'[g])
  BY <1>2, <1>3, <1>4 DEF Older, Content
<1>6. TypeFacts'
  BY <1>2, <1>3 DEF ArchiveInvariant, TypeFacts, IndexShape, Copies
<1>7. ReadFacts'
  BY <1>2, <1>3, <1>4, <1>5 DEF ArchiveInvariant, ReadFacts, TypeFacts, Copies
<1>8. ReportFacts'
  BY <1>5 DEF ArchiveInvariant, ReportFacts, Verifying
<1>9. StepFacts' /\ IndexFacts' /\ ValidFacts'
  BY DEF ArchiveInvariant, StepFacts, Building, Verifying, InventoryLoads, IndexFacts, ValidFacts
<1>10. DestinationIsWhole' /\ VerifiedIsFaithful'
  BY DEF ArchiveInvariant, DestinationIsWhole, VerifiedIsFaithful, InventoryLoads
<1> QED BY <1>6, <1>7, <1>8, <1>9, <1>10 DEF ArchiveInvariant

(* A day passes, between two commands.                                     *)
LEMMA DayPassesKeeps ==
  ASSUME ArchiveInvariant, DayPasses
  PROVE  ArchiveInvariant'
<1> USE DEF DayPasses
<1>1. today' \in Days /\ today' > today /\ today \in Days
  BY DEF ArchiveInvariant, TypeFacts
<1>2. TypeFacts'
  BY <1>1 DEF ArchiveInvariant, TypeFacts, IndexShape, Copies
<1>3. ReadFacts'
  <2>1. \A g \in Group : runs[g].mtime \in Nat
    BY DEF ArchiveInvariant, TypeFacts, Content
  <2>2. \A g \in DOMAIN snap : snap[g].mtime \in Nat
    BY DEF ArchiveInvariant, TypeFacts, Copies, Content
  <2>3. \A m \in Nat : m <= today => m <= today'
    BY <1>1
  <2> QED BY <2>1, <2>2, <2>3 DEF ArchiveInvariant, ReadFacts
<1>4. StepFacts' /\ IndexFacts' /\ ValidFacts'
  BY DEF ArchiveInvariant, StepFacts, Building, IndexFacts, ValidFacts
<1>5. ReportFacts' /\ DestinationIsWhole' /\ VerifiedIsFaithful'
  BY DEF ArchiveInvariant, ReportFacts, Verifying, DestinationIsWhole, VerifiedIsFaithful,
       InventoryLoads
<1> QED BY <1>2, <1>3, <1>4, <1>5 DEF ArchiveInvariant

(* The invariant holds initially.                                          *)
LEMMA InitHolds == Init => ArchiveInvariant
<1> SUFFICES ASSUME Init PROVE ArchiveInvariant
  OBVIOUS
<1> USE DEF Init, Missing, NoCommand
<1>1. TypeFacts
  BY DEF TypeFacts, Copies
<1>2. ReadFacts
  BY DEF ReadFacts, Content
<1>3. StepFacts /\ ReportFacts /\ IndexFacts /\ ValidFacts
  BY DEF StepFacts, Building, ReportFacts, IndexFacts, ValidFacts
<1>4. DestinationIsWhole /\ VerifiedIsFaithful
  BY DEF DestinationIsWhole, VerifiedIsFaithful
<1> QED BY <1>1, <1>2, <1>3, <1>4 DEF ArchiveInvariant

(* ... and every step keeps it.                                            *)
LEMMA NextKeeps == ArchiveInvariant /\ [Next]_vars => ArchiveInvariant'
<1> SUFFICES ASSUME ArchiveInvariant, [Next]_vars PROVE ArchiveInvariant'
  OBVIOUS
<1>1. CASE UNCHANGED vars
  <2> USE <1>1 DEF ArchiveInvariant, vars
  <2>1. TypeFacts' /\ ReadFacts'
    BY DEF TypeFacts, IndexShape, Copies, ReadFacts
  <2>2. StepFacts' /\ ReportFacts'
    BY DEF StepFacts, Building, Verifying, InventoryLoads, ReportFacts
  <2>3. IndexFacts' /\ ValidFacts'
    BY DEF IndexFacts, ValidFacts
  <2>4. DestinationIsWhole' /\ VerifiedIsFaithful'
    BY DEF DestinationIsWhole, VerifiedIsFaithful, InventoryLoads
  <2> QED BY <2>1, <2>2, <2>3, <2>4
<1>2. CASE WriteRecords \/ Refuse \/ Crash
  <2>1. PICK how \in {"scanned", "refused", "crashed"} : End(how)
    BY <1>2 DEF WriteRecords, Refuse, Raise, Crash
  <2>2. UNCHANGED <<runs, cls, archives, index, areport, today, writes>>
    BY <1>2 DEF WriteRecords, Refuse, Raise, Crash
  <2> QED BY <2>1, <2>2, EndKeeps
<1> QED BY <1>1, <1>2, StartKeeps, ReadFileKeeps, WriteSummaryKeeps, ClassifyKeeps,
           CompareInventoryKeeps, CopyFileKeeps, VerifyRestoreKeeps, InstallArchiveKeeps,
           WriteIndexKeeps, WriteArchiveReportKeeps, WriteScrubReportKeeps, LoadIndexKeeps,
           CheckEvidenceKeeps, AuthorizeKeeps, ValidateIndexKeeps, RunWritesKeeps,
           DayPassesKeeps DEF Next

-----------------------------------------------------------------------------
(* What is proved of every sequence of commands.                           *)

(* The inductive invariant holds in every reachable state.                 *)
THEOREM ArchiveInvariantHolds == Spec => []ArchiveInvariant
<1> QED BY InitHolds, NextKeeps, PTL DEF Spec

(* archive_runs and verify_archive end well only with an archive of        *)
(* exactly what the tracked inventory describes, although runs/ is read    *)
(* three times and may be written to in between (runs_archive.py:          *)
(* archive_runs, verify_archive).                                          *)
THEOREM VerifiedArchivesAreFaithful == Spec => []VerifiedIsFaithful
<1>1. ArchiveInvariant => VerifiedIsFaithful
  BY DEF ArchiveInvariant
<1> QED BY <1>1, ArchiveInvariantHolds, PTL

(* A destination is a whole, scrubbed archive with its own manifest,       *)
(* whatever was cut short (runs_archive.py: the staging directory is       *)
(* renamed).                                                               *)
THEOREM DestinationsAreWhole == Spec => []DestinationIsWhole
<1>1. ArchiveInvariant => DestinationIsWhole
  BY DEF ArchiveInvariant
<1> QED BY <1>1, ArchiveInvariantHolds, PTL

(* An installed archive is never written again: archive_runs refuses a     *)
(* destination that exists, and no other command writes one.               *)
ArchivesAreKept ==
  [][\A d \in Dests : archives[d] # NoArchive => archives'[d] = archives[d]]_vars

(* What is installed in a destination stays as it is (runs_archive.py:     *)
(* archive_runs raises if the destination exists).                         *)
THEOREM ArchivesStay == Spec => ArchivesAreKept
<1>1. ASSUME ArchiveInvariant, [Next]_vars, NEW d \in Dests, archives[d] # NoArchive
      PROVE  archives'[d] = archives[d]
  <2>1. CASE InstallArchive
    <3>1. archives[cmd.dest] = NoArchive /\ DOMAIN archives = Dests
      BY <1>1, <2>1 DEF InstallArchive, ArchiveInvariant, StepFacts, TypeFacts
    <3> QED BY <1>1, <2>1, <3>1 DEF InstallArchive
  <2>2. CASE ~InstallArchive
    BY <1>1, <2>2 DEF Next, vars, scan_runs, Start, ReadFile, WriteSummary, WriteRecords, Classify,
         archive_runs, verify_archive, Refuse, Raise, CompareInventory, CopyFile,
         VerifyRestore, WriteIndex, WriteArchiveReport, WriteScrubReport, LoadIndex,
         CheckEvidence, Authorize, validate_index, RunWrites, DayPasses, Crash
  <2> QED BY <2>1, <2>2
<1>2. ArchiveInvariant /\ [Next]_vars =>
        [\A d \in Dests : archives[d] # NoArchive => archives'[d] = archives[d]]_vars
  BY <1>1
<1> QED BY <1>2, ArchiveInvariantHolds, PTL DEF Spec, ArchivesAreKept

(* A deletion batch that validate-index accepts names exactly the marked   *)
(* entries, and their retention and quarantine are over                    *)
(* (runs_retention.py: load_and_validate_index).                           *)
THEOREM DeletionsWait == Spec => []DeletionWaits
<1>1. ASSUME ArchiveInvariant, outcome = "index_valid", NEW a \in index.auths
      PROVE  /\ a.targets = Marked(index)
             /\ \A g \in Marked(index) :
                  LET e == index.entries[g]
                  IN /\ e.purpose_class \in ExpiringClass
                     /\ a.authorized_at >= e.retention.starts_at
                          + MinimumRetentionDays[e.purpose_class] + QuarantineDays
  <2>1. /\ index # Missing /\ load_and_validate_index(index) /\ IndexShape
        /\ a.id = "batch" /\ a.authorized_at \in Nat
    BY <1>1 DEF ArchiveInvariant, ValidFacts, TypeFacts, IndexShape
  <2>2. a.targets = Marked(index)
    BY <1>1, <2>1 DEF load_and_validate_index, _validate_authorized_entries, Marked,
         ArchiveInvariant, IndexFacts
  <2>3. ASSUME NEW g \in Marked(index)
        PROVE  LET e == index.entries[g]
               IN /\ e.purpose_class \in ExpiringClass
                  /\ a.authorized_at >= e.retention.starts_at
                       + MinimumRetentionDays[e.purpose_class] + QuarantineDays
    <3> DEFINE e == index.entries[g]
    <3>1. deletion_allowed(e, a)
      BY <1>1, <2>1, <2>3 DEF load_and_validate_index, _validate_authorized_entries,
           ArchiveInvariant, IndexFacts
    <3>2. /\ e.purpose_class \in ExpiringClass /\ e.retention.quarantine_until # NoTime
          /\ e.retention.quarantine_until <= a.authorized_at
      BY <3>1 DEF deletion_allowed, DeletionEligible
    <3>3. /\ g \in Group /\ e.retention.starts_at \in Nat
          /\ e.retention.quarantine_until \in Int
          /\ e.retention.quarantine_until >= e.retention.starts_at
               + MinimumRetentionDays[e.purpose_class] + QuarantineDays
      BY <1>1, <2>1, <3>2 DEF Marked, IndexShape, Entry, Window, ArchiveInvariant, IndexFacts
    <3>4. MinimumRetentionDays[e.purpose_class] \in Nat /\ QuarantineDays \in Nat
      BY <3>2 DEF ExpiringClass, MinimumRetentionDays, QuarantineDays
    <3> HIDE DEF e
    <3>5. a.authorized_at >= e.retention.starts_at
            + MinimumRetentionDays[e.purpose_class] + QuarantineDays
      BY <2>1, <3>2, <3>3, <3>4
    <3> QED BY <3>2, <3>5 DEF e
  <2> QED BY <2>2, <2>3
<1>2. ArchiveInvariant => DeletionWaits
  BY <1>1 DEF DeletionWaits
<1> QED BY <1>2, ArchiveInvariantHolds, PTL
=============================================================================
