-------------------------- MODULE RunBundleProofs ---------------------------
(***************************************************************************)
(* The theorems about RunBundle: its type invariant, that the event log is *)
(* sound and that a sealed run is whole, and that the directory keeps the  *)
(* contract of AttemptBundle.                                              *)
(***************************************************************************)
EXTENDS RunBundle, TLAPS

-----------------------------------------------------------------------------
(* The inductive invariant.                                                *)

Sealing == goal \in {"seal", "reconcile"}

(* The trace writer is open: create has returned, or is about to after the *)
(* refresh of a new trace.                                                 *)
Writing ==
  \/ pc \in {"histories", "run", "end"} \cup Artifact
  \/ pc = "sync" /\ ~Sealing
  \/ pc \in Update /\ goal = "artifacts_refreshed"

(* ... or it is not there yet.                                             *)
Opening ==
  \/ pc \in {"idle", "setup_histories", "open", "trace", "new_manifest"}
  \/ pc \in Update /\ goal \in {"created", "resumed"}

(* What each place of the invocation says about the update under way.      *)
ProcessFacts ==
  /\ trk = [state |-> trk.state, purpose |-> trk.purpose, sum |-> trk.sum]
  /\ pc # "idle" => run \in Run /\ me.purpose \in Purpose
  /\ pc \in {"idle", "setup_histories", "open"} => goal = None
  /\ pc \in {"trace", "new_manifest"} => goal \in {"created", "resumed"}
  /\ pc \in Update => goal # None
  /\ Sealing => pc \in Update \cup {"sync"}
  /\ trk.state = "finalized" <=> Sealing

(* A writer that was resumed on a line without newline has since put two   *)
(* events on one line.                                                     *)
Joined == \E i \in DOMAIN elog : ~Readable(i)

(* The writer's counters continue the log and the payloads on disk.        *)
CounterFacts ==
  /\ Len(elog) <= MaxEvents
  /\ \E k \in 0 .. MaxPayloads : DOMAIN pays = 1 .. k
  /\ tman.kind = None => elog = <<>> /\ DOMAIN pays = {}
  /\ pc = "new_manifest" => tman.kind = None
  /\ Opening => seq = 1 /\ ord = 1
  /\ Writing => /\ seq = IF Joined THEN Len(elog) + 2 ELSE Len(elog) + 1
                /\ Joined => \A i \in DOMAIN elog : elog[i].newline
                /\ DOMAIN pays = 1 .. ord - 1
                /\ tman.kind = "ok" /\ ~tman.ended

AllArtifacts == \A a \in Artifact : arts[a] = "ok"

(* The trace manifest is ended only over whole artifacts, and the seal is  *)
(* put only on an ended trace.                                             *)
SealFacts ==
  /\ tman.kind = "ok" /\ tman.ended => AllArtifacts
  /\ Sealing => tman.kind = "ok" /\ tman.ended
  /\ pc \in {"tool_profile", "verifier", "patch", "end"} => arts["trajectory"] = "ok"
  /\ pc \in {"verifier", "patch", "end"} => arts["tool_profile"] = "ok"
  /\ pc \in {"patch", "end"} => arts["verifier"] = "ok"
  /\ pc = "end" => arts["patch"] = "ok"
  /\ pc = "manifest" => ridx.made /\ ridx.sum = trk.sum
  /\ rman.state = "finalized" =>
       \/ pc \in {"idle", "setup_histories", "open"}
       \/ pc \in {"journal", "sync"} /\ Sealing

BundleInvariant ==
  /\ TypeOK
  /\ ProcessFacts
  /\ CounterFacts
  /\ EventLogSound
  /\ SealFacts
  /\ SealedIsWhole

-----------------------------------------------------------------------------
(* One lemma per action.                                                   *)

USE BundleConstants DEF At, Goto, disk, process, None, Update, Artifact, Readable,
  BadLineBefore, Joined

(* The payload ordinal with which a resumed trace goes on.                 *)
Cursor ==
  1 + (IF DOMAIN pays = {} THEN 0
       ELSE CHOOSE o \in DOMAIN pays : \A p \in DOMAIN pays : p <= o)

(* The payload ordinal that _restore_ordinals computes follows the         *)
(* payloads on disk, which are numbered without gap.                       *)
LEMMA RestoredCursor ==
  ASSUME BundleInvariant
  PROVE  Cursor \in 1 .. MaxPayloads + 1 /\ DOMAIN pays = 1 .. Cursor - 1
<1>1. PICK k \in 0 .. MaxPayloads : DOMAIN pays = 1 .. k
  BY DEF BundleInvariant, CounterFacts
<1>2. CASE k = 0
  <2>1. DOMAIN pays = {}
    BY <1>1, <1>2
  <2> QED BY <2>1, <1>1, <1>2 DEF Cursor
<1>3. CASE k > 0
  <2>1. k \in DOMAIN pays /\ \A p \in DOMAIN pays : p <= k
    BY <1>1, <1>3
  <2>2. \A o \in DOMAIN pays : (\A p \in DOMAIN pays : p <= o) => o = k
    <3> SUFFICES ASSUME NEW o \in DOMAIN pays, \A p \in DOMAIN pays : p <= o
                 PROVE  o = k
      OBVIOUS
    <3>1. k <= o /\ o \in 1 .. k
      BY <2>1, <1>1
    <3> QED BY <3>1
  <2>3. (CHOOSE o \in DOMAIN pays : \A p \in DOMAIN pays : p <= o) = k
    BY <2>1, <2>2
  <2> QED BY <2>1, <2>3, <1>1, <1>3 DEF Cursor
<1> QED BY <1>1, <1>2, <1>3

(* The workspace is copied and the invocation starts.                      *)
LEMMA PrepareWorkspaceKeeps ==
  ASSUME BundleInvariant, NEW p \in Purpose, NEW f \in BOOLEAN,
         prepare_workspace(p, f)
  PROVE  BundleInvariant'
<1> USE DEF BundleInvariant, prepare_workspace
<1>1. TypeOK'
  BY DEF TypeOK, Pc, Me, Run, Outcome
<1>2. ProcessFacts'
  BY DEF TypeOK, ProcessFacts, Sealing, Run, Me
<1>3. CounterFacts'
  BY DEF TypeOK, ProcessFacts, CounterFacts, Opening, Writing, Sealing, FileState
<1>4. EventLogSound'
  BY DEF EventLogSound
<1>5. SealFacts'
  BY DEF TypeOK, SealFacts, CounterFacts, Writing, Sealing, AllArtifacts
<1>6. SealedIsWhole'
  BY DEF SealFacts, SealedIsWhole, Sealing
<1> QED BY <1>1, <1>2, <1>3, <1>4, <1>5, <1>6

(* The history logs are emptied.                                           *)
LEMMA CreateHistoriesKeeps ==
  ASSUME BundleInvariant, CreateHistories
  PROVE  BundleInvariant'
<1> USE DEF BundleInvariant, CreateHistories
<1>1. TypeOK'
  BY DEF TypeOK, Pc
<1>2. ProcessFacts'
  BY DEF ProcessFacts, Sealing
<1>3. CounterFacts'
  BY DEF CounterFacts, Opening, Writing, Sealing
<1>4. EventLogSound'
  BY DEF EventLogSound
<1>5. SealFacts'
  BY DEF SealFacts, Sealing, AllArtifacts
<1>6. SealedIsWhole'
  BY DEF SealedIsWhole
<1> QED BY <1>1, <1>2, <1>3, <1>4, <1>5, <1>6

(* The tracker opens a directory that has no retention manifest.           *)
LEMMA OpenFreshKeeps ==
  ASSUME BundleInvariant, OpenFresh
  PROVE  BundleInvariant'
<1> USE DEF BundleInvariant, OpenFresh, StartUpdate
<1>1. TypeOK'
  BY DEF TypeOK, Pc, Goal, Me, Outcome
<1>2. ProcessFacts'
  BY DEF ProcessFacts, Sealing
<1>3. CounterFacts'
  BY DEF CounterFacts, Opening, Writing, Sealing
<1>4. EventLogSound'
  BY DEF EventLogSound
<1>5. SealFacts'
  BY DEF SealFacts, Sealing, AllArtifacts
<1>6. SealedIsWhole'
  BY DEF SealedIsWhole
<1> QED BY <1>1, <1>2, <1>3, <1>4, <1>5, <1>6

(* The tracker resumes an active run.                                      *)
LEMMA OpenResumesKeeps ==
  ASSUME BundleInvariant, OpenResumes
  PROVE  BundleInvariant'
<1> USE DEF BundleInvariant, OpenResumes, StartUpdate
<1>1. TypeOK'
  BY DEF TypeOK, Pc, Goal
<1>2. ProcessFacts'
  BY DEF ProcessFacts, Sealing
<1>3. CounterFacts'
  BY DEF CounterFacts, Opening, Writing, Sealing
<1>4. EventLogSound'
  BY DEF EventLogSound
<1>5. SealFacts'
  BY DEF SealFacts, Sealing, AllArtifacts
<1>6. SealedIsWhole'
  BY DEF SealedIsWhole
<1> QED BY <1>1, <1>2, <1>3, <1>4, <1>5, <1>6

(* The checksum of the protected files is taken.                           *)
LEMMA ComputeChecksumKeeps ==
  ASSUME BundleInvariant, ComputeChecksum
  PROVE  BundleInvariant'
<1> USE DEF BundleInvariant, ComputeChecksum
<1>1. TypeOK'
  BY DEF TypeOK, Pc
<1>2. ProcessFacts'
  BY DEF ProcessFacts, Sealing
<1>3. CounterFacts'
  BY DEF CounterFacts, Opening, Writing, Sealing
<1>4. EventLogSound'
  BY DEF EventLogSound
<1>5. SealFacts'
  BY DEF SealFacts, Sealing, AllArtifacts
<1>6. SealedIsWhole'
  BY DEF SealedIsWhole
<1> QED BY <1>1, <1>2, <1>3, <1>4, <1>5, <1>6

(* The index is replaced.                                                  *)
LEMMA WriteIndexKeeps ==
  ASSUME BundleInvariant, WriteIndex
  PROVE  BundleInvariant'
<1> USE DEF BundleInvariant, WriteIndex
<1>1. TypeOK'
  BY DEF TypeOK, Pc
<1>2. ProcessFacts'
  BY DEF ProcessFacts, Sealing
<1>3. CounterFacts'
  BY DEF CounterFacts, Opening, Writing, Sealing
<1>4. EventLogSound'
  BY DEF EventLogSound
<1>5. SealFacts'
  BY DEF SealFacts, Sealing, AllArtifacts
<1>6. SealedIsWhole'
  BY DEF SealFacts, SealedIsWhole, Sealing
<1> QED BY <1>1, <1>2, <1>3, <1>4, <1>5, <1>6

(* The retention manifest is replaced; it may now say "finalized".         *)
LEMMA WriteRetentionManifestKeeps ==
  ASSUME BundleInvariant, WriteRetentionManifest
  PROVE  BundleInvariant'
<1> USE DEF BundleInvariant, WriteRetentionManifest
<1>1. TypeOK'
  BY DEF TypeOK, Pc
<1>2. ProcessFacts'
  BY DEF ProcessFacts, Sealing
<1>3. CounterFacts'
  BY DEF CounterFacts, Opening, Writing, Sealing
<1>4. EventLogSound'
  BY DEF EventLogSound
<1>5. SealFacts'
  BY DEF SealFacts, ProcessFacts, Sealing, AllArtifacts
<1>6. SealedIsWhole'
  BY DEF ProcessFacts, SealFacts, SealedIsWhole, Sealing, AllArtifacts
<1> QED BY <1>1, <1>2, <1>3, <1>4, <1>5, <1>6

(* The update is noted in the journal.                                     *)
LEMMA AppendJournalKeeps ==
  ASSUME BundleInvariant, AppendJournal
  PROVE  BundleInvariant'
<1> USE DEF BundleInvariant, AppendJournal, EventKind
<1>1. TypeOK'
  BY DEF TypeOK, ProcessFacts, Pc, Goal, Me, Outcome, Run, FileState
<1>2. ProcessFacts'
  BY DEF ProcessFacts, Sealing
<1>3. CounterFacts'
  <2>1. Opening' => Opening
    BY DEF Opening, Goal, TypeOK
  <2>2. Writing' => Writing
    BY DEF Writing, Sealing, ProcessFacts, Goal, TypeOK
  <2> QED BY <2>1, <2>2 DEF CounterFacts
<1>4. EventLogSound'
  BY DEF EventLogSound
<1>5. SealFacts'
  BY DEF SealFacts, Sealing, AllArtifacts
<1>6. SealedIsWhole'
  BY DEF SealedIsWhole
<1> QED BY <1>1, <1>2, <1>3, <1>4, <1>5, <1>6

(* There is no trace yet.                                                  *)
LEMMA TraceIsNewKeeps ==
  ASSUME BundleInvariant, TraceIsNew
  PROVE  BundleInvariant'
<1> USE DEF BundleInvariant, TraceIsNew
<1>1. TypeOK'
  BY DEF TypeOK, Pc
<1>2. ProcessFacts'
  BY DEF ProcessFacts, Sealing
<1>3. CounterFacts'
  BY DEF CounterFacts, Opening, Writing, Sealing
<1>4. EventLogSound'
  BY DEF EventLogSound
<1>5. SealFacts'
  BY DEF SealFacts, Sealing, AllArtifacts
<1>6. SealedIsWhole'
  BY DEF SealedIsWhole
<1> QED BY <1>1, <1>2, <1>3, <1>4, <1>5, <1>6

(* An ended trace whose seal was interrupted is sealed.                    *)
LEMMA TraceReconcilesKeeps ==
  ASSUME BundleInvariant, TraceReconciles
  PROVE  BundleInvariant'
<1> USE DEF BundleInvariant, TraceReconciles, StartUpdate
<1>1. TypeOK'
  BY DEF TypeOK, ProcessFacts, Pc, Goal, Me, Outcome, Run, FileState
<1>2. ProcessFacts'
  BY DEF ProcessFacts, Sealing
<1>3. CounterFacts'
  BY DEF CounterFacts, Opening, Writing, Sealing
<1>4. EventLogSound'
  BY DEF EventLogSound
<1>5. SealFacts'
  BY DEF SealFacts, Sealing, AllArtifacts
<1>6. SealedIsWhole'
  BY DEF SealedIsWhole
<1> QED BY <1>1, <1>2, <1>3, <1>4, <1>5, <1>6

(* The writer takes up the numbering of the trace on disk.                 *)
LEMMA TraceResumesKeeps ==
  ASSUME BundleInvariant, TraceResumes
  PROVE  BundleInvariant'
<1> USE DEF BundleInvariant, TraceResumes, _restore_ordinals, Cursor
<1>1. TypeOK'
  <2>1. ord' = Cursor
    OBVIOUS
  <2>2. seq' \in 1 .. MaxEvents + 1
    BY DEF CounterFacts, TypeOK
  <2> QED BY <2>1, <2>2, RestoredCursor DEF TypeOK, Pc
<1>2. ProcessFacts'
  BY DEF ProcessFacts, Sealing
<1>3. CounterFacts'
  <2>1. ord' = Cursor
    OBVIOUS
  <2>2. Writing' /\ ~Opening' /\ pc' = "sync"
    BY DEF Writing, Opening, Sealing, ProcessFacts
  <2>3. ~Joined /\ seq' = Len(elog) + 1 /\ elog \in Seq(Line)
    BY DEF TypeOK
  <2> QED BY <2>1, <2>2, <2>3, RestoredCursor DEF CounterFacts, Opening, Writing, ProcessFacts
<1>4. EventLogSound'
  BY DEF EventLogSound
<1>5. SealFacts'
  BY DEF SealFacts, Sealing, AllArtifacts
<1>6. SealedIsWhole'
  BY DEF SealedIsWhole
<1> QED BY <1>1, <1>2, <1>3, <1>4, <1>5, <1>6

(* The manifest of a new trace is written.                                 *)
LEMMA WriteNewManifestKeeps ==
  ASSUME BundleInvariant, WriteNewManifest
  PROVE  BundleInvariant'
<1> USE DEF BundleInvariant, WriteNewManifest, TraceManifest
<1>1. TypeOK'
  BY DEF TypeOK, ProcessFacts, Pc, Goal, Me, Outcome, Run, FileState
<1>2. ProcessFacts'
  BY DEF ProcessFacts, Sealing
<1>3. CounterFacts'
  BY DEF CounterFacts, Opening, Writing, Sealing
<1>4. EventLogSound'
  BY DEF EventLogSound
<1>5. SealFacts'
  BY DEF SealFacts, Sealing, AllArtifacts
<1>6. SealedIsWhole'
  BY DEF SealFacts, SealedIsWhole, Sealing
<1> QED BY <1>1, <1>2, <1>3, <1>4, <1>5, <1>6

(* The trace manifest takes over the checksum.                             *)
LEMMA SyncManifestKeeps ==
  ASSUME BundleInvariant, SyncManifest
  PROVE  BundleInvariant'
<1> USE DEF BundleInvariant, SyncManifest, TraceManifest, End, NoRetention, Nobody
<1>1. TypeOK'
  <2>1. tman' = [kind |-> "ok", root |-> me.root, ended |-> Sealing, sum |-> trk.sum]
    BY DEF Sealing
  <2>2. tman'.kind \in FileState /\ tman'.root \in 0 .. MaxRuns /\ tman'.ended \in BOOLEAN
    BY <2>1 DEF Sealing, TypeOK, Me, FileState
  <2>3. pc' \in Pc /\ goal' \in Goal /\ outcome' \in Outcome /\ me' \in Me
    <3>1. CASE goal \notin {"seal", "reconcile"}
      BY <3>1 DEF TypeOK, Pc
    <3>2. CASE goal \in {"seal", "reconcile"}
      <4>1. /\ pc' = "idle" /\ goal' = None /\ me' = Nobody
            /\ outcome' \in {"returned", "reconciled"}
        BY <3>2
      <4> QED BY <4>1 DEF Pc, Goal, Outcome, Me
    <3> QED BY <3>1, <3>2
  <2> QED BY SMTT(30), <2>2, <2>3 DEF TypeOK
<1>2. ProcessFacts'
  BY DEF ProcessFacts, Sealing
<1>3. CounterFacts'
  BY DEF CounterFacts, Opening, Writing, Sealing
<1>4. EventLogSound'
  BY DEF EventLogSound
<1>5. SealFacts'
  BY DEF SealFacts, Sealing, AllArtifacts
<1>6. SealedIsWhole'
  BY DEF SealFacts, SealedIsWhole, Sealing
<1> QED BY <1>1, <1>2, <1>3, <1>4, <1>5, <1>6

(* A payload is written under the next ordinal.                            *)
LEMMA WritePayloadKeeps ==
  ASSUME BundleInvariant, write_json_payload
  PROVE  BundleInvariant'
<1> USE DEF BundleInvariant, write_json_payload
<1>1. TypeOK'
  <2>1. ord \in 1 .. MaxPayloads /\ ord' \in 1 .. MaxPayloads + 1
    BY DEF TypeOK
  <2>2. /\ DOMAIN pays' = DOMAIN pays \cup {ord}
        /\ \A o \in DOMAIN pays' : pays'[o] = IF o = ord THEN run ELSE pays[o]
    OBVIOUS
  <2>3. run \in Run
    BY DEF ProcessFacts
  <2> QED BY <2>1, <2>2, <2>3 DEF TypeOK
<1>2. ProcessFacts'
  BY DEF ProcessFacts, Sealing
<1>3. CounterFacts'
  <2>1. Writing /\ Writing' /\ ~Opening' /\ pc' = "run"
    BY DEF Writing, Opening
  <2>2. DOMAIN pays = 1 .. ord - 1 /\ ord \in 1 .. MaxPayloads
    BY <2>1 DEF CounterFacts, TypeOK
  <2>3. DOMAIN pays' = 1 .. ord /\ ord \in 0 .. MaxPayloads /\ ord' - 1 = ord
    BY <2>2
  <2> QED BY <2>1, <2>3 DEF CounterFacts, FileState
<1>4. EventLogSound'
  BY DEF EventLogSound
<1>5. SealFacts'
  BY DEF SealFacts, Sealing, AllArtifacts
<1>6. SealedIsWhole'
  BY DEF SealedIsWhole
<1> QED BY <1>1, <1>2, <1>3, <1>4, <1>5, <1>6

(* What the trace writer appends, whole or without its newline or torn,    *)
(* leaves the log sound: it begins a line, or ends one that lacks only its *)
(* newline, and then all lines before it are readable.                     *)
LEMMA AppendedIsSound ==
  ASSUME BundleInvariant, Writing, pays' = pays, NEW line \in Line,
         \/ line = Garbage(FALSE)
         \/ line.seq = seq /\ (line.ref = 0 \/ line.ref \in DOMAIN pays),
         elog' = Appended(line)
  PROVE  /\ elog' \in Seq(Line) /\ Len(elog') <= seq
         /\ EventLogSound'
         /\ line.newline => /\ Joined' => \A i \in DOMAIN elog' : elog'[i].newline
                            /\ seq + 1 = IF Joined' THEN Len(elog') + 2
                                                    ELSE Len(elog') + 1
<1>1. /\ elog \in Seq(Line) /\ EventLogSound
      /\ seq = IF Joined THEN Len(elog) + 2 ELSE Len(elog) + 1
      /\ Joined => \A i \in DOMAIN elog : elog[i].newline
  BY DEF BundleInvariant, CounterFacts, TypeOK
<1>2. /\ line.seq = 0 \/ line.seq = seq
      /\ line.seq = 0 => ~line.newline
      /\ line.seq # 0 => line.ref = 0 \/ line.ref \in DOMAIN pays
      /\ line.newline \in BOOLEAN
  BY <1>1 DEF Garbage, Line
<1>3. CASE elog = <<>> \/ elog[Len(elog)].newline
  <2>1. elog' = Append(elog, line)
    BY <1>3 DEF Appended
  <2>2. /\ elog' \in Seq(Line) /\ Len(elog') = Len(elog) + 1
        /\ elog'[Len(elog) + 1] = line
        /\ \A i \in DOMAIN elog : elog'[i] = elog[i] /\ i \in DOMAIN elog'
        /\ \A i \in DOMAIN elog' : i \in DOMAIN elog \/ i = Len(elog) + 1
    BY <1>1, <2>1
  <2>3. \A i \in DOMAIN elog : elog[i].newline
    BY <1>1, <1>3 DEF EventLogSound
  <2>4. \A i \in DOMAIN elog : i < Len(elog) + 1 /\ i \in Nat
    BY <1>1
  <2>5. EventLogSound'
    <3> SUFFICES ASSUME NEW i \in DOMAIN elog'
                 PROVE  /\ elog'[i].seq # 0 =>
                             /\ elog'[i].seq = IF BadLineBefore(i)' THEN i + 1 ELSE i
                             /\ elog'[i].ref = 0 \/ elog'[i].ref \in DOMAIN pays
                        /\ elog'[i].seq = 0 /\ elog'[i].newline => ~BadLineBefore(i)'
                        /\ ~elog'[i].newline => i = Len(elog')
      BY DEF EventLogSound
    <3>1. CASE i \in DOMAIN elog
      <4>1. BadLineBefore(i)' <=> BadLineBefore(i)
        BY <2>2, <2>4, <3>1
      <4> QED
        BY <1>1, <2>2, <2>3, <3>1, <4>1 DEF EventLogSound
    <3>2. CASE i = Len(elog) + 1
      <4>1. BadLineBefore(i)' <=> Joined
        BY <2>2, <2>4, <3>2
      <4>2. elog'[i] = line /\ i = Len(elog')
        BY <2>2, <3>2
      <4> QED
        BY <1>1, <1>2, <3>2, <4>1, <4>2
    <3> QED
      BY <2>2, <3>1, <3>2
  <2>6. ASSUME line.newline
        PROVE  (Joined' <=> Joined) /\ \A i \in DOMAIN elog' : elog'[i].newline
    <3>1. line.seq # 0
      BY <1>2, <2>6
    <3> QED
      BY <2>2, <2>3, <2>6, <3>1
  <2> QED
    BY <1>1, <2>2, <2>5, <2>6
<1>4. CASE elog # <<>> /\ ~elog[Len(elog)].newline
  <2>1. Len(elog) \in DOMAIN elog
    BY <1>1, <1>4
  <2>2. ~Joined /\ seq = Len(elog) + 1
    BY <1>1, <1>4, <2>1
  <2>3. elog' = [elog EXCEPT ![Len(elog)] = Garbage(line.newline)]
    BY <1>4 DEF Appended
  <2>4. Garbage(line.newline) \in Line
    BY <1>2 DEF Garbage, Line
  <2>5. /\ elog' \in Seq(Line) /\ Len(elog') = Len(elog) /\ DOMAIN elog' = DOMAIN elog
        /\ elog'[Len(elog)] = Garbage(line.newline)
        /\ \A i \in DOMAIN elog : i # Len(elog) => elog'[i] = elog[i]
    BY <1>1, <2>1, <2>3, <2>4
  <2>6. \A i \in DOMAIN elog : i \in 1 .. Len(elog)
    BY <1>1
  <2>7. \A i \in DOMAIN elog : i # Len(elog) => elog[i].newline
    BY <1>1 DEF EventLogSound
  <2>8. \A i \in DOMAIN elog' : ~BadLineBefore(i)'
    BY <2>2, <2>5, <2>6
  <2>9. EventLogSound'
    <3> SUFFICES ASSUME NEW i \in DOMAIN elog'
                 PROVE  /\ elog'[i].seq # 0 =>
                             /\ elog'[i].seq = i
                             /\ elog'[i].ref = 0 \/ elog'[i].ref \in DOMAIN pays
                        /\ ~elog'[i].newline => i = Len(elog')
      BY <2>8 DEF EventLogSound
    <3>1. CASE i = Len(elog)
      BY <2>5, <3>1 DEF Garbage
    <3>2. CASE i # Len(elog)
      BY <1>1, <2>2, <2>5, <2>6, <2>7, <3>2 DEF EventLogSound
    <3> QED
      BY <3>1, <3>2
  <2>10. ASSUME line.newline
         PROVE  Joined' /\ \A i \in DOMAIN elog' : elog'[i].newline
    BY <2>1, <2>5, <2>7, <2>10 DEF Garbage
  <2> QED
    BY <1>1, <2>2, <2>5, <2>9, <2>10
<1> QED
  BY <1>3, <1>4

(* An event is appended under the next number.                             *)
LEMMA AppendEventKeeps ==
  ASSUME BundleInvariant, AppendEvent
  PROVE  BundleInvariant'
<1> USE DEF BundleInvariant, AppendEvent
<1> DEFINE line == [seq |-> seq, ref |-> ord - 1, newline |-> TRUE]
<1>1. /\ Writing /\ pays' = pays /\ seq \in 1 .. MaxEvents
      /\ ord \in 1 .. MaxPayloads + 1 /\ DOMAIN pays = 1 .. ord - 1
  BY DEF Writing, CounterFacts, TypeOK
<1>2. /\ line \in Line /\ line.seq = seq /\ line.newline
      /\ line.ref = 0 \/ line.ref \in DOMAIN pays
  BY <1>1 DEF Line
<1>3. elog' = Appended(line)
  OBVIOUS
<1>4. /\ elog' \in Seq(Line) /\ Len(elog') <= seq
      /\ EventLogSound'
      /\ Joined' => \A i \in DOMAIN elog' : elog'[i].newline
      /\ seq + 1 = IF Joined' THEN Len(elog') + 2 ELSE Len(elog') + 1
  <2> HIDE DEF line
  <2> QED
    BY <1>1, <1>2, <1>3, AppendedIsSound
<1>5. TypeOK'
  BY <1>1, <1>4 DEF TypeOK, Pc
<1>6. ProcessFacts'
  BY DEF ProcessFacts, Sealing
<1>7. CounterFacts'
  <2>1. Writing' /\ ~Opening' /\ pc' = "run"
    BY DEF Writing, Opening
  <2>2. Len(elog') <= MaxEvents
    BY <1>1, <1>4
  <2> QED
    BY <1>1, <1>4, <2>1, <2>2 DEF CounterFacts
<1>8. SealFacts'
  BY DEF SealFacts, Sealing, AllArtifacts
<1>9. SealedIsWhole'
  BY DEF SealedIsWhole
<1> QED BY <1>4, <1>5, <1>6, <1>7, <1>8, <1>9

(* The trace is ended, over whole artifacts.                               *)
LEMMA FinalizeTraceKeeps ==
  ASSUME BundleInvariant, FinalizeTrace
  PROVE  BundleInvariant'
<1> USE DEF BundleInvariant, FinalizeTrace, TraceManifest
<1>1. TypeOK'
  BY DEF TypeOK, ProcessFacts, Pc, Goal, Me, Outcome, Run, FileState
<1>2. ProcessFacts'
  BY DEF ProcessFacts, Sealing
<1>3. CounterFacts'
  BY DEF CounterFacts, Opening, Writing, Sealing
<1>4. EventLogSound'
  BY DEF EventLogSound
<1>5. SealFacts'
  BY DEF SealFacts, Sealing, AllArtifacts
<1>6. SealedIsWhole'
  BY DEF SealedIsWhole
<1> QED BY <1>1, <1>2, <1>3, <1>4, <1>5, <1>6

(* A history line is appended.                                             *)
LEMMA AppendHistoryKeeps ==
  ASSUME BundleInvariant, AppendHistory
  PROVE  BundleInvariant'
<1> USE DEF BundleInvariant, AppendHistory
<1>1. TypeOK'
  BY DEF TypeOK, ProcessFacts, Pc, Goal, Me, Outcome, Run, FileState
<1>2. ProcessFacts'
  BY DEF ProcessFacts, Sealing
<1>3. CounterFacts'
  BY DEF CounterFacts, Opening, Writing, Sealing
<1>4. EventLogSound'
  BY DEF EventLogSound
<1>5. SealFacts'
  BY DEF SealFacts, Sealing, AllArtifacts
<1>6. SealedIsWhole'
  BY DEF SealedIsWhole
<1> QED BY <1>1, <1>2, <1>3, <1>4, <1>5, <1>6

(* The loop has returned.                                                  *)
LEMMA RunEndsKeeps ==
  ASSUME BundleInvariant, RunEnds
  PROVE  BundleInvariant'
<1> USE DEF BundleInvariant, RunEnds
<1>1. TypeOK'
  BY DEF TypeOK, Pc
<1>2. ProcessFacts'
  BY DEF ProcessFacts, Sealing
<1>3. CounterFacts'
  BY DEF CounterFacts, Opening, Writing, Sealing
<1>4. EventLogSound'
  BY DEF EventLogSound
<1>5. SealFacts'
  BY DEF SealFacts, Sealing, AllArtifacts
<1>6. SealedIsWhole'
  BY DEF SealedIsWhole
<1> QED BY <1>1, <1>2, <1>3, <1>4, <1>5, <1>6

(* An artifact is written in place; the trace is not ended yet.            *)
LEMMA WriteArtifactKeeps ==
  ASSUME BundleInvariant, WriteArtifact
  PROVE  BundleInvariant'
<1> USE DEF BundleInvariant, WriteArtifact, AfterArtifact
<1>1. TypeOK'
  BY DEF TypeOK, ProcessFacts, Pc, Goal, Me, Outcome, Run, FileState
<1>2. ProcessFacts'
  BY DEF ProcessFacts, Sealing
<1>3. CounterFacts'
  BY DEF CounterFacts, ProcessFacts, Opening, Writing, Sealing
<1>4. EventLogSound'
  BY DEF EventLogSound
<1>5. SealFacts'
  BY DEF TypeOK, SealFacts, CounterFacts, Writing, Sealing, AllArtifacts
<1>6. SealedIsWhole'
  BY DEF SealedIsWhole
<1> QED BY <1>1, <1>2, <1>3, <1>4, <1>5, <1>6

(* The invocation ends without touching the disk.                          *)
LEMMA RaiseKeeps ==
  ASSUME BundleInvariant, NEW why \in Outcome, Raise(why)
  PROVE  BundleInvariant'
<1> USE DEF BundleInvariant, Raise, End, NoRetention, Nobody
<1>1. TypeOK'
  BY DEF TypeOK, Pc, Goal, Me, Outcome
<1>2. ProcessFacts'
  BY DEF ProcessFacts, Sealing
<1>3. CounterFacts'
  BY DEF CounterFacts, Opening, Writing, Sealing
<1>4. EventLogSound'
  BY DEF EventLogSound
<1>5. SealFacts'
  BY DEF SealFacts, Sealing, AllArtifacts
<1>6. SealedIsWhole'
  BY DEF SealedIsWhole
<1> QED BY <1>1, <1>2, <1>3, <1>4, <1>5, <1>6

(* An event of which only a part, or all but the newline, is on the disk.  *)
LEMMA CutEventIsSound ==
  ASSUME BundleInvariant, Writing, seq <= MaxEvents, pays' = pays,
         NEW line \in {Garbage(FALSE), [seq |-> seq, ref |-> ord - 1, newline |-> FALSE]},
         elog' = Appended(line)
  PROVE  elog' \in Seq(Line) /\ Len(elog') <= MaxEvents /\ EventLogSound'
<1>1. /\ seq \in 1 .. MaxEvents /\ elog \in Seq(Line)
      /\ ord - 1 \in 0 .. MaxPayloads /\ (ord - 1 = 0 \/ ord - 1 \in DOMAIN pays)
  <2>1. seq \in 1 .. MaxEvents /\ elog \in Seq(Line) /\ ord \in 1 .. MaxPayloads + 1
    BY DEF BundleInvariant, TypeOK
  <2>2. DOMAIN pays = 1 .. ord - 1
    BY DEF BundleInvariant, CounterFacts
  <2> QED
    BY <2>1, <2>2
<1>2. CASE line = Garbage(FALSE)
  <2>1. line \in Line
    BY <1>2 DEF Garbage, Line
  <2>2. elog' \in Seq(Line) /\ Len(elog') <= seq /\ EventLogSound'
    BY <1>2, <2>1, AppendedIsSound
  <2> QED
    BY <1>1, <2>2
<1>3. CASE line = [seq |-> seq, ref |-> ord - 1, newline |-> FALSE]
  <2>1. line \in Line /\ line.seq = seq /\ (line.ref = 0 \/ line.ref \in DOMAIN pays)
    BY <1>1, <1>3 DEF Line
  <2>2. elog' \in Seq(Line) /\ Len(elog') <= seq /\ EventLogSound'
    BY <2>1, AppendedIsSound
  <2> QED
    BY <1>1, <2>2
<1> QED
  BY <1>2, <1>3

(* A crash tears the file that is being written.                           *)
LEMMA CrashTearsKeeps ==
  ASSUME BundleInvariant, CrashTears
  PROVE  BundleInvariant'
<1> USE DEF BundleInvariant, CrashTears, End, NoRetention, Nobody, NoTraceManifest, TornManifest
<1>0. \/ elog' = elog
      \/ elog' \in Seq(Line) /\ Len(elog') <= MaxEvents /\ EventLogSound' /\ Writing
  <2> SUFFICES ASSUME elog' # elog
               PROVE  elog' \in Seq(Line) /\ Len(elog') <= MaxEvents /\ EventLogSound' /\ Writing
    OBVIOUS
  <2>1. pc = "run" /\ seq <= MaxEvents /\ pays' = pays
    OBVIOUS
  <2>2. Writing
    BY <2>1 DEF Writing
  <2>3. PICK line \in {Garbage(FALSE), [seq |-> seq, ref |-> ord - 1, newline |-> FALSE]} :
          elog' = Appended(line)
    OBVIOUS
  <2> HIDE DEF CrashTears, BundleInvariant
  <2> QED
    BY <2>1, <2>2, <2>3, CutEventIsSound
<1>1. TypeOK'
  <2>1. elog' \in Seq(Line)
    BY <1>0 DEF TypeOK
  <2>2. arts' \in [Artifact -> FileState]
    BY DEF TypeOK, FileState
  <2>3. tman'.kind \in FileState /\ tman'.root \in 0 .. MaxRuns /\ tman'.ended \in BOOLEAN
    <3>1. TornManifest.kind = "torn" /\ TornManifest.root = 0 /\ TornManifest.ended = FALSE
      OBVIOUS
    <3>2. tman' = tman \/ tman' = TornManifest
      OBVIOUS
    <3> HIDE DEF TornManifest
    <3>3. CASE tman' = tman
      BY <3>3 DEF TypeOK
    <3>4. CASE tman' = TornManifest
      <4>1. tman'.kind = "torn" /\ tman'.root = 0 /\ tman'.ended = FALSE
        BY <3>1, <3>4
      <4>2. tman'.kind \in FileState /\ tman'.root \in 0 .. MaxRuns
        BY <4>1 DEF FileState
      <4>3. tman'.ended \in BOOLEAN
        BY <4>1
      <4> QED BY <4>2, <4>3
    <3> QED BY <3>2, <3>3, <3>4
  <2> QED BY <2>1, <2>2, <2>3 DEF TypeOK, Pc, Goal, Outcome, Me
<1>2. ProcessFacts'
  BY DEF ProcessFacts, Sealing
<1>3. CounterFacts'
  BY <1>0 DEF CounterFacts, Opening, Writing, Sealing
<1>4. EventLogSound'
  BY <1>0 DEF EventLogSound
<1>5. SealFacts'
  BY DEF SealFacts, ProcessFacts, CounterFacts, Writing, Sealing, AllArtifacts
<1>6. SealedIsWhole'
  BY DEF SealFacts, SealedIsWhole, Sealing
<1> QED BY <1>1, <1>2, <1>3, <1>4, <1>5, <1>6

(* The invariant holds initially.                                          *)
LEMMA InitHolds == Init => BundleInvariant
<1> SUFFICES ASSUME Init PROVE BundleInvariant
  OBVIOUS
<1> USE DEF Init, NoTraceManifest, NoIndex, NoRetention, Nobody
<1>1. TypeOK
  BY DEF TypeOK, FileState, Me, Pc, Goal, Outcome
<1>2. ProcessFacts /\ SealFacts /\ SealedIsWhole /\ EventLogSound
  BY DEF ProcessFacts, SealFacts, SealedIsWhole, EventLogSound, Sealing
<1>3. DOMAIN pays = 1 .. 0 /\ Len(elog) = 0
  OBVIOUS
<1>4. CounterFacts
  BY <1>3 DEF CounterFacts, Opening, Writing, Sealing
<1> QED BY <1>1, <1>2, <1>4 DEF BundleInvariant

(* ... and every step keeps it.                                            *)
LEMMA NextKeeps == BundleInvariant /\ [Next]_vars => BundleInvariant'
<1> SUFFICES ASSUME BundleInvariant, [Next]_vars PROVE BundleInvariant'
  OBVIOUS
<1>1. CASE UNCHANGED vars
  <2> USE <1>1 DEF BundleInvariant, vars
  <2>1. TypeOK' /\ ProcessFacts'
    BY DEF TypeOK, ProcessFacts, Sealing
  <2>2. CounterFacts' /\ EventLogSound'
    BY DEF CounterFacts, Opening, Writing, Sealing, EventLogSound
  <2>3. SealFacts' /\ SealedIsWhole'
    BY DEF SealFacts, SealedIsWhole, Sealing, AllArtifacts
  <2> QED BY <2>1, <2>2, <2>3
<1>2. CASE OpenRefused
  <2>1. PICK why \in {"class_mismatch", "finalized"} : Raise(why)
    BY <1>2 DEF OpenRefused
  <2> QED BY <2>1, RaiseKeeps DEF Outcome
<1>3. CASE TraceRefused
  <2>1. PICK why \in {"invalid_manifest", "root_mismatch", "invalid_log"} : Raise(why)
    BY <1>3 DEF TraceRefused
  <2> QED BY <2>1, RaiseKeeps DEF Outcome
<1>4. CASE Crash
  BY <1>4, RaiseKeeps DEF Crash, Outcome
<1>5. CASE create_or_resume
  BY <1>2, <1>5, OpenFreshKeeps, OpenResumesKeeps DEF create_or_resume
<1>6. CASE RetentionUpdate
  BY <1>6, ComputeChecksumKeeps, WriteIndexKeeps, WriteRetentionManifestKeeps,
     AppendJournalKeeps DEF RetentionUpdate
<1>7. CASE OpenTrace
  BY <1>3, <1>7, TraceIsNewKeeps, TraceReconcilesKeeps, TraceResumesKeeps DEF OpenTrace
<1>8. CASE TraceWrites
  BY <1>8, WriteNewManifestKeeps, SyncManifestKeeps, WritePayloadKeeps,
     AppendEventKeeps, FinalizeTraceKeeps DEF TraceWrites
<1>9. CASE \E p \in Purpose, f \in BOOLEAN : prepare_workspace(p, f)
  BY <1>9, PrepareWorkspaceKeeps
<1> QED BY <1>1, <1>4, <1>5, <1>6, <1>7, <1>8, <1>9, CreateHistoriesKeeps,
           AppendHistoryKeeps, RunEndsKeeps, WriteArtifactKeeps, CrashTearsKeeps DEF Next

-----------------------------------------------------------------------------
(* What is proved of every directory, for any number of invocations,       *)
(* events and payloads.                                                    *)

(* The inductive invariant holds in every reachable state.                 *)
THEOREM BundleInvariantHolds == Spec => []BundleInvariant
<1> QED BY InitHolds, NextKeeps, PTL DEF Spec

(* The type invariant of RunBundle.                                        *)
THEOREM BundleTypeCorrect == Spec => []TypeOK
<1>1. BundleInvariant => TypeOK
  BY DEF BundleInvariant
<1> QED BY <1>1, BundleInvariantHolds, PTL

(* The event log stays numbered in order, a gap only tells that two events *)
(* share the one line that is unreadable, only the last line lacks its     *)
(* newline, and the payloads it refers to exist (writer.py: append,        *)
(* write_json_payload, _restore_ordinals).                                 *)
THEOREM EventLogsAreSound == Spec => []EventLogSound
<1>1. BundleInvariant => EventLogSound
  BY DEF BundleInvariant
<1> QED BY <1>1, BundleInvariantHolds, PTL

(* Retention is "finalized" only over a whole run (retention.py: finalize, *)
(* and the reconciliation of RuntimeTraceWriter.create).                   *)
THEOREM SealedRunsAreWhole == Spec => []SealedIsWhole
<1>1. BundleInvariant => SealedIsWhole
  BY DEF BundleInvariant
<1> QED BY <1>1, BundleInvariantHolds, PTL

-----------------------------------------------------------------------------
(* The refinement of AttemptBundle.                                        *)

(* A step inside an invocation that does not change whether the bundle is  *)
(* complete, nor the outcome, is invisible to a caller.                    *)
LEMMA InvisibleStep ==
  ASSUME \/ tman' = tman /\ (arts' = arts \/ ~tman.ended)
         \/ ~BundleComplete /\ ~BundleComplete',
         outcome' = outcome,
         pc # "idle", pc' # "idle", goal # "seal" <=> goal' # "seal"
  PROVE  UNCHANGED Contract!bundleVars
<1>1. BundleComplete' <=> BundleComplete
  BY DEF BundleComplete
<1> QED BY <1>1 DEF Contract!bundleVars, BundleComplete

(* An invocation that ends without a trajectory has failed.                *)
LEMMA FailedStep ==
  ASSUME pc # "idle", NEW why \in Outcome \ {None, "returned"}, End(why),
         \/ tman' = tman /\ (arts' = arts \/ ~(tman.kind = "ok" /\ tman.ended))
         \/ tman'.kind # "ok"
  PROVE  Contract!Fail
<1>1. BundleComplete' \in {BundleComplete, FALSE}
  BY DEF BundleComplete
<1> QED BY <1>1 DEF Contract!Fail, End

(* Every step of a run is a step of the contract or invisible to it.       *)
LEMMA StepKeepsContract ==
  ASSUME BundleInvariant, [Next]_vars
  PROVE  [Contract!BundleNext]_(Contract!bundleVars)
<1> USE DEF BundleInvariant
<1>1. CASE UNCHANGED vars
  <2>1. BundleComplete' <=> BundleComplete
    BY <1>1 DEF vars, BundleComplete
  <2> QED BY <1>1, <2>1 DEF vars, Contract!bundleVars
<1>2. ASSUME NEW p \in Purpose, NEW f \in BOOLEAN, prepare_workspace(p, f)
      PROVE  Contract!Begin
  <2>1. BundleComplete' <=> BundleComplete
    BY <1>2 DEF prepare_workspace, BundleComplete
  <2>2. goal' # "seal" /\ pc = "idle" /\ pc' # "idle" /\ outcome' = None
    BY <1>2 DEF prepare_workspace, ProcessFacts
  <2> QED BY <2>1, <2>2 DEF Contract!Begin
<1>3. CASE CreateHistories \/ OpenFresh \/ OpenResumes \/ RetentionUpdate \/ TraceIsNew
           \/ TraceReconciles \/ TraceResumes
  <2>1. UNCHANGED <<tman, arts, outcome>> /\ pc # "idle" /\ pc' # "idle"
    BY <1>3 DEF CreateHistories, OpenFresh, OpenResumes, RetentionUpdate, TraceIsNew,
         TraceReconciles, TraceResumes, StartUpdate, ComputeChecksum, WriteIndex,
         WriteRetentionManifest, AppendJournal
  <2>2. goal # "seal" <=> goal' # "seal"
    BY <1>3 DEF CreateHistories, OpenFresh, OpenResumes, RetentionUpdate, TraceIsNew,
         TraceReconciles, TraceResumes, StartUpdate, ComputeChecksum, WriteIndex,
         WriteRetentionManifest, AppendJournal, ProcessFacts
  <2> QED BY <2>1, <2>2, InvisibleStep
<1>4. CASE write_json_payload \/ AppendEvent \/ AppendHistory \/ RunEnds
  <2>1. UNCHANGED <<tman, arts, outcome, goal>> /\ pc # "idle" /\ pc' # "idle"
    BY <1>4 DEF write_json_payload, AppendEvent, AppendHistory, RunEnds
  <2> QED BY <2>1, InvisibleStep
<1>5. CASE WriteArtifact
  <2>1. UNCHANGED <<tman, outcome, goal>> /\ pc # "idle" /\ pc' # "idle"
    BY <1>5 DEF WriteArtifact, AfterArtifact
  <2>2. ~tman.ended
    BY <1>5 DEF WriteArtifact, CounterFacts, Writing
  <2> QED BY <2>1, <2>2, InvisibleStep
<1>6. CASE WriteNewManifest
  <2>1. ~BundleComplete /\ ~BundleComplete'
    BY <1>6 DEF WriteNewManifest, TraceManifest, CounterFacts, BundleComplete
  <2>2. /\ goal # "seal" /\ goal' # "seal" /\ pc # "idle" /\ pc' # "idle"
        /\ outcome' = outcome
    BY <1>6 DEF WriteNewManifest, ProcessFacts
  <2> QED BY <2>1, <2>2, InvisibleStep
<1>7. CASE FinalizeTrace
  <2>1. ~BundleComplete
    BY <1>7 DEF FinalizeTrace, CounterFacts, Writing, BundleComplete
  <2>2. BundleComplete'
    BY <1>7 DEF FinalizeTrace, TraceManifest, SealFacts, BundleComplete
  <2>3. goal' = "seal" /\ pc # "idle" /\ pc' # "idle" /\ outcome' = outcome
    BY <1>7 DEF FinalizeTrace
  <2>4. Contract!BecomeComplete
    BY <2>1, <2>2, <2>3 DEF Contract!BecomeComplete
  <2> QED BY <2>4 DEF Contract!BundleNext
<1>8. CASE SyncManifest
  <2> USE <1>8 DEF SyncManifest, TraceManifest
  <2>1. CASE goal \notin {"seal", "reconcile"}
    <3>1. ~BundleComplete /\ ~BundleComplete'
      BY <2>1 DEF CounterFacts, Writing, Sealing, BundleComplete
    <3>2. /\ goal # "seal" /\ goal' # "seal" /\ pc # "idle" /\ pc' # "idle"
          /\ outcome' = outcome
      BY <2>1
    <3> QED BY <3>1, <3>2, InvisibleStep
  <2>2. CASE goal = "seal"
    <3>1. BundleComplete /\ BundleComplete'
      BY <2>2 DEF SealFacts, Sealing, AllArtifacts, BundleComplete
    <3>2. goal' # "seal" /\ pc # "idle" /\ pc' = "idle" /\ outcome' = "returned"
      BY <2>2 DEF End
    <3>3. Contract!ReturnTrajectory
      BY <2>2, <3>1, <3>2 DEF Contract!ReturnTrajectory
    <3> QED BY <3>3 DEF Contract!BundleNext
  <2>3. CASE goal = "reconcile"
    <3>1. BundleComplete /\ BundleComplete'
      BY <2>3 DEF SealFacts, Sealing, AllArtifacts, BundleComplete
    <3>2. goal' # "seal" /\ pc # "idle" /\ pc' = "idle" /\ outcome' = "reconciled"
      BY <2>3 DEF End
    <3>3. Contract!Fail
      BY <3>1, <3>2 DEF Contract!Fail
    <3> QED BY <3>3 DEF Contract!BundleNext
  <2> QED BY <2>1, <2>2, <2>3
<1>9. CASE OpenRefused \/ TraceRefused \/ Crash
  <2>1. PICK why \in Outcome \ {None, "returned"} : Raise(why) /\ pc # "idle"
    BY <1>9 DEF OpenRefused, TraceRefused, Crash, Outcome
  <2>2. Contract!Fail
    BY <2>1, FailedStep DEF Raise
  <2> QED BY <2>2 DEF Contract!BundleNext
<1>10. CASE CrashTears
  <2>1. End("crashed") /\ pc # "idle" /\ "crashed" \in Outcome \ {None, "returned"}
    BY <1>10 DEF CrashTears, Outcome
  <2>2. \/ tman' = tman /\ (arts' = arts \/ ~(tman.kind = "ok" /\ tman.ended))
        \/ tman'.kind # "ok"
    BY <1>10 DEF CrashTears, TornManifest, NoTraceManifest, CounterFacts, Writing
  <2>3. Contract!Fail
    BY <2>1, <2>2, FailedStep
  <2> QED BY <2>3 DEF Contract!BundleNext
<1> QED BY <1>1, <1>2, <1>3, <1>4, <1>5, <1>6, <1>7, <1>8, <1>9, <1>10
        DEF Next, create_or_resume, OpenTrace, TraceWrites, Contract!BundleNext

(* run_coding_task keeps the contract that execute_run_campaign relies on: *)
(* it returns only with a bundle it completed itself, and a complete       *)
(* bundle is lost only to a crash that tears the trace manifest.           *)
THEOREM BundleKeepsContract == Spec => ImplementsContract
<1>1. Init => Contract!BundleInit
  BY DEF Init, NoTraceManifest, Contract!BundleInit, BundleComplete
<1>2. BundleInvariant /\ [Next]_vars => [Contract!BundleNext]_(Contract!bundleVars)
  BY StepKeepsContract
<1> QED BY <1>1, <1>2, BundleInvariantHolds, PTL
        DEF Spec, ImplementsContract, Contract!BundleSpec
=============================================================================
