------------------------ MODULE WorkspaceToolsProofs ------------------------
(***************************************************************************)
(* Edit and Write never lose what another process wrote between two calls, *)
(* for any paths, contents and number of calls: the proof of               *)
(* NoBlindOverwrite for every interleaving of the tools' accesses to the   *)
(* files, other writers and the clock.                                     *)
(***************************************************************************)
EXTENDS WorkspaceTools, TLAPS

-----------------------------------------------------------------------------
(* The inductive invariant, about a session with the Claude family.        *)

(* The file holds what was put there between two calls, later than the     *)
(* agent last looked.                                                      *)
QuietFile(p) == Exists(p) /\ files[p].quiet = TRUE

ShapeFacts ==
  /\ DOMAIN files = Paths /\ DOMAIN witness = Paths
  /\ outside \in Nat
  /\ call # Idle => /\ call.step \in {"check", "write", "witness"}
                    /\ call.path \in Paths
                    /\ {"step", "path"} \subseteq DOMAIN call

(* A change that the agent has not seen is newer than its witness.         *)
WitnessFacts ==
  \A p \in Paths : QuietFile(p) =>
    \/ witness[p] = NotRead
    \/ witness[p].lines = files[p].lines
    \/ files[p].mtime > witness[p].timestamp

(* While a call is under way the file it is about does not become quiet:   *)
(* one that is was so when the call looked at it.                          *)
CallFacts ==
  call # Idle /\ QuietFile(call.path) =>
    /\ call.step = "witness" => call.lines = files[call.path].lines
    /\ call.step = "write" =>
         \/ files[call.path].lines = <<>>
         \/ /\ ~witness[call.path].partial
            /\ witness[call.path].lines = files[call.path].lines

OverwriteInvariant == family = "claude" => ShapeFacts /\ WitnessFacts /\ CallFacts

-----------------------------------------------------------------------------
(* One lemma per action of the family.                                     *)

USE DEF None, Idle, At, Goes, End, Refuse, Stays

(* A file that is not written stays as it is, and so does what the         *)
(* invariant says of it while the call and the witness stay.               *)
LEMMA FilesStay ==
  ASSUME UNCHANGED files
  PROVE  \A p \in Paths : QuietFile(p)' <=> QuietFile(p)
  BY DEF QuietFile, Exists

(* A call that is refused leaves nothing behind.                           *)
LEMMA RefusedKeeps ==
  ASSUME OverwriteInvariant, family = "claude", Refuse,
         UNCHANGED <<family, files, witness, outside>>
  PROVE  OverwriteInvariant'
  BY FilesStay DEF OverwriteInvariant, ShapeFacts, WitnessFacts, CallFacts

(* A call looks at its file.                                               *)
LEMMA ReadKeeps ==
  ASSUME OverwriteInvariant, family = "claude", NEW p \in Paths, Read(p)
  PROVE  OverwriteInvariant'
<1>1. UNCHANGED <<family, files, witness, outside>>
  BY DEF Read, Begin
<1>2. CASE Refuse
  BY <1>1, <1>2, RefusedKeeps
<1>3. CASE ~Refuse
  <2>1. PICK partial \in BOOLEAN :
          call' = [step |-> "witness", tool |-> "Read", path |-> p, lines |-> files[p].lines,
                   partial |-> partial]
    BY <1>3 DEF Read
  <2>2. call'.step = "witness" /\ call'.path = p /\ call'.lines = files[p].lines
        /\ {"step", "path"} \subseteq DOMAIN call'
    BY <2>1
  <2> QED
    BY <1>1, <2>2, FilesStay DEF OverwriteInvariant, ShapeFacts, WitnessFacts, CallFacts
<1> QED
  BY <1>2, <1>3

(* A call goes on to its check, or at once to its write when there is      *)
(* nothing to lose.                                                        *)
LEMMA StartKeeps ==
  ASSUME OverwriteInvariant, family = "claude", NEW p \in Paths,
         UNCHANGED <<family, files, witness, outside>>,
         call'.path = p, {"step", "path"} \subseteq DOMAIN call',
         \/ call'.step = "check"
         \/ call'.step = "write" /\ (Exists(p) => files[p].lines = <<>>)
  PROVE  OverwriteInvariant'
<1>1. WitnessFacts'
  BY FilesStay DEF OverwriteInvariant, WitnessFacts
<1>2. CallFacts'
  BY FilesStay DEF CallFacts, QuietFile, Exists
<1> QED
  BY <1>1, <1>2 DEF OverwriteInvariant, ShapeFacts

(* Edit.                                                                   *)
LEMMA EditKeeps ==
  ASSUME OverwriteInvariant, family = "claude", NEW p \in Paths, Edit(p)
  PROVE  OverwriteInvariant'
<1>1. UNCHANGED <<family, files, witness, outside>>
  BY DEF Edit, Begin
<1>2. CASE Refuse
  BY <1>1, <1>2, RefusedKeeps
<1>3. CASE ~Refuse
  <2>1. PICK old \in Strings \cup {""}, new \in Strings, every \in BOOLEAN :
          \/ /\ call' = [step |-> "write", tool |-> "Edit", path |-> p, lines |-> <<new>>]
             /\ Exists(p) => files[p].lines = <<>>
          \/ call' = [step |-> "check", tool |-> "Edit", path |-> p, lines |-> files[p].lines,
                      old |-> old, new |-> new, every |-> every]
    BY <1>3 DEF Edit
  <2>2. CASE /\ call' = [step |-> "write", tool |-> "Edit", path |-> p, lines |-> <<new>>]
             /\ Exists(p) => files[p].lines = <<>>
    <3>1. call'.path = p /\ {"step", "path"} \subseteq DOMAIN call' /\ call'.step = "write"
      BY <2>2
    <3> QED
      BY <1>1, <2>2, <3>1, StartKeeps
  <2>3. CASE call' = [step |-> "check", tool |-> "Edit", path |-> p, lines |-> files[p].lines,
                      old |-> old, new |-> new, every |-> every]
    <3>1. call'.path = p /\ {"step", "path"} \subseteq DOMAIN call' /\ call'.step = "check"
      BY <2>3
    <3> QED
      BY <1>1, <3>1, StartKeeps
  <2> QED
    BY <2>1, <2>2, <2>3
<1> QED
  BY <1>2, <1>3

(* Write.                                                                  *)
LEMMA WriteKeeps ==
  ASSUME OverwriteInvariant, family = "claude", NEW p \in Paths, Write(p)
  PROVE  OverwriteInvariant'
<1>1. UNCHANGED <<family, files, witness, outside>>
  BY DEF Write, Begin
<1>2. CASE Refuse
  BY <1>1, <1>2, RefusedKeeps
<1>3. CASE ~Refuse
  <2>1. PICK lines \in Contents :
          call' = [step |-> IF Exists(p) THEN "check" ELSE "write", tool |-> "Write",
                   path |-> p, lines |-> lines]
    BY <1>3 DEF Write
  <2>2. /\ call'.path = p /\ {"step", "path"} \subseteq DOMAIN call'
        /\ \/ call'.step = "check"
           \/ call'.step = "write" /\ (Exists(p) => files[p].lines = <<>>)
    BY <2>1
  <2> QED
    BY <1>1, <2>2, StartKeeps
<1> QED
  BY <1>2, <1>3

(* The check lets a quiet file pass only if its text is what was read.     *)
LEMMA CheckKeeps ==
  ASSUME OverwriteInvariant, family = "claude", Check
  PROVE  OverwriteInvariant'
<1> DEFINE p == call.path
<1>1. UNCHANGED <<family, files, witness, outside>>
  BY DEF Check
<1>2. CASE Refuse
  BY <1>1, <1>2, RefusedKeeps
<1>3. CASE ~Refuse
  <2>1. p \in Paths /\ {"step", "path"} \subseteq DOMAIN call /\ call # Idle
    BY DEF Check, OverwriteInvariant, ShapeFacts
  <2>2. RequireUnchangedFullRead(p)
    BY <1>3 DEF Check
  <2>3. \/ call' = [call EXCEPT !.step = "write"]
        \/ call' = [step |-> "write", tool |-> "Edit", path |-> p,
                    lines |-> Replaced(call.lines, call.old, call.new)]
    BY <1>3, <2>2 DEF Check
  <2>4. call'.step = "write" /\ call'.path = p /\ {"step", "path"} \subseteq DOMAIN call'
    BY <2>1, <2>3
  <2>5. ~witness[p].partial
    BY <2>2 DEF RequireUnchangedFullRead
  <2>6. QuietFile(p) => witness[p].lines = files[p].lines
    BY <2>1, <2>2, <2>5 DEF RequireUnchangedFullRead, OverwriteInvariant, WitnessFacts, NotRead
  <2> HIDE DEF p
  <2> QED
    BY <1>1, <2>1, <2>4, <2>5, <2>6, FilesStay
       DEF OverwriteInvariant, ShapeFacts, WitnessFacts, CallFacts
<1> QED
  BY <1>2, <1>3

(* What a tool writes is not quiet.                                        *)
LEMMA WriteTextKeeps ==
  ASSUME OverwriteInvariant, family = "claude", WriteText
  PROVE  OverwriteInvariant'
<1>0. PICK p : p = call.path
  OBVIOUS
<1>1. UNCHANGED <<family, witness, outside>> /\ call # Idle
  BY DEF WriteText
<1>2. p \in Paths /\ ShapeFacts
  BY <1>0, <1>1 DEF OverwriteInvariant, ShapeFacts
<1>3. /\ DOMAIN files' = Paths
      /\ files'[p] = File(call.lines, FALSE)
      /\ \A q \in Paths \ {p} : files'[q] = files[q]
  BY <1>0, <1>2 DEF WriteText, Puts, ShapeFacts
<1>4. call'.step = "witness" /\ call'.path = p /\ {"step", "path"} \subseteq DOMAIN call'
  BY <1>0 DEF WriteText
<1>5. ~QuietFile(p)' /\ \A q \in Paths \ {p} : QuietFile(q)' <=> QuietFile(q)
  BY <1>3 DEF QuietFile, Exists, File
<1>6. WitnessFacts'
  BY <1>1, <1>3, <1>5 DEF OverwriteInvariant, WitnessFacts
<1>7. CallFacts'
  BY <1>4, <1>5 DEF CallFacts
<1> QED
  BY <1>1, <1>2, <1>3, <1>4, <1>6, <1>7 DEF OverwriteInvariant, ShapeFacts

(* The witness of a quiet file is its text.                                *)
LEMMA RecordReadWitnessKeeps ==
  ASSUME OverwriteInvariant, family = "claude", RecordReadWitness
  PROVE  OverwriteInvariant'
<1> DEFINE p == call.path
<1>1. UNCHANGED <<family, files, outside>> /\ call # Idle
  BY DEF RecordReadWitness
<1>2. CASE ~Exists(p)
  BY <1>1, <1>2, RefusedKeeps DEF RecordReadWitness
<1>3. CASE Exists(p)
  <2>1. p \in Paths /\ ShapeFacts /\ WitnessFacts /\ call.step = "witness"
    BY <1>1 DEF OverwriteInvariant, ShapeFacts, RecordReadWitness
  <2>2. QuietFile(p) => call.lines = files[p].lines
    BY <1>1, <2>1 DEF OverwriteInvariant, CallFacts
  <2>3. /\ DOMAIN witness' = Paths
        /\ witness'[p].lines = call.lines
        /\ \A q \in Paths \ {p} : witness'[q] = witness[q]
    BY <1>3, <2>1 DEF RecordReadWitness, ShapeFacts
  <2>4. call' = Idle
    BY <1>3 DEF RecordReadWitness
  <2> HIDE DEF p
  <2> QED
    BY <1>1, <2>1, <2>2, <2>3, <2>4, FilesStay
       DEF OverwriteInvariant, ShapeFacts, WitnessFacts, CallFacts
<1> QED
  BY <1>2, <1>3

(* Another process writes a file, which is quiet only between calls and    *)
(* after the millisecond of its witness, or removes it.                    *)
LEMMA OutsideKeeps ==
  ASSUME OverwriteInvariant, family = "claude", NEW p \in Paths, Outside(p)
  PROVE  OverwriteInvariant'
<1>1. UNCHANGED <<family, witness, call>> /\ outside' = outside + 1
  BY DEF Outside
<1>2. ShapeFacts /\ WitnessFacts /\ CallFacts
  BY DEF OverwriteInvariant
<1>3. /\ DOMAIN files' = Paths
      /\ \A q \in Paths \ {p} : files'[q] = files[q]
      /\ files'[p] = Absent \/ \E lines \in Initial : files'[p] = File(lines, Quiet(p))
  BY <1>2 DEF Outside, ShapeFacts
<1>4. QuietFile(p)' => Quiet(p) /\ files'[p].mtime = clock
  BY <1>3 DEF QuietFile, Exists, File, Absent
<1>5. \A q \in Paths \ {p} : QuietFile(q)' <=> QuietFile(q)
  BY <1>3 DEF QuietFile, Exists
<1>6. WitnessFacts'
  BY <1>1, <1>2, <1>3, <1>4, <1>5 DEF WitnessFacts, Quiet
<1>7. CallFacts'
  BY <1>1, <1>2, <1>3, <1>4, <1>5 DEF CallFacts, ShapeFacts, Quiet
<1> QED
  BY <1>1, <1>2, <1>3, <1>6, <1>7 DEF OverwriteInvariant, ShapeFacts

(* No step but those of the family concerns a session with it.             *)
LEMMA OtherSteps ==
  ASSUME OverwriteInvariant, family = "claude",
         ApplyPatch \/ OpenTarget \/ PutTarget \/ DeleteFile
  PROVE  FALSE
<1>1. ~ApplyPatch
  BY DEF ApplyPatch, Begin
<1>2. call.step \in {"none", "check", "write", "witness"}
  BY DEF OverwriteInvariant, ShapeFacts
<1> QED
  BY <1>1, <1>2 DEF OpenTarget, PutTarget, DeleteFile

(* Time passes, or nothing happens.                                        *)
LEMMA StutterKeeps ==
  ASSUME OverwriteInvariant, UNCHANGED <<family, files, witness, call, outside>>
  PROVE  OverwriteInvariant'
  BY FilesStay DEF OverwriteInvariant, ShapeFacts, WitnessFacts, CallFacts, QuietFile, Exists

(* The family of a session never changes.                                  *)
LEMMA FamilyStays ==
  ASSUME [Next]_vars
  PROVE  family' = family
  BY DEF Next, vars, Read, Edit, Write, Check, WriteText, RecordReadWitness, ApplyPatch,
         OpenTarget, PutTarget, DeleteFile, Tick, Outside, Begin

(* Every step preserves the invariant.                                     *)
LEMMA StepKeeps ==
  ASSUME OverwriteInvariant, [Next]_vars
  PROVE  OverwriteInvariant'
<1>1. CASE family # "claude"
  BY <1>1, FamilyStays DEF OverwriteInvariant
<1>2. CASE family = "claude"
  BY <1>2, ReadKeeps, EditKeeps, WriteKeeps, CheckKeeps, WriteTextKeeps,
     RecordReadWitnessKeeps, OutsideKeeps, OtherSteps, StutterKeeps DEF Next, vars, Tick
<1> QED
  BY <1>1, <1>2

-----------------------------------------------------------------------------
(* What is proved of every session.                                        *)

(* The inductive invariant holds in every reachable state.                 *)
THEOREM OverwriteInvariantHolds == Spec => []OverwriteInvariant
<1>1. Init => OverwriteInvariant
  BY DEF Init, OverwriteInvariant, ShapeFacts, WitnessFacts, CallFacts
<1> QED
  BY <1>1, StepKeeps, PTL DEF Spec

(* A step that changes a file and is not another process's is the write of *)
(* a call to its own file.                                                 *)
LEMMA OwnWrites ==
  ASSUME OverwriteInvariant, family = "claude", [Next]_vars, outside' = outside,
         NEW p \in Paths, files'[p] # files[p]
  PROVE  At("write") /\ call.path = p
<1>1. outside \in Nat
  BY DEF OverwriteInvariant, ShapeFacts
<1>2. ~ \E q \in Paths : Outside(q)
  BY <1>1 DEF Outside
<1>3. WriteText
  BY <1>2, OtherSteps DEF Next, vars, Read, Edit, Write, Check, RecordReadWitness, Tick
<1> QED
  BY <1>3 DEF WriteText, Puts, OverwriteInvariant, ShapeFacts

(* Edit and Write overwrite nothing that another process wrote between two *)
(* calls and that the agent did not read (claude.py: the read witness and  *)
(* _require_unchanged_full_read).                                          *)
THEOREM NothingIsOverwrittenBlindly == Spec => NoBlindOverwrite
<1>1. OverwriteInvariant /\ [Next]_vars =>
        [\A p \in Paths :
           /\ family = "claude" /\ outside' = outside
           /\ files'[p] # files[p] /\ Exists(p) /\ files[p].lines # <<>>
           /\ witness[p] = NotRead \/ witness[p].lines # files[p].lines
           => ~files[p].quiet]_vars
  <2> SUFFICES ASSUME OverwriteInvariant, [Next]_vars, NEW p \in Paths,
                      family = "claude", outside' = outside, files'[p] # files[p],
                      Exists(p), files[p].lines # <<>>,
                      witness[p] = NotRead \/ witness[p].lines # files[p].lines
               PROVE  ~files[p].quiet
    OBVIOUS
  <2>1. call.step = "write" /\ call.path = p /\ call # Idle
    BY OwnWrites
  <2>2. ~QuietFile(p)
    BY <2>1 DEF OverwriteInvariant, CallFacts, NotRead
  <2> QED
    BY <2>2 DEF QuietFile
<1> QED
  BY <1>1, OverwriteInvariantHolds, PTL DEF Spec, NoBlindOverwrite
=============================================================================
