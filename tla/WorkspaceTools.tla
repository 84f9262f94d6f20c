--------------------------- MODULE WorkspaceTools ---------------------------
(***************************************************************************)
(* The tools that write the workspace: Read, Edit and Write of the Claude  *)
(* family (pycodeagent/tools/families/claude.py) and apply_patch of the    *)
(* Codex family (patch_runtime.py, patch_apply.py), under the path policy  *)
(* (env/path_policy.py), while commands the agent left running write the   *)
(* same files.                                                             *)
(*                                                                         *)
(* A handler's accesses to the file system are steps of their own, so that *)
(* another process may come between them; two in a row that only read are  *)
(* one step.  Why a call was refused is not told apart.                    *)
(***************************************************************************)
EXTENDS PatchApply

CONSTANTS
  Families,    \* the tool families a session may use: "claude", "codex"
  Paths,
  Forbidden,   \* paths the task does not allow
  Protected,   \* paths no tool may write: .git and the like
  Initial,     \* the contents a file may begin with
  Contents,    \* what is written whole
  Strings,     \* one-line old_string and new_string of an edit
  Patches,     \* what apply_patch is given
  MaxClock,    \* bound: milliseconds that pass
  MaxCalls,    \* bound: tool calls of a session, for each family
  MaxOutside   \* bound: writes by other processes

ASSUME WorkspaceConstants ==
  /\ Families \subseteq {"claude", "codex"}
  /\ Forbidden \subseteq Paths /\ Protected \subseteq Paths
  /\ MaxClock \in Nat /\ MaxCalls \in [Families -> Nat] /\ MaxOutside \in Nat

VARIABLES
  family,    \* the session's
  files,     \* path -> what is there
  witness,   \* tool_state: what was read or written of each path, and when
  call,      \* the call under way
  result,    \* of the last call
  clock,     \* milliseconds
  calls, outside

vars == <<family, files, witness, call, result, clock, calls, outside>>

-----------------------------------------------------------------------------
(* State.                                                                  *)

None == "none"
Absent == [state |-> "absent"]
NotRead == [partial |-> TRUE]
File(lines, quiet) == [state |-> "file", lines |-> lines, mtime |-> clock, quiet |-> quiet]
Exists(p) == files[p].state = "file"

Idle == [step |-> None]
At(step) == call.step = step
Begin(tool) ==
  /\ call = Idle /\ calls < MaxCalls[family]
  /\ calls' = calls + 1
  /\ UNCHANGED <<family, clock, outside>>
  /\ family = tool

End(ok, modified) == call' = Idle /\ result' = [ok |-> ok, modified |-> modified]
Refuse == End(FALSE, <<>>)
Goes(record) == call' = record /\ UNCHANGED result

Stays == UNCHANGED <<family, clock, calls, outside>>

Puts(p, lines) == files' = [files EXCEPT ![p] = File(lines, FALSE)]

-----------------------------------------------------------------------------
(* Path policy.                                                            *)

Readable(p) == p \notin Forbidden
Writable(p) == p \notin Forbidden \cup Protected

-----------------------------------------------------------------------------
(* The Claude family.                                                      *)

Read(p) ==
  /\ Begin("claude")
  /\ \E partial \in BOOLEAN :
       IF Readable(p) /\ Exists(p)
         THEN Goes([step |-> "witness", tool |-> "Read", path |-> p, lines |-> files[p].lines,
                    partial |-> partial])
         ELSE Refuse
  /\ UNCHANGED <<files, witness>>

(* An edit replaces one line of text, every occurrence or the only one.    *)
Occurrences(lines, old) == {i \in DOMAIN lines : lines[i] = old}
Replaced(lines, old, new) == [i \in DOMAIN lines |-> IF lines[i] = old THEN new ELSE lines[i]]

Edit(p) ==
  /\ Begin("claude")
  /\ \E old \in Strings \cup {""}, new \in Strings, every \in BOOLEAN :
       IF old = new \/ ~Writable(p) THEN Refuse
       ELSE IF ~Exists(p) THEN
         IF old # "" THEN Refuse
         ELSE Goes([step |-> "write", tool |-> "Edit", path |-> p, lines |-> <<new>>])
       ELSE IF old = "" THEN
         IF files[p].lines # <<>> THEN Refuse
         ELSE Goes([step |-> "write", tool |-> "Edit", path |-> p, lines |-> <<new>>])
       ELSE Goes([step |-> "check", tool |-> "Edit", path |-> p, lines |-> files[p].lines,
                  old |-> old, new |-> new, every |-> every])
  /\ UNCHANGED <<files, witness>>

Write(p) ==
  /\ Begin("claude")
  /\ \E lines \in Contents :
       IF ~Writable(p) THEN Refuse
       ELSE Goes([step |-> IF Exists(p) THEN "check" ELSE "write", tool |-> "Write", path |-> p,
                  lines |-> lines])
  /\ UNCHANGED <<files, witness>>


(* Mutant: a change counts once it is more than a millisecond newer.       *)
RequireUnchangedFullRead_late(p) ==
  /\ Exists(p)
  /\ ~witness[p].partial
  /\ ~(files[p].mtime > witness[p].timestamp + 1 /\ files[p].lines # witness[p].lines)

RequireUnchangedFullRead(p) ==
  /\ Exists(p)
  /\ ~witness[p].partial
  /\ ~(files[p].mtime > witness[p].timestamp /\ files[p].lines # witness[p].lines)

(* The check reads the file again; the edit is made in what was read       *)
(* before it.                                                              *)
Check ==
  /\ At("check")
  /\ IF ~RequireUnchangedFullRead(call.path) THEN Refuse
     ELSE IF call.tool = "Write" THEN Goes([call EXCEPT !.step = "write"])
     ELSE LET matches == Cardinality(Occurrences(call.lines, call.old))
          IN  IF matches = 0 \/ (matches > 1 /\ ~call.every) THEN Refuse
              ELSE Goes([step |-> "write", tool |-> "Edit", path |-> call.path,
                         lines |-> Replaced(call.lines, call.old, call.new)])
  /\ Stays /\ UNCHANGED <<files, witness>>

WriteText ==
  /\ At("write") /\ family = "claude"
  /\ Puts(call.path, call.lines)
  /\ Goes([step |-> "witness", tool |-> call.tool, path |-> call.path, lines |-> call.lines,
           partial |-> FALSE])
  /\ Stays /\ UNCHANGED witness

(* The time of the witness is read from the file after its text was; a     *)
(* file that has gone by then fails the call.                              *)
RecordReadWitness ==
  /\ At("witness")
  /\ IF Exists(call.path)
       THEN /\ witness' = [witness EXCEPT ![call.path] =
                             [lines |-> call.lines, timestamp |-> files[call.path].mtime,
                              partial |-> call.partial]]
            /\ End(TRUE, IF call.tool = "Read" THEN <<>> ELSE <<call.path>>)
       ELSE Refuse /\ UNCHANGED witness
  /\ Stays /\ UNCHANGED files

-----------------------------------------------------------------------------
(* apply_patch.  The operations of a patch are applied one by one; the     *)
(* first that fails ends the call and undoes nothing.                      *)

ApplyPatch ==
  /\ Begin("codex")
  /\ \E patch \in Patches :
       Goes([step |-> "open", ops |-> patch, next |-> 1, lines |-> <<>>, clean |-> TRUE,
             start |-> [p \in Paths |-> IF Exists(p) THEN files[p].lines ELSE None]])
  /\ UNCHANGED <<files, witness>>

Operation == call.ops[call.next]
Destination(op) == IF op.move = None THEN op.path ELSE op.move

Advances ==
  IF call.next = Len(call.ops)
    THEN End(TRUE, [i \in DOMAIN call.ops |-> Destination(call.ops[i])])
    ELSE Goes([call EXCEPT !.step = "open", !.next = @ + 1, !.lines = <<>>])

(* The target is resolved and read.  What creates a file takes an existing *)
(* one for empty; a move needs a free destination.                         *)
Resolves(op) ==
  /\ Writable(op.path)
  /\ op.kind \in {"add", "create"} \/ Exists(op.path)
  /\ op.move # None =>
       Writable(op.move) /\ (Exists(op.move) => op.move = op.path)

Rewritten(op) ==
  CASE op.kind = "add" -> Patched(op.lines)
    [] op.kind = "delete" -> Patched(<<>>)
    [] op.kind = "update" -> ApplyStrictChunks(files[op.path].lines, op.chunks)
    [] op.kind = "create" -> ApplyHunks(<<>>, op.hunks)
    [] op.kind = "modify" -> ApplyHunks(files[op.path].lines, op.hunks)
    [] op.kind = "remove" -> LET r == ApplyHunks(files[op.path].lines, op.hunks)
                             IN  IF r.ok /\ r.lines = <<>> THEN r ELSE Refused

OpenTarget ==
  /\ At("open")
  /\ LET op == Operation
     IN  IF ~Resolves(op) THEN Refuse
         ELSE IF ~Rewritten(op).ok THEN Refuse
         ELSE Goes([call EXCEPT !.step = IF op.kind \in {"delete", "remove"} THEN "unlink"
                                                                             ELSE "put",
                                !.lines = Rewritten(op).lines])
  /\ Stays /\ UNCHANGED <<files, witness>>

PutTarget ==
  /\ At("put")
  /\ Puts(Destination(Operation), call.lines)
  /\ IF Destination(Operation) = Operation.path THEN Advances
                                                ELSE Goes([call EXCEPT !.step = "unlink"])
  /\ Stays /\ UNCHANGED witness

DeleteFile ==
  /\ At("unlink")
  /\ IF Exists(Operation.path)
       THEN files' = [files EXCEPT ![Operation.path] = Absent] /\ Advances
       ELSE Refuse /\ UNCHANGED files
  /\ Stays /\ UNCHANGED witness

-----------------------------------------------------------------------------
(* Other processes, and time.  Where the tools cannot write, what a file   *)
(* holds does not matter.                                                  *)

Quiet(p) == call = Idle /\ (witness[p] = NotRead \/ clock > witness[p].timestamp)

Outside(p) ==
  /\ outside < MaxOutside /\ Writable(p)
  /\ outside' = outside + 1
  /\ \/ \E lines \in Initial : files' = [files EXCEPT ![p] = File(lines, Quiet(p))]
     \/ Exists(p) /\ files' = [files EXCEPT ![p] = Absent]
  /\ call' = IF call # Idle /\ family = "codex" THEN [call EXCEPT !.clean = FALSE] ELSE call
  /\ UNCHANGED <<family, witness, result, clock, calls>>

Tick ==
  /\ family = "claude" /\ clock < MaxClock
  /\ clock' = clock + 1
  /\ UNCHANGED <<family, files, witness, call, result, calls, outside>>

Init ==
  /\ family \in Families
  /\ clock = 0
  /\ files \in [Paths -> {Absent} \cup {File(lines, FALSE) : lines \in Initial}]
  /\ \A p \in Paths : ~Writable(p) => files[p] = File(<<>>, FALSE)
  /\ witness = [p \in Paths |-> NotRead]
  /\ call = Idle /\ result = None /\ calls = 0 /\ outside = 0

Next ==
  \/ \E p \in Paths : Read(p) \/ Edit(p) \/ Write(p)
  \/ Check \/ WriteText \/ RecordReadWitness
  \/ ApplyPatch \/ OpenTarget \/ PutTarget \/ DeleteFile
  \/ Tick
  \/ \E p \in Paths : Outside(p)

Spec == Init /\ [][Next]_vars

-----------------------------------------------------------------------------
(* Properties.                                                             *)

(* What other processes put in a file between two calls, in a later        *)
(* millisecond than the agent last read or wrote it, is never overwritten  *)
(* by Edit or Write unread: however reads, partial reads, refusals and     *)
(* edits follow one another, losing such a change takes a write that lands *)
(* inside a call or in the millisecond of the witness.                     *)
NoBlindOverwrite ==
  [][\A p \in Paths :
       /\ family = "claude" /\ outside' = outside
       /\ files'[p] # files[p] /\ Exists(p) /\ files[p].lines # <<>>
       /\ witness[p] = NotRead \/ witness[p].lines # files[p].lines
       => ~files[p].quiet]_vars

(* What an operation means, told on the contents of the workspace alone.   *)
Places(lines, old) ==
  {i \in 0 .. Len(lines) : i + Len(old) <= Len(lines) /\ \A j \in DOMAIN old : lines[i + j] = old[j]}

Meaning(op, disk) ==
  LET lines == disk[op.path]
      Replace(r, chunk) ==
        IF r.ok /\ chunk.old = <<>> THEN Patched(r.lines \o chunk.new)
        ELSE IF r.ok /\ \E i \in Places(r.lines, chunk.old) : Places(r.lines, chunk.old) = {i}
          THEN LET i == CHOOSE i \in Places(r.lines, chunk.old) : TRUE
               IN  Patched(SubSeq(r.lines, 1, i) \o chunk.new
                             \o SubSeq(r.lines, i + Len(chunk.old) + 1, Len(r.lines)))
        ELSE Refused
  IN  CASE op.kind = "add" -> Patched(op.lines)
        [] op.kind = "create" -> Patched(op.hunks[1].new)
        [] op.kind = "update" /\ lines # None -> FoldLeft(Replace, Patched(lines), op.chunks)
        [] op.kind = "modify" /\ lines # None -> ApplyHunks(lines, op.hunks)
        [] op.kind \in {"delete", "remove"} /\ lines # None -> Patched(<<>>)
        [] OTHER -> Refused

Applicable(op, disk) ==
  /\ {op.path, Destination(op)} \cap (Forbidden \cup Protected) = {}
  /\ Destination(op) # op.path => disk[Destination(op)] = None
  /\ Meaning(op, disk).ok
  /\ op.kind = "remove" => disk[op.path] = op.base

Effect(disk, op) ==
  LET cleared == [disk EXCEPT ![op.path] = None]
  IN  IF op.kind \in {"delete", "remove"} THEN cleared
      ELSE [cleared EXCEPT ![Destination(op)] = Meaning(op, disk).lines]

(* A patch that no other process interferes with leaves the workspace as   *)
(* its first operations, up to the first inapplicable one, would leave it, *)
(* and nothing of that one: all of them exactly when it reports success,   *)
(* with the files it says it modified.                                     *)
PatchIsPrefix ==
  [][family = "codex" /\ call # Idle /\ call' = Idle /\ call.clean =>
       LET done == IF result'.ok THEN Len(call.ops) ELSE call.next - 1
           disk == FoldLeft(Effect, call.start, SubSeq(call.ops, 1, done))
       IN  /\ \A i \in 1 .. done :
                Applicable(call.ops[i], FoldLeft(Effect, call.start, SubSeq(call.ops, 1, i - 1)))
           /\ \A p \in Paths :
                disk[p] = IF files'[p].state = "file" THEN files'[p].lines ELSE None
           /\ ~result'.ok => ~Applicable(call.ops[done + 1], disk)
           /\ result'.ok => result'.modified = [i \in DOMAIN call.ops |-> Destination(call.ops[i])]
    ]_vars

(* A unified diff lands where it was made: applied to the text it was made *)
(* from it gives the text that was meant, however its hunks shift each     *)
(* other and however often their lines recur; and a hunk whose lines occur *)
(* once still does when up to three lines were added in front of them.     *)
DiffLandsWhereMade ==
  At("open") =>
    LET op == Operation
        lines == files[op.path].lines
        shift == Len(lines) - Len(op.base)
        placed == ApplyHunks(lines, op.hunks)
    IN  op.kind = "modify" /\ Exists(op.path) =>
          /\ lines = op.base => placed = Patched(op.intended)
          /\ /\ shift \in 1 .. HunkFuzzWindow /\ SubSeq(lines, shift + 1, Len(lines)) = op.base
             /\ Len(op.hunks) = 1 /\ Cardinality(Places(lines, op.hunks[1].old)) = 1
             => placed = Patched(SubSeq(lines, 1, shift) \o op.intended)
=============================================================================
