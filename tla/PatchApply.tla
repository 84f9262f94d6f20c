----------------------------- MODULE PatchApply -----------------------------
(***************************************************************************)
(* How pycodeagent/tools/patch_apply.py places the pieces of a patch in a  *)
(* file.  A file is the sequence of its lines.  A hunk of a unified diff   *)
(* names a line number and is searched for near it; a chunk of a Codex     *)
(* patch is searched for in the whole file.  Parsing, line endings and the *)
(* newline at the end of a file are left out.                              *)
(***************************************************************************)
EXTENDS Integers, Sequences, SequencesExt, FiniteSets

HunkFuzzWindow == 3

Refused == [ok |-> FALSE]
Patched(lines) == [ok |-> TRUE, lines |-> lines]

Abs(n) == IF n < 0 THEN -n ELSE n

(* Positions count from 0, as in the source.                               *)
SegmentMatches(lines, start, old) ==
  /\ start >= 0 /\ start + Len(old) <= Len(lines)
  /\ SubSeq(lines, start + 1, start + Len(old)) = old

Splice(lines, at, removed, new) ==
  SubSeq(lines, 1, at) \o new \o SubSeq(lines, at + removed + 1, Len(lines))

-----------------------------------------------------------------------------
(* Unified diffs.                                                          *)

(* The positions a hunk may take: the one suggested, or else the nearest   *)
(* match within the window, when no other is as near.                      *)
FindHunkPosition(lines, old, suggested) ==
  IF SegmentMatches(lines, suggested, old)
    THEN {suggested}
    ELSE LET near == {c \in suggested - HunkFuzzWindow .. suggested + HunkFuzzWindow :
                        SegmentMatches(lines, c, old)}
             nearest == {c \in near : \A d \in near : Abs(c - suggested) <= Abs(d - suggested)}
         IN  IF Cardinality(nearest) = 1 THEN nearest ELSE {}


(* Mutant: a hunk moves the later ones by its shift, not by its length.    *)
ApplyHunk_length(state, hunk) ==
  LET suggested == IF hunk.old_start - 1 + state.offset < 0
                     THEN 0 ELSE hunk.old_start - 1 + state.offset
      places == IF hunk.old = <<>>
                  THEN {IF suggested < Len(state.lines) THEN suggested ELSE Len(state.lines)}
                  ELSE FindHunkPosition(state.lines, hunk.old, suggested)
  IN  IF ~state.ok \/ places = {}
        THEN [state EXCEPT !.ok = FALSE]
        ELSE LET at == CHOOSE c \in places : TRUE
             IN  [ok |-> TRUE,
                  lines |-> Splice(state.lines, at, Len(hunk.old), hunk.new),
                  offset |-> state.offset + (at - suggested)]

ApplyHunk(state, hunk) ==
  LET suggested == IF hunk.old_start - 1 + state.offset < 0
                     THEN 0 ELSE hunk.old_start - 1 + state.offset
      places == IF hunk.old = <<>>
                  THEN {IF suggested < Len(state.lines) THEN suggested ELSE Len(state.lines)}
                  ELSE FindHunkPosition(state.lines, hunk.old, suggested)
  IN  IF ~state.ok \/ places = {}
        THEN [state EXCEPT !.ok = FALSE]
        ELSE LET at == CHOOSE c \in places : TRUE
             IN  [ok |-> TRUE,
                  lines |-> Splice(state.lines, at, Len(hunk.old), hunk.new),
                  offset |-> state.offset + (at - suggested) + (Len(hunk.new) - Len(hunk.old))]

ApplyHunks(lines, hunks) ==
  LET last == FoldLeft(ApplyHunk, [ok |-> TRUE, lines |-> lines, offset |-> 0], hunks)
  IN  IF last.ok THEN Patched(last.lines) ELSE Refused

-----------------------------------------------------------------------------
(* Codex patches.                                                          *)


(* Mutant: the first of several places is taken.                           *)
FindUniqueSegmentPosition_first(lines, old) ==
  LET places == {at \in 0 .. Len(lines) - Len(old) : SegmentMatches(lines, at, old)}
  IN  {at \in places : \A other \in places : at <= other}

FindUniqueSegmentPosition(lines, old) ==
  LET places == {at \in 0 .. Len(lines) - Len(old) : SegmentMatches(lines, at, old)}
  IN  IF Cardinality(places) = 1 THEN places ELSE {}

(* A chunk that removes nothing goes to the end of the file.               *)
ApplyStrictChunk(state, chunk) ==
  LET places == IF chunk.old = <<>> THEN {Len(state.lines)}
                                    ELSE FindUniqueSegmentPosition(state.lines, chunk.old)
  IN  IF ~state.ok \/ places = {}
        THEN Refused
        ELSE Patched(Splice(state.lines, CHOOSE at \in places : TRUE, Len(chunk.old), chunk.new))

ApplyStrictChunks(lines, chunks) == FoldLeft(ApplyStrictChunk, Patched(lines), chunks)
=============================================================================
