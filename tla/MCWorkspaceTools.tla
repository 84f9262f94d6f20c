-------------------------- MODULE MCWorkspaceTools --------------------------
(* Contents and patches for TLC.                                           *)
EXTENDS WorkspaceTools

Long == <<"b", "a", "b", "a", "b", "b", "a">>
MCInitial == {<<>>, <<"a">>, <<"a", "b">>, <<"c", "a", "b">>, Long}
MCContents == {<<"b">>, <<"c">>}

(* Codex operations.                                                       *)
Chunk(old, new) == [old |-> old, new |-> new]
Op(kind, path, move) == [kind |-> kind, path |-> path, move |-> move]

StrictOps ==
  UNION {{Op("add", p, None) @@ [lines |-> <<"c">>], Op("delete", p, None)}
         \cup {Op("update", p, m) @@ [chunks |-> cs] :
                 m \in {None} \cup (Paths \ {p}),
                 cs \in {<<>>, <<Chunk(<<"a">>, <<"c">>)>>,
                         <<Chunk(<<"a", "b">>, <<"b">>), Chunk(<<>>, <<"a">>)>>}}
         : p \in Paths \ Protected}
    \cup {Op("add", p, None) @@ [lines |-> <<"c">>] : p \in Protected}

(* Unified diffs of one or two edits, each with a line of context where    *)
(* there is one.  An edit replaces len lines after the first at by new.    *)
Edits(base) == {e \in [at : 0 .. Len(base), len : 0 .. 1, new : {<<>>, <<"c">>, <<"a", "b">>}] :
                  e.at + e.len <= Len(base) /\ (e.len = 0 => e.new # <<>>)}

HunkOf(base, e) ==
  LET from == IF e.at > 0 THEN e.at - 1 ELSE 0
      to == IF e.at + e.len < Len(base) THEN e.at + e.len + 1 ELSE Len(base)
  IN  [old_start |-> IF from = to THEN 0 ELSE from + 1,
       old |-> SubSeq(base, from + 1, to),
       new |-> SubSeq(base, from + 1, e.at) \o e.new \o SubSeq(base, e.at + e.len + 1, to)]

Modify(p, base, es) ==
  Op("modify", p, None)
    @@ [hunks |-> [i \in DOMAIN es |-> HunkOf(base, es[i])], base |-> base,
        intended |-> FoldRight(LAMBDA e, lines : Splice(lines, e.at, e.len, e.new), es, base)]

DiffOps ==
  UNION {{Modify(p, base, <<e>>) : e \in Edits(base)} : p \in {"p"}, base \in MCInitial}
    \cup UNION {{Modify(p, Long, <<e, f>>) : f \in {f \in Edits(Long) : f.at >= e.at + e.len + 2}}
                : p \in {"p"}, e \in Edits(Long)}
    \cup UNION {{Op("create", p, None) @@ [hunks |-> <<[old_start |-> 0, old |-> <<>>, new |-> <<"c">>]>>],
                 Op("remove", p, None) @@ [base |-> <<"a">>, hunks |-> <<[old_start |-> 1, old |-> <<"a">>, new |-> <<>>]>>]}
                : p \in Paths}

MCCalls == [claude |-> 3, codex |-> 1]

MCPatches ==
  {<<o>> : o \in StrictOps \cup DiffOps} \cup {<<o, o2>> : o, o2 \in StrictOps}
=============================================================================
