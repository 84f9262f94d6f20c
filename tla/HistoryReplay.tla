---------------------------- MODULE HistoryReplay ----------------------------
(***************************************************************************)
(* The checks the repository makes of a run's two history logs, and the    *)
(* replays they rest on: history_replay.py, history_verify.py,             *)
(* history_lineage.py, history_evolution.py and history_reconciliation.py  *)
(* under pycodeagent/agent/.  They read the logs only.                     *)
(*                                                                         *)
(* log is the retained history, a sequence of entries whose ids are their  *)
(* positions; contexts is the request-context log, one entry per request.  *)
(* An id of 0 is None.  Where the code collects error strings, the         *)
(* operators say whether there is none.                                    *)
(***************************************************************************)
EXTENDS Compaction

\* The entries that carry a message: retained_entry_to_message is not None.
Replayable(log, id) ==
    /\ id \in DOMAIN log
    /\ log[id].kind \in {"source_message", "replacement_summary"}

Messages(log, ids) == [k \in DOMAIN ids |-> log[ids[k]].message]

SelectedReplays(ctx, log) == \A k \in DOMAIN ctx.selected : Replayable(log, ctx.selected[k])

reconstruct_selected_messages(ctx, log) == Messages(log, ctx.selected)

-----------------------------------------------------------------------------
(* What the request history was before a compaction: the messages that stayed *)
(* and those the summary stands for, sorted by their place in the trajectory. *)

Kept(ctx) == At(ctx.selected, {k \in DOMAIN ctx.selected : ctx.selected[k] # ctx.summary})

PreCompactionReplays(ctx, log) ==
    IF ~ctx.active
    THEN SelectedReplays(ctx, log)
    ELSE /\ ctx.summary \in DOMAIN log
         /\ LET summary == log[ctx.summary]
            IN  /\ Len(summary.entries) = Len(summary.sources)
                /\ \A k \in DOMAIN summary.entries : Replayable(log, summary.entries[k])
         /\ \A k \in DOMAIN Kept(ctx) :
                Replayable(log, Kept(ctx)[k]) /\ log[Kept(ctx)[k]].source # 0

\* Sorting by the place; equal places stay in the order they are in.
Rank(pairs, i) ==
    Cardinality({j \in DOMAIN pairs : \/ pairs[j].at < pairs[i].at
                                      \/ pairs[j].at = pairs[i].at /\ j <= i})

Sorted(pairs) ==
    [k \in DOMAIN pairs |-> pairs[CHOOSE i \in DOMAIN pairs : Rank(pairs, i) = k]]

Pairs(ctx, log) ==
    LET summary == log[ctx.summary]
    IN  [k \in DOMAIN Kept(ctx) |-> [at |-> log[Kept(ctx)[k]].source, id |-> Kept(ctx)[k]]]
        \o [k \in DOMAIN summary.entries |->
               [at |-> summary.sources[k], id |-> summary.entries[k]]]

reconstruct_pre_compaction_messages(ctx, log) ==
    LET ordered_pairs == Sorted(Pairs(ctx, log))
    IN  IF ctx.active
        THEN [k \in DOMAIN ordered_pairs |-> log[ordered_pairs[k].id].message]
        ELSE reconstruct_selected_messages(ctx, log)

\* The request again, from the list before the compaction: the summary where
\* the first message it stands for was.
PostCompactionReplays(ctx, log) ==
    /\ PreCompactionReplays(ctx, log)
    /\ ctx.active =>
         /\ log[ctx.summary].sources # <<>>
         /\ Len(reconstruct_pre_compaction_messages(ctx, log))
              = Cardinality({id \in Range(log[ctx.summary].entries) \cup Range(Kept(ctx)) :
                                log[id].source # 0})

reconstruct_post_compaction_messages_from_pre_compaction(ctx, log) ==
    LET summary == log[ctx.summary]
        pre     == reconstruct_pre_compaction_messages(ctx, log)
        places  == {log[id].source : id \in Range(summary.entries) \cup Range(Kept(ctx))} \ {0}
        gone    == {k \in 1..Cardinality(places) : Nth(places, k) \in Range(summary.sources)}
    IN  Replaced(pre, gone, summary.message)

-----------------------------------------------------------------------------
(* The reports. *)

\* history_verify: one request against the retained history.
verify_request_context_entry(ctx, log) ==
    /\ Range(ctx.selected) \cup Range(ctx.omitted) \subseteq DOMAIN log
    /\ SelectedReplays(ctx, log)
    /\ ctx.selected # <<>> => Len(ctx.selected) = ctx.request_message_count
    /\ IF ctx.active
       THEN /\ 0 \notin {ctx.summary, ctx.carried, ctx.record}
            /\ {ctx.summary, ctx.carried} \subseteq DOMAIN log
            /\ log[ctx.summary].kind = "replacement_summary"
            /\ log[ctx.summary].entries = ctx.omitted
            /\ log[ctx.summary].record = ctx.record
            /\ log[ctx.carried].kind = "carry_forward_state"
            /\ log[ctx.carried].record = ctx.record
            /\ ctx.summary \in Range(ctx.selected)
            /\ ctx.carried \notin Range(ctx.selected)
            /\ PostCompactionReplays(ctx, log)
            /\ Len(reconstruct_pre_compaction_messages(ctx, log)) = ctx.items_before
            /\ reconstruct_post_compaction_messages_from_pre_compaction(ctx, log)
                 = reconstruct_selected_messages(ctx, log)
       ELSE {ctx.summary, ctx.carried, ctx.record} = {0}

\* history_lineage: one replacement record across the logs.
LineageRecordOk(ctx, log) ==
    /\ {ctx.summary, ctx.carried} \subseteq DOMAIN log
    /\ log[ctx.summary].kind = "replacement_summary"
    /\ log[ctx.summary].record = ctx.record
    /\ log[ctx.carried].kind = "carry_forward_state"
    /\ log[ctx.carried].record = ctx.record
    /\ Cardinality({id \in DOMAIN log : /\ log[id].turn = ctx.turn
                                        /\ log[id].kind = "history_control"
                                        /\ log[id].control = "compaction_artifact"}) = 1
    /\ \A id \in Range(log[ctx.summary].entries) :
            id \in DOMAIN log /\ log[id].kind = "source_message"
    /\ ctx.summary \in Range(ctx.selected)
    /\ ctx.carried \notin Range(ctx.selected)

build_history_lineage_report(contexts, log) ==
    \A k \in DOMAIN contexts :
        (contexts[k].active /\ contexts[k].record # 0) => LineageRecordOk(contexts[k], log)

\* history_reconciliation: the lineage, and both replays of the record's turn.
build_history_reconciliation_bundle(contexts, log) ==
    \A k \in DOMAIN contexts :
        (contexts[k].active /\ contexts[k].record # 0) =>
            /\ LineageRecordOk(contexts[k], log)
            /\ SelectedReplays(contexts[k], log)
            /\ PreCompactionReplays(contexts[k], log)

\* The source messages logged from one entry to another.
AppendedSources(log, from, to) ==
    LET ids == [j \in 1..(to - from) |-> from + j]
    IN  Messages(log, At(ids, {j \in DOMAIN ids : log[ids[j]].kind = "source_message"}))

\* history_evolution: what request k shows before its own compaction is the
\* previous request with the source messages logged in between.
EvolutionOk(contexts, log, k) ==
    LET ctx == contexts[k]
        pre == reconstruct_pre_compaction_messages(ctx, log)
    IN  /\ SelectedReplays(ctx, log)
        /\ PreCompactionReplays(ctx, log)
        /\ IF k = 1
           THEN Len(pre) = Len(AppendedSources(log, 0, ctx.retained_before))
           ELSE LET prev == contexts[k - 1]
                IN  /\ SelectedReplays(prev, log)
                    /\ pre = reconstruct_selected_messages(prev, log)
                             \o AppendedSources(log, prev.retained_after, ctx.retained_before)

=============================================================================
