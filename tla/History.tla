------------------------------- MODULE History -------------------------------
(***************************************************************************)
(* The request history of one run: the trajectory only grows, the runtime  *)
(* keeps beside it the list of items the model is shown, and a compaction  *)
(* replaces part of that list by a summary, for the request at hand and    *)
(* for every later one (pycodeagent/agent/history_manager.py, the loop of  *)
(* runner.py around it, retained_history.py and request_context.py).       *)
(*                                                                         *)
(* An action is a stretch of the loop between two model calls.  What the   *)
(* model answers, and what the recovery state makes of it, is chosen; the  *)
(* recovery state itself is modelled in Recovery.                          *)
(***************************************************************************)
EXTENDS HistoryReplay

CONSTANTS
    Policies,         \* the context policies runs are started with
    MessageLimits,    \* their context_max_messages, NoLimit for None
    TokenLimits,      \* their context_max_tokens, NoLimit for None
    Sizes,            \* sizes of the messages the model and the tools produce
    MaxCalls,         \* the most tool calls in one answer
    MaxTurns          \* task.max_turns

ASSUME HistoryAssumption ==
    /\ Policies \subseteq ContextPolicyMode
    /\ MessageLimits \cup TokenLimits \subseteq Nat \cup {NoLimit}
    /\ Sizes \subseteq Nat
    /\ {MaxCalls, MaxTurns} \subseteq Nat

VARIABLES
    run,           \* what the run was started with: policy and limits
    trajectory,    \* the messages of the trajectory
    source_items,  \* the retained entry of each trajectory message synced so far
    request_items, \* the request history
    replacements,  \* replacement_history
    retained,      \* the retained history log
    contexts,      \* the request context log
    session,       \* opened_at_turn of the pending issue, last validated turn; 0 for None
    turn,          \* current_turn
    plan,          \* the context plan of this turn
    phase          \* where the loop is

vars == <<run, trajectory, source_items, request_items, replacements, retained,
          contexts, session, turn, plan, phase>>

RequestMessages == [k \in DOMAIN request_items |-> request_items[k].message]

NoPlan == Selection(<<>>, [messages |-> NoLimit, tokens |-> NoLimit], {}, FALSE)

-----------------------------------------------------------------------------
(* Retained history. *)

NoEntry == [turn |-> 0, kind |-> "none", source |-> 0, message |-> NoSummary,
            record |-> 0, entries |-> <<>>, sources |-> <<>>, control |-> "none"]

\* Mutant: the trajectory index is taken before the message is counted.
Mut_append_source_message(t, i, message) ==
    [NoEntry EXCEPT !.turn = t, !.kind = "source_message", !.source = i - 1, !.message = message]

append_source_message(t, i, message) ==
    [NoEntry EXCEPT !.turn = t, !.kind = "source_message", !.source = i, !.message = message]

append_replacement_summary(t, record, message, entries, sources) ==
    [NoEntry EXCEPT !.turn = t, !.kind = "replacement_summary", !.record = record,
                    !.message = message, !.entries = entries, !.sources = sources]

\* Mutant: the state is filed under the record before.
Mut_append_carried_forward_state(t, record) ==
    [NoEntry EXCEPT !.turn = t, !.kind = "carry_forward_state", !.record = record - 1]

append_carried_forward_state(t, record) ==
    [NoEntry EXCEPT !.turn = t, !.kind = "carry_forward_state", !.record = record]

append_history_control(t, control) ==
    [NoEntry EXCEPT !.turn = t, !.kind = "history_control", !.control = control]

\* What sync_source_messages makes of the trajectory messages it has not seen:
\* an entry of the retained history each, and an item of the request history.
Unsynced == At(trajectory, {i \in DOMAIN trajectory : i > Len(source_items)})

NewEntries(t) ==
    [k \in DOMAIN Unsynced |-> append_source_message(t, Len(source_items) + k, Unsynced[k])]

NewItems ==
    [k \in DOMAIN Unsynced |-> [message |-> Unsynced[k],
                                source  |-> Len(source_items) + k,
                                record  |-> 0,
                                entry   |-> Len(retained) + k]]

sync_source_messages(t) ==
    /\ retained' = retained \o NewEntries(t)
    /\ source_items' = source_items \o [k \in DOMAIN NewItems |-> NewItems[k].entry]
    /\ request_items' = request_items \o NewItems

-----------------------------------------------------------------------------
(* The loop. *)

FirstMessages == <<[role |-> "system", size |-> 1, ref |-> 1],
                   [role |-> "user",   size |-> 1, ref |-> 2]>>

\* from_trajectory_messages: the two prompts are synced before the first turn.
Init ==
    /\ run \in [policy : Policies,
                limits : [messages : MessageLimits, tokens : TokenLimits]]
    /\ trajectory = FirstMessages
    /\ source_items = <<1, 2>>
    /\ request_items = [k \in 1..2 |-> [message |-> FirstMessages[k], source |-> k,
                                        record |-> 0, entry |-> k]]
    /\ replacements = <<>>
    /\ retained = [k \in 1..2 |-> append_source_message(0, k, FirstMessages[k])]
    /\ contexts = <<>>
    /\ session = [issue |-> 0, validated |-> 0]
    /\ turn = 0
    /\ plan = NoPlan
    /\ phase = IF MaxTurns > 0 THEN "loop" ELSE "ending"

\* A turn begins: what the last one added is synced, and the request is planned
\* on the request history as it now is.
BeginTurn ==
    /\ phase = "loop"
    /\ turn' = turn + 1
    /\ sync_source_messages(turn)
    /\ plan' = plan_request_context(
                   run.policy,
                   RequestMessages \o [k \in DOMAIN NewItems |-> NewItems[k].message],
                   run.limits, session, turn')
    /\ phase' = IF run.policy = "model_backed_compaction" /\ Compacts(plan')
                THEN "compaction_call" ELSE "snapshot"
    /\ UNCHANGED <<run, trajectory, replacements, contexts, session>>

\* The client answers the compaction request with a summary of the planned span.
ModelCompacts(size) ==
    /\ phase = "compaction_call"
    /\ plan' = apply_model_backed_compaction_output(plan, size)
    /\ phase' = "snapshot"
    /\ UNCHANGED <<run, trajectory, source_items, request_items, replacements,
                   retained, contexts, session, turn>>

\* The client cannot be asked, fails, or answers something unusable (no
\* structured output, not the schema, another span): the deterministic plan
\* stands.
ModelFallsBack ==
    /\ phase = "compaction_call"
    /\ phase' = "snapshot"
    /\ UNCHANGED <<run, trajectory, source_items, request_items, replacements,
                   retained, contexts, session, turn, plan>>

\* _apply_compaction_replacement: the record, the entries it logs, and the
\* request history with the summary in it.
Compacted == At(request_items, plan.compacted)

RecordId == Len(replacements) + 1

apply_compaction_replacement ==
    LET first   == Len(retained)
        entries == [k \in DOMAIN Compacted |-> Compacted[k].entry]
        told    == {k \in DOMAIN Compacted : Compacted[k].source # 0}
        sources == At([k \in DOMAIN Compacted |-> Compacted[k].source], told)
    IN  [ record |-> [turn     |-> turn,
                      preserve |-> plan.preserved,
                      entries  |-> entries,
                      sources  |-> sources,
                      summary  |-> first + 1,
                      carried  |-> first + 2,
                      artifact |-> first + 3],
          logged |-> << append_replacement_summary(turn, RecordId, plan.summary,
                                                   entries, sources),
                        append_carried_forward_state(turn, RecordId),
                        append_history_control(turn, "compaction_artifact") >>,
          items  |-> Replaced(request_items, plan.compacted,
                              [message |-> plan.summary, source |-> 0,
                               record |-> RecordId, entry |-> first + 1]) ]

\* The request-context entry of this turn, for the items that are shown.
append_snapshot(items, log, record) ==
    LET shown == {items[k].source : k \in DOMAIN items} IN
    [ turn                  |-> turn,
      selected              |-> [k \in DOMAIN items |-> items[k].entry],
      omitted               |-> At(source_items, DOMAIN source_items \ shown),
      active                |-> \E k \in DOMAIN items : items[k].record # 0,
      summary               |-> IF record = 0 THEN 0 ELSE Len(retained) + 1,
      carried               |-> IF record = 0 THEN 0 ELSE Len(retained) + 2,
      record                |-> record,
      request_message_count |-> Len(items),
      items_before          |-> Len(request_items),
      retained_before       |-> Len(retained),
      retained_after        |-> Len(log),
      considered            |-> plan.considered,
      applied               |-> plan.applied,
      satisfied             |-> plan.satisfied ]

\* snapshot_from_plan and append_snapshot: a planned compaction is carried out on
\* the request history, the plan is logged, and so is the request.
Snapshot ==
    /\ phase = "snapshot"
    /\ LET applied == apply_compaction_replacement
           items   == IF Compacts(plan) THEN applied.items
                      ELSE At(request_items, plan.included)
           log     == retained \o (IF Compacts(plan) THEN applied.logged ELSE <<>>)
                               \o <<append_history_control(turn, "context_selection_plan")>>
       IN  /\ request_items' = IF Compacts(plan) THEN items ELSE request_items
           /\ replacements' = IF Compacts(plan) THEN Append(replacements, applied.record)
                              ELSE replacements
           /\ retained' = log
           /\ contexts' = Append(contexts,
                              append_snapshot(items, log,
                                              IF Compacts(plan) THEN RecordId ELSE 0))
    /\ plan' = NoPlan
    /\ phase' = "request"
    /\ UNCHANGED <<run, trajectory, source_items, session, turn>>

\* The model answers with calls, each gets its result, and the recovery state is
\* brought up to date: an issue stays, is settled or is opened in this turn, and
\* the validation may have succeeded in it.
Answer(sizes, goesOn) ==
    /\ phase = "request"
    /\ trajectory' = trajectory \o
          [k \in DOMAIN sizes |-> [role |-> IF k = 1 THEN "assistant" ELSE "tool",
                                   size |-> sizes[k],
                                   ref  |-> Len(trajectory) + k]]
    /\ session' \in [issue : {session.issue, 0, turn},
                     validated : {session.validated, turn}]
    /\ phase' = IF goesOn /\ turn < MaxTurns THEN "loop" ELSE "ending"
    /\ UNCHANGED <<run, source_items, request_items, replacements, retained,
                   contexts, turn, plan>>

\* The answer cannot be parsed at all: it is recorded, an issue is open, and the
\* runtime adds a message asking for a repair.
UnparsableAnswer(size) ==
    /\ phase = "request"
    /\ trajectory' = trajectory \o
          << [role |-> "assistant", size |-> size, ref |-> Len(trajectory) + 1],
             [role |-> "user", size |-> 1, ref |-> Len(trajectory) + 2] >>
    /\ session' \in [issue : {session.issue, turn}, validated : {session.validated}]
    /\ session'.issue # 0
    /\ phase' = IF turn < MaxTurns THEN "loop" ELSE "ending"
    /\ UNCHANGED <<run, source_items, request_items, replacements, retained,
                   contexts, turn, plan>>

\* The client raises: the run ends with what it has.
RequestFails ==
    /\ phase = "request"
    /\ phase' = "ending"
    /\ UNCHANGED <<run, trajectory, source_items, request_items, replacements,
                   retained, contexts, session, turn, plan>>

\* The loop is left: the last messages are synced.
Finish ==
    /\ phase = "ending"
    /\ sync_source_messages(turn)
    /\ phase' = "done"
    /\ UNCHANGED <<run, trajectory, replacements, contexts, session, turn, plan>>

Next ==
    \/ BeginTurn
    \/ \E size \in Sizes : ModelCompacts(size)
    \/ ModelFallsBack
    \/ Snapshot
    \/ \E calls \in 0..MaxCalls, goesOn \in BOOLEAN :
          \E sizes \in [1..(calls + 1) -> Sizes] : Answer(sizes, goesOn)
    \/ \E size \in Sizes : UnparsableAnswer(size)
    \/ RequestFails
    \/ Finish

Spec == Init /\ [][Next]_vars

-----------------------------------------------------------------------------
(* Properties. *)

\* The trajectory positions a list of request items shows.
Shows(items) == {items[k].source : k \in DOMAIN items} \ {0}

\* The session turn a trajectory message belongs to: every turn that is
\* answered adds one assistant message.
TurnOf(i) == Cardinality({j \in 1..i : trajectory[j].role = "assistant"})

\* However often the history is compacted, no message is lost and none is
\* told twice: every synced trajectory message is either still an item of
\* the request history or a source of exactly one replacement record whose
\* summary is an item, the items stay in trajectory order, each summary where
\* the messages it stands for were, and no system or user message is ever
\* replaced (sync_source_messages and _apply_compaction_replacement).
CompactionKeepsHistory ==
    LET Span(item) == IF item.record = 0 THEN {item.source}
                      ELSE Range(replacements[item.record].sources)
    IN  /\ \A i \in DOMAIN source_items :
              Cardinality({k \in DOMAIN request_items : i \in Span(request_items[k])}) = 1
        /\ \A i \in DOMAIN source_items :
              trajectory[i].role \in {"system", "user"} => i \in Shows(request_items)
        /\ \A k, l \in DOMAIN request_items :
              k < l => Min(Span(request_items[k])) < Min(Span(request_items[l]))

\* The trajectory positions request n showed.
Shown(n) == {retained[contexts[n].selected[k]].source : k \in DOMAIN contexts[n].selected} \ {0}

\* A request never shows a tool result without the answer that called for it,
\* nor an answer without its results: turns are dropped whole.  The tail window
\* drops message by message and is left out (_build_turn_ranges,
\* _select_deterministic_compaction).
WholeTurns ==
    run.policy # "tail_window" =>
        \A n \in DOMAIN contexts, t \in 1..(turn - 1) :
            LET whole == {i \in DOMAIN source_items \ pinned_indices(trajectory) : TurnOf(i) = t}
            IN  whole \cap Shown(n) \in {{}, whole}

\* token_budget_satisfied in a request's entry is the truth about the request
\* that was sent, summary and reserves included, whenever the summary is the
\* deterministic one (_build_context_selection, _build_snapshot_context_selection).
BudgetIsReported ==
    \A n \in DOMAIN contexts :
        run.policy # "model_backed_compaction" =>
            ( contexts[n].satisfied
              <=> token_budget_allows(reconstruct_selected_messages(contexts[n], retained),
                                      run.limits) )

\* Every replacement record of a run can be traced across the two logs, however
\* many there are: its summary, its carried-forward state, its one compaction
\* artifact, and the source entries it stands for (history_lineage.py).
LineageHolds == build_history_lineage_report(contexts, retained)

\* Up to and including the first compaction of a run, the logs pass every check
\* the repository makes of them: each request is consistent with the retained
\* history, can be replayed before and after the compaction, and continues the
\* request before it (history_verify.py, history_reconciliation.py,
\* history_evolution.py; the last is not meant for the tail window, which shows
\* a request less than the one before).
FirstCompactionVerifies ==
    \A n \in DOMAIN contexts :
        (\A m \in 1..(n - 1) : contexts[m].record = 0) =>
            LET sofar == SubSeq(contexts, 1, n)
            IN  /\ verify_request_context_entry(contexts[n], retained)
                /\ build_history_reconciliation_bundle(sofar, retained)
                /\ run.policy # "tail_window" => EvolutionOk(sofar, retained, n)

=============================================================================
