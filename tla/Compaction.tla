------------------------------ MODULE Compaction ------------------------------
(***************************************************************************)
(* Which messages of the request history a model call is shown: the        *)
(* selection policies of pycodeagent/agent/compaction.py.  Every operator  *)
(* here is a function of the request messages, the limits and the session; *)
(* nothing is changed by planning.                                         *)
(*                                                                         *)
(* A message is its role, its estimated size in tokens, and what it says:  *)
(* ref = i is the text of trajectory message i, ref = -t the summary       *)
(* written at turn t.  A position is an index of the list that is given.   *)
(***************************************************************************)
EXTENDS Integers, Sequences, FiniteSets, FiniteSetsExt, SequencesExt

CONSTANTS
    NoLimit,        \* a limit that is None
    Reserve,        \* tool_token_reserve + response_token_reserve
    SummaryHeader,  \* tokens of a deterministic summary's fixed lines
    SummaryLine     \* tokens of its line about one compacted turn

ASSUME CompactionAssumption ==
    /\ NoLimit \notin Nat
    /\ {Reserve, SummaryHeader, SummaryLine} \subseteq Nat

ContextPolicyMode == {"full_history", "tail_window",
                      "deterministic_compaction", "model_backed_compaction"}

\* The k-th smallest of a set of positions.
Nth(positions, k) ==
    CHOOSE i \in positions : Cardinality({j \in positions : j <= i}) = k

\* The items of a list at a set of positions, in the list's order.
At(list, positions) ==
    [k \in 1..Cardinality(positions) |-> list[Nth(positions, k)]]

-----------------------------------------------------------------------------
(* Budgets. *)

estimate_messages_tokens(messages) ==
    FoldLeft(LAMBDA total, m : total + m.size, 0, messages)

message_count_allows(messages, limits) ==
    limits.messages # NoLimit => Len(messages) <= limits.messages

token_budget_allows(messages, limits) ==
    limits.tokens # NoLimit =>
        estimate_messages_tokens(messages) + Reserve <= limits.tokens

Fits(messages, limits) ==
    /\ message_count_allows(messages, limits)
    /\ token_budget_allows(messages, limits)

-----------------------------------------------------------------------------
(* Turns. *)

\* Mutant: only system messages are pinned.
Mut_pinned_indices(messages) ==
    {i \in DOMAIN messages : messages[i].role = "system"}

\* System and user messages are never dropped, a summary among them.
pinned_indices(messages) ==
    {i \in DOMAIN messages : messages[i].role \in {"system", "user"}}

\* Mutant: a turn is its assistant message alone.
Mut_build_turn_ranges(messages) ==
    LET ordinal(i) == Cardinality({j \in 1..i : messages[j].role = "assistant"})
    IN  [turn \in 1..ordinal(Len(messages)) |->
            {i \in DOMAIN messages : messages[i].role = "assistant" /\ ordinal(i) = turn}]

\* One range per assistant message, numbered from 1 in the list that is given,
\* with the tool results up to the next assistant message.
build_turn_ranges(messages) ==
    LET ordinal(i) == Cardinality({j \in 1..i : messages[j].role = "assistant"})
    IN  [turn \in 1..ordinal(Len(messages)) |->
            {i \in DOMAIN messages \ pinned_indices(messages) : ordinal(i) = turn}]

\* The first turn to leave alone, 0 for None: that of the pending issue or of
\* the last successful validation, whichever is earlier.
preserve_from_turn(session) ==
    LET turns == {session.issue, session.validated} \ {0}
    IN  IF turns = {} THEN 0 ELSE Min(turns)

-----------------------------------------------------------------------------
(* The policies.  A plan says which positions of the request history stay     *)
(* (included), which are replaced (compacted, the turns by their numbers in   *)
(* the list) and by which summary, the turn it meant to leave alone from, and *)
(* what it says of the budget.                                                *)

NoSummary == [role |-> "system", size |-> 0, ref |-> 0]

\* Mutant: what was selected is taken to fit.
Mut_Selection(messages, limits, included, considered) ==
    [ included |-> included, considered |-> considered,
      applied |-> included # DOMAIN messages, compacted |-> {}, turns |-> {},
      preserved |-> 0, summary |-> NoSummary, satisfied |-> TRUE ]

\* The plan that shows the messages at included and writes no summary.
Selection(messages, limits, included, considered) ==
    [ included   |-> included,
      considered |-> considered,
      applied    |-> included # DOMAIN messages,
      compacted  |-> {},
      turns      |-> {},
      preserved  |-> 0,
      summary    |-> NoSummary,
      satisfied  |-> token_budget_allows(At(messages, included), limits) ]

select_full_history(messages, limits) ==
    Selection(messages, limits, DOMAIN messages, FALSE)

\* From the newest back, a message is taken exactly when it fits beside the
\* pinned ones and the newer ones taken: one that does not is passed over, and
\* an older, smaller one may be taken.
select_tail_window(messages, limits) ==
    LET pinned   == pinned_indices(messages)
        loose    == DOMAIN messages \ pinned
        room     == Max({limits.messages - Cardinality(pinned), 0})
        Allowed(candidate) ==
            /\ limits.messages # NoLimit => Cardinality(candidate) <= room
            /\ token_budget_allows(At(messages, pinned \cup candidate), limits)
        taken    == CHOOSE set \in SUBSET loose :
                        \A i \in loose :
                            i \in set <=> Allowed({j \in set : j > i} \cup {i})
    IN  IF limits.messages = NoLimit /\ limits.tokens = NoLimit
        THEN Selection(messages, limits, DOMAIN messages, FALSE)
        ELSE Selection(messages, limits, pinned \cup taken, TRUE)

render_deterministic_summary(turnCount, turn) ==
    [ role |-> "system",
      size |-> SummaryHeader + turnCount * SummaryLine,
      ref  |-> -turn ]

\* The list with what is at the positions replaced by one item, where the first
\* of them was.
Replaced(list, positions, item) ==
    LET first == Min(positions)
    IN  At(list, 1..(first - 1)) \o <<item>>
        \o At(list, {i \in DOMAIN list : i > first} \ positions)

\* Turns are compacted oldest first, until what is left fits or none is left
\* that may be compacted.
CompactTurns(messages, limits, ranges, candidates, preserve, turn) ==
    LET Compacted(k) == UNION {ranges[j] : j \in 1..k}
        Left(k)      == Replaced(messages, Compacted(k),
                                 render_deterministic_summary(k, turn))
        enough       == {k \in candidates : Fits(Left(k), limits)}
        last         == IF enough # {} THEN Min(enough) ELSE Max(candidates)
    IN  [ included   |-> DOMAIN messages \ Compacted(last),
          considered |-> TRUE,
          applied    |-> TRUE,
          compacted  |-> Compacted(last),
          turns      |-> 1..last,
          preserved  |-> preserve,
          summary    |-> render_deterministic_summary(last, turn),
          satisfied  |-> token_budget_allows(Left(last), limits) ]

\* Nothing is compacted when everything fits, when there is no turn yet, or when
\* every turn is to be left alone.
select_deterministic_compaction(messages, limits, session, turn) ==
    LET ranges     == build_turn_ranges(messages)
        preserve   == preserve_from_turn(session)
        candidates == {k \in DOMAIN ranges : preserve = 0 \/ k < preserve}
    IN  IF Fits(messages, limits) \/ candidates = {}
        THEN Selection(messages, limits, DOMAIN messages, ~Fits(messages, limits))
        ELSE CompactTurns(messages, limits, ranges, candidates, preserve, turn)

\* A model-backed plan starts as the deterministic one.
plan_request_context(policy, messages, limits, session, turn) ==
    CASE policy = "full_history" -> select_full_history(messages, limits)
      [] policy = "tail_window"  -> select_tail_window(messages, limits)
      [] policy \in {"deterministic_compaction", "model_backed_compaction"} ->
            select_deterministic_compaction(messages, limits, session, turn)

Compacts(plan) == plan.summary # NoSummary

\* The model's summary takes the place of the deterministic one; the span and
\* what the plan says of the budget stay.
apply_model_backed_compaction_output(plan, size) ==
    [plan EXCEPT !.summary.size = size]
=============================================================================
