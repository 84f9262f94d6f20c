---------------------------- MODULE TrainingData ----------------------------
(***************************************************************************)
(* What pycodeagent/rl computes between a run's trajectory and a packed    *)
(* training sequence: serialization into segments, the character mask, the *)
(* tokens and their labels, packing, the contract checks, and the samples  *)
(* the trainer's bridge takes out again.                                   *)
(*                                                                         *)
(* A text is the run it serializes and its length: its character i is the  *)
(* i-th of that run, and a token is the run and the characters it covers.  *)
(* A task stands for the task_id and tool_profile_id that make a sample_id.*)
(***************************************************************************)
EXTENDS Integers, Sequences, FiniteSets, SequencesExt

CONSTANT Wrap   \* characters that rendering adds around a segment's content

ASSUME TrainingDataConstants == Wrap \in Nat \ {0}

IGNORE_INDEX == <<>>

(* Where parts of these lengths end when they are laid end to end.         *)
Ends(lengths) ==
  LET end[i \in 0 .. Len(lengths)] == IF i = 0 THEN 0 ELSE end[i - 1] + lengths[i]
  IN  end
Total(lengths) == Ends(lengths)[Len(lengths)]

(* The elements of S in order, before[x] being those that come before x.   *)
InOrder(S, before) ==
  [k \in 1 .. Cardinality(S) |-> CHOOSE x \in S : Cardinality(before[x]) = k - 1]

-----------------------------------------------------------------------------
(* From trajectory to sample.                                              *)

Segment(kind, content, trainable) ==
  [kind |-> kind, length |-> Wrap + content, trainable |-> trainable]

SerializeMessage(m) ==
  IF m.role = "assistant"
    THEN (IF m.content > 0 THEN <<Segment("assistant", m.content, FALSE)>> ELSE <<>>)
         \o [i \in DOMAIN m.calls |-> Segment("assistant_tool_call", m.calls[i], TRUE)]
    ELSE <<Segment(m.role, m.content, FALSE)>>

SerializeTrajectory(t) ==
  FlattenSeq([i \in DOMAIN t.messages |-> SerializeMessage(t.messages[i])])

Lengths(segments) == [i \in DOMAIN segments |-> segments[i].length]
Joined(segments) == Total(Lengths(segments))

CharacterMask(segments) ==
  FlattenSeq([i \in DOMAIN segments |->
                [c \in 1 .. segments[i].length |-> IF segments[i].trainable THEN 1 ELSE 0]])

LossSpans(segments) ==
  LET end == Ends(Lengths(segments))
  IN  [i \in DOMAIN segments |->
         [start |-> end[i - 1], end |-> end[i], trainable |-> segments[i].trainable]]

Ones(s) == Cardinality({k \in DOMAIN s : s[k] = 1})

BuildTrainingSample(t) ==
  LET segments == SerializeTrajectory(t)
      mask == CharacterMask(segments)
  IN  [run |-> t.run, task |-> t.task, status |-> t.status, passed |-> t.passed = "passed",
       text |-> Joined(segments), segments |-> segments, character_mask |-> mask,
       spans |-> LossSpans(segments), trainable_char_count |-> Ones(mask)]

(* A rollout is the sample without its identity, with one more count.      *)
BuildSlimeRollout(s) ==
  [run |-> s.run, task |-> s.task, status |-> s.status, passed |-> s.passed,
   text |-> s.text, segments |-> s.segments, character_mask |-> s.character_mask,
   spans |-> s.spans, trainable_char_count |-> s.trainable_char_count,
   total_char_count |-> s.text]

(* PreparedSample refuses what fails this, when built and when loaded.     *)
PreparedSampleValid(s) ==
  /\ s.text = Len(s.character_mask)
  /\ Range(s.character_mask) \subseteq {0, 1}
  /\ Ones(s.character_mask) = s.trainable_char_count
  /\ \A i \in DOMAIN s.segments :
       s.segments[i].trainable => s.segments[i].kind = "assistant_tool_call"
  /\ s.spans = LossSpans(s.segments)
  /\ s.text = Joined(s.segments)
  /\ s.character_mask = CharacterMask(s.segments)

(* The bundle's order; Python's sort keeps the order of equal keys.        *)
OrderSamples(samples) ==
  LET Precedes(j, i) == \/ samples[j].task < samples[i].task
                        \/ samples[j].task = samples[i].task /\ j < i
      before == [i \in DOMAIN samples |-> {j \in DOMAIN samples : Precedes(j, i)}]
      order == InOrder(DOMAIN samples, before)
  IN  [k \in DOMAIN order |-> samples[order[k]]]

-----------------------------------------------------------------------------
(* From sample to tokens.                                                  *)

Upto(s, n) == SubSeq(s, 1, IF n < Len(s) THEN n ELSE Len(s))

(* The fake tokenizer cuts the text every chars_per_token characters.      *)
GetOffsets(text, chars_per_token) ==
  [k \in 1 .. (text + chars_per_token - 1) \div chars_per_token |->
     [start |-> (k - 1) * chars_per_token,
      end |-> IF k * chars_per_token < text THEN k * chars_per_token ELSE text]]

Encode(run, text, chars_per_token) ==
  LET offsets == GetOffsets(text, chars_per_token)
  IN  [k \in DOMAIN offsets |-> <<run, offsets[k].start, offsets[k].end>>]


(* Mutant: the mask is read one character late.                            *)
AlignCharacterMaskToTokens_late(mask, offsets) ==
  [k \in DOMAIN offsets |->
     IF \E i \in offsets[k].start + 1 .. offsets[k].end : i < Len(mask) /\ mask[i + 1] = 1
       THEN 1 ELSE 0]

AlignCharacterMaskToTokens(mask, offsets) ==
  [k \in DOMAIN offsets |->
     IF \E i \in offsets[k].start .. offsets[k].end - 1 : i < Len(mask) /\ mask[i + 1] = 1
       THEN 1 ELSE 0]

TensorizeText(run, text, mask, config, metadata) ==
  LET train == Upto(AlignCharacterMaskToTokens(mask, GetOffsets(text, config.chars_per_token)),
                    config.max_length)
      ids == Upto(Encode(run, text, config.chars_per_token), config.max_length)
  IN  [input_ids |-> ids,
       attention_mask |-> [k \in DOMAIN ids |-> 1],
       labels |-> [k \in DOMAIN ids |-> IF train[k] = 1 THEN ids[k] ELSE IGNORE_INDEX],
       token_train_mask |-> train,
       metadata |-> metadata]

TensorizeSample(s, config) ==
  TensorizeText(s.run, s.text, s.character_mask, config,
                [task |-> s.task, run |-> s.run, trainable_char_count |-> s.trainable_char_count])

Tensorize(samples, config) ==
  [i \in DOMAIN samples |-> TensorizeSample(samples[i], config)]

-----------------------------------------------------------------------------
(* Packing.                                                                *)

Span(start, example, length) ==
  [start |-> start, length |-> length, metadata |-> example.metadata]

PackSingle(example, max_length) ==
  LET ids == Upto(example.input_ids, max_length)
  IN  [input_ids |-> ids,
       attention_mask |-> Upto(example.attention_mask, max_length),
       labels |-> Upto(example.labels, max_length),
       token_train_mask |-> Upto(example.token_train_mask, max_length),
       source_spans |-> <<Span(0, example, Len(ids))>>]

PackMultiple(examples) ==
  LET end == Ends([i \in DOMAIN examples |-> Len(examples[i].input_ids)])
  IN  [input_ids |-> FlattenSeq([i \in DOMAIN examples |-> examples[i].input_ids]),
       attention_mask |-> FlattenSeq([i \in DOMAIN examples |-> examples[i].attention_mask]),
       labels |-> FlattenSeq([i \in DOMAIN examples |-> examples[i].labels]),
       token_train_mask |-> FlattenSeq([i \in DOMAIN examples |-> examples[i].token_train_mask]),
       source_spans |-> [i \in DOMAIN examples |->
                           Span(end[i - 1], examples[i], Len(examples[i].input_ids))]]

ClosePack(acc) ==
  IF acc.current = <<>> THEN acc.sequences ELSE Append(acc.sequences, PackMultiple(acc.current))

PlaceExample(acc, e, max_length) ==
  LET n == Len(e.input_ids)
  IN  IF n > max_length
        THEN [acc EXCEPT !.sequences = Append(@, PackSingle(e, max_length))]
      ELSE IF acc.length + n <= max_length
        THEN [acc EXCEPT !.current = Append(@, e), !.length = @ + n]
      ELSE [sequences |-> ClosePack(acc), current |-> <<e>>, length |-> n]

(* The packing after each of the examples.                                 *)
Packing(examples, max_length) ==
  LET packed[i \in 0 .. Len(examples)] ==
        IF i = 0 THEN [sequences |-> <<>>, current |-> <<>>, length |-> 0]
                 ELSE PlaceExample(packed[i - 1], examples[i], max_length)
  IN  packed

PackExamples(examples, max_length) ==
  [sequences |-> ClosePack(Packing(examples, max_length)[Len(examples)]),
   total_examples |-> Len(examples)]

UnpackSequence(p) ==
  [i \in DOMAIN p.source_spans |->
     LET s == p.source_spans[i]
         Part(f) == SubSeq(f, s.start + 1, s.start + s.length)
     IN  [input_ids |-> Part(p.input_ids), attention_mask |-> Part(p.attention_mask),
          labels |-> Part(p.labels), token_train_mask |-> Part(p.token_train_mask),
          metadata |-> s.metadata]]

-----------------------------------------------------------------------------
(* The contract checks: each gives the codes of the issues it finds.       *)

Issue(holds, code) == IF holds THEN {} ELSE {code}

ValidateSpans(spans, text) ==
  UNION {Issue(spans[i].start >= 0 /\ spans[i].end >= spans[i].start /\ spans[i].end <= text,
               "span_bounds_error")
         \cup Issue(\A j \in 1 .. i - 1 : spans[i].start >= spans[j].end, "span_order_error")
         : i \in DOMAIN spans}

ValidateSample(s) ==
  Issue(s.text = Len(s.character_mask), "mask_length_mismatch")
    \cup Issue(Ones(s.character_mask) = s.trainable_char_count, "trainable_char_count_mismatch")
    \cup Issue(Joined(s.segments) = s.text, "segment_text_mismatch")
    \cup ValidateSpans(s.spans, s.text)

ValidateRollout(r) ==
  ValidateSample(r) \cup Issue(r.text = r.total_char_count, "total_char_count_mismatch")

ValidatePair(s, r) ==
  Issue(/\ s.task = r.task /\ s.status = r.status /\ s.passed = r.passed
        /\ s.run = r.run /\ s.text = r.text
        /\ s.character_mask = r.character_mask
        /\ s.trainable_char_count = r.trainable_char_count,
        "sample_rollout_field_mismatch")

ValidateRolloutDatasetSource(dataset, rollouts, samples) ==
  Issue(dataset.rollout_count = Len(rollouts), "manifest_rollout_count_mismatch")
    \cup Issue(dataset.sample_count = Len(samples), "manifest_sample_count_mismatch")
    \cup Issue(Len(rollouts) = Len(samples), "sample_rollout_count_mismatch")
    \cup UNION {ValidateSample(samples[i]) \cup ValidateRollout(rollouts[i])
                  \cup ValidatePair(samples[i], rollouts[i])
                : i \in DOMAIN rollouts \cap DOMAIN samples}

LabelIssues(e) ==
  LET ids == e.input_ids  train == e.token_train_mask
  IN  Issue(/\ Len(e.attention_mask) = Len(ids) /\ Len(e.labels) = Len(ids)
            /\ Len(train) = Len(ids), "length_mismatch")
        \cup UNION {Issue(train[k] \in {0, 1}, "train_mask_value_error")
                      \cup Issue(train[k] = 0 => e.labels[k] = IGNORE_INDEX, "label_mask_mismatch")
                      \cup Issue(train[k] = 1 => e.labels[k] = ids[k], "label_token_mismatch")
                    : k \in DOMAIN ids \cap DOMAIN e.labels \cap DOMAIN train}

(* Mutant: an example may lose every trainable token to the truncation.    *)
ValidateTokenizedExample_cut(e, prefix) == LabelIssues(e)

(* Only the examples as tokenized, not those taken out of the packs, must  *)
(* keep a trainable token.                                                 *)
ValidateTokenizedExample(e, prefix) ==
  LabelIssues(e)
    \cup Issue(prefix = "tokenized" /\ e.metadata.trainable_char_count > 0
                 => Ones(e.token_train_mask) > 0,
               "tokenized_no_trainable_tokens")

ValidateExamples(examples, prefix) ==
  UNION {ValidateTokenizedExample(examples[i], prefix) : i \in DOMAIN examples}

ValidatePacked(packed) ==
  UNION {ValidateExamples(UnpackSequence(packed.sequences[q]), "packed")
         : q \in DOMAIN packed.sequences}

UnpackedCount(packed) ==
  Total([q \in DOMAIN packed.sequences |-> Len(packed.sequences[q].source_spans)])


(* Mutant: the tokenized examples themselves are not checked.              *)
VerifyPreparedBundle_packs(samples, tokenized, packed, initial_issues, allow_empty) ==
  initial_issues
    \cup Issue(samples # <<>> \/ allow_empty, "prepared_empty_bundle")
    \cup Issue(\A i, j \in DOMAIN samples : samples[i].task = samples[j].task => i = j,
               "prepared_duplicate_sample_id")
    \cup ValidatePacked(packed)

VerifyPreparedBundle(samples, tokenized, packed, initial_issues, allow_empty) ==
  initial_issues
    \cup Issue(samples # <<>> \/ allow_empty, "prepared_empty_bundle")
    \cup Issue(\A i, j \in DOMAIN samples : samples[i].task = samples[j].task => i = j,
               "prepared_duplicate_sample_id")
    \cup Issue(Len(samples) = Len(tokenized), "prepared_tokenized_count_mismatch")
    \cup ValidateExamples(tokenized, "tokenized")
    \cup UNION {Issue(tokenized[i].metadata.task = samples[i].task, "prepared_id_not_preserved")
                : i \in DOMAIN tokenized \cap DOMAIN samples}
    \cup Issue(packed.total_examples = Len(tokenized), "prepared_packed_example_count_mismatch")
    \cup ValidatePacked(packed)
    \cup Issue(UnpackedCount(packed) = Len(tokenized), "prepared_unpack_count_mismatch")

(* The verify command tokenizes the rollouts, and packs to its own length. *)
VerifyDatasetDir(dataset, rollouts, samples, config, pack_max_length) ==
  LET tokenized == Tensorize(rollouts, config)
  IN  ValidateRolloutDatasetSource(dataset, rollouts, samples)
        \cup ValidateExamples(tokenized, "tokenized")
        \cup ValidatePacked(PackExamples(tokenized, pack_max_length))

-----------------------------------------------------------------------------
(* The trainer's side: slime_bridge.py turns each rollout into one sample, *)
(* or raises and gives none at all.                                        *)

Raises == [tokens |-> <<>>, response_length |-> 0, loss_mask |-> <<>>]

RolloutToSlimeTrainSample(r, config) ==
  LET example == TensorizeSample(r, config)
      train == example.token_train_mask
      trained == {k \in DOMAIN train : train[k] = 1}
      first == CHOOSE k \in trained : \A j \in trained : k <= j
  IN  IF trained = {}
        THEN Raises
        ELSE [tokens |-> example.input_ids,
              response_length |-> Len(example.input_ids) - first + 1,
              loss_mask |-> SubSeq(train, first, Len(train))]
=============================================================================
