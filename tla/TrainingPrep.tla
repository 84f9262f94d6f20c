---------------------------- MODULE TrainingPrep ----------------------------
(***************************************************************************)
(* The prep and verify commands over one source of runs and one output     *)
(* directory (pycodeagent/rl: dataset_builder, training_prep,              *)
(* training_bundle, contract).  A prep writes ten files one after another, *)
(* over those of an earlier prep with other options, and may be killed in  *)
(* any of the writes; verify writes to a directory of its own.             *)
(*                                                                         *)
(* A file is absent, torn by a killed write, or whole; a checksum is what  *)
(* it digests.  A command reads its source once, when it starts, so runs   *)
(* that finish while it works are taken to finish after it.                *)
(***************************************************************************)
EXTENDS TrainingData

CONSTANTS
  Dirs,          \* run directories, by number: paths sort like numbers
  Trajectories,  \* what a run may leave in trajectory.json
  Layouts,       \* "batch": runs under the root; "campaign": attempts and records
  Filters,       \* the options include_failed and verifier_passed of a prep
  MaxLengths,    \* its option max_length
  CharsPerToken, \* of the fake tokenizer
  MaxCommands    \* bound: commands run

(* Only the assistant makes calls.                                         *)
Message == {m \in [role : STRING, content : Nat, calls : Seq(Nat)] :
              m.role # "assistant" => m.calls = <<>>}

ASSUME TrainingPrepConstants ==
  /\ Dirs \subseteq Nat /\ Layouts \subseteq {"batch", "campaign"}
  /\ MaxLengths \subseteq Nat \ {0} /\ CharsPerToken \in Nat \ {0} /\ MaxCommands \in Nat
  /\ IsFiniteSet(Dirs)
  /\ Trajectories \subseteq [task : Nat, status : STRING, passed : STRING, messages : Seq(Message)]
  /\ Filters \subseteq [include_failed : BOOLEAN, verifier_passed : {"none", "true", "false"}]

VARIABLES
  layout,    \* how the source is laid out
  source,    \* each run directory: its trajectory.json and its campaign record
  files,     \* the output directory
  job,       \* the prep under way: its next step and what it holds in memory
  outcome,   \* how the last prep ended
  verdict,   \* what the last verify said
  commands

vars == <<layout, source, files, job, outcome, verdict, commands>>

-----------------------------------------------------------------------------
(* State.                                                                  *)

None == "none"
Options == [filter : Filters, max_length : MaxLengths]
Artifact == {"samples", "tokenized", "packed", "tokenizer_config", "train_config", "report"}
File == Artifact \cup {"rollouts", "dataset", "manifest", "prep"}

Absent == [state |-> "absent"]
Torn == [state |-> "torn"]
Whole(content) == [state |-> "whole", content |-> content]

Step ==
  <<"rollouts", "dataset_samples", "dataset", "validate", "unlink", "samples", "tokenized",
    "packed", "tokenizer_config", "train_config", "report", "manifest", "prep">>
AfterStep(s) ==
  LET i == CHOOSE i \in DOMAIN Step : Step[i] = s IN IF i = Len(Step) THEN None ELSE Step[i + 1]
FileOf(s) == IF s = "dataset_samples" THEN "samples" ELSE s

Idle == [step |-> None]
Running(step) == job.step = step

-----------------------------------------------------------------------------
(* The dataset.                                                            *)

(* A campaign contributes only what its records name as finished, a batch  *)
(* every directory with a trajectory.                                      *)
Discovered ==
  {d \in Dirs : IF layout = "campaign" THEN source[d].record = "trajectory_recorded"
                                       ELSE source[d].trajectory # Absent}

Unloadable == \E d \in Discovered : source[d].trajectory \in {Absent, Torn}

PassesFilters(t, filter) ==
  /\ filter.include_failed \/ t.status = "completed"
  /\ \/ filter.verifier_passed = None
     \/ filter.verifier_passed = (IF t.passed = "passed" THEN "true" ELSE "false")

(* The trajectory of directory d, as loaded.                               *)
Loaded(d) ==
  LET t == source[d].trajectory.content
  IN  [run |-> d, task |-> t.task, status |-> t.status, passed |-> t.passed,
       messages |-> t.messages]

(* The samples of the loaded trajectories, in the order of their paths.    *)
Dataset(loaded) ==
  LET dirs == InOrder(DOMAIN loaded, [d \in DOMAIN loaded |-> {e \in DOMAIN loaded : e < d}])
  IN  [i \in DOMAIN dirs |-> BuildTrainingSample(loaded[dirs[i]])]

CollectDatasetRecords(filter) ==
  Dataset([d \in {d \in Discovered : PassesFilters(Loaded(d), filter)} |-> Loaded(d)])

Rollouts(samples) == [i \in DOMAIN samples |-> BuildSlimeRollout(samples[i])]

DatasetManifest(samples) == [sample_count |-> Len(samples), rollout_count |-> Len(samples)]

-----------------------------------------------------------------------------
(* Prep.                                                                   *)

Finish(how) == job' = Idle /\ outcome' = how

StartPrep ==
  /\ job = Idle /\ commands < MaxCommands
  /\ commands' = commands + 1
  /\ \E o \in Options :
       \/ /\ Unloadable
          /\ Finish("raised")
       \/ /\ ~Unloadable
          /\ job' = [step |-> "rollouts", options |-> o,
                     samples |-> CollectDatasetRecords(o.filter), issues |-> {}]
          /\ outcome' = None
  /\ UNCHANGED <<layout, source, files, verdict>>

Writes(step, content) ==
  /\ Running(step)
  /\ files' = [files EXCEPT ![FileOf(step)] = Whole(content)]
  /\ UNCHANGED <<layout, source, verdict, commands>>

Proceeds == job' = [job EXCEPT !.step = AfterStep(@)] /\ UNCHANGED outcome

WriteRollouts == Writes("rollouts", Rollouts(job.samples)) /\ Proceeds

(* The dataset writes the samples in another rendering than the bundle.    *)
WriteDatasetSamples ==
  Writes("dataset_samples", [by |-> "dataset", samples |-> job.samples]) /\ Proceeds

WriteDatasetManifest == Writes("dataset", DatasetManifest(job.samples)) /\ Proceeds

(* The source is read back from the files just written.                    *)
ValidateSource ==
  /\ Running("validate")
  /\ LET samples == files.samples.content.samples
     IN  IF \A i \in DOMAIN samples : PreparedSampleValid(samples[i])
           THEN /\ job' = [step |-> AfterStep("validate"), options |-> job.options,
                           samples |-> samples,
                           issues |-> ValidateRolloutDatasetSource(
                                        files.dataset.content, files.rollouts.content, samples)]
                /\ UNCHANGED outcome
           ELSE Finish("raised")
  /\ UNCHANGED <<layout, source, files, verdict, commands>>


(* Mutant: the manifest of an earlier prep stays.                          *)
UnlinkManifest_kept ==
  /\ Running("unlink")
  /\ Proceeds
  /\ UNCHANGED <<layout, source, files, verdict, commands>>

UnlinkManifest ==
  /\ Running("unlink")
  /\ files' = [files EXCEPT !.manifest = Absent]
  /\ Proceeds
  /\ UNCHANGED <<layout, source, verdict, commands>>

Config(o) == [max_length |-> o.max_length, chars_per_token |-> CharsPerToken]
Ordered == OrderSamples(job.samples)
Tokenized == Tensorize(Ordered, Config(job.options))
Packed == PackExamples(Tokenized, job.options.max_length)

WriteSamples == Writes("samples", [by |-> "bundle", samples |-> Ordered]) /\ Proceeds
WriteTokenized == Writes("tokenized", Tokenized) /\ Proceeds
WritePacked == Writes("packed", Packed.sequences) /\ Proceeds
WriteTokenizerConfig == Writes("tokenizer_config", Config(job.options)) /\ Proceeds
WriteTrainConfig == Writes("train_config", job.options.filter) /\ Proceeds

(* The report is written before a failed contract raises.                  *)
WriteReport ==
  LET issues == VerifyPreparedBundle(Ordered, Tokenized, Packed, job.issues, TRUE)
  IN  /\ Writes("report", [issues |-> issues, sample_count |-> Len(Ordered)])
      /\ IF issues = {} THEN Proceeds ELSE Finish("rejected")

WriteManifest ==
  /\ Writes("manifest", [artifacts |-> [a \in Artifact |-> files[a].content],
                         sample_count |-> Len(Ordered), tokenized_count |-> Len(Tokenized)])
  /\ Proceeds


(* Mutant: the artifacts exist, their checksums are not compared.          *)
ManifestVerifies_names ==
  /\ files.manifest.state = "whole"
  /\ \A a \in Artifact : files[a].state = "whole"

(* verify_training_bundle_manifest                                         *)
ManifestVerifies ==
  /\ files.manifest.state = "whole"
  /\ \A a \in Artifact : files[a] = Whole(files.manifest.content.artifacts[a])

FinishPrep ==
  /\ IF ManifestVerifies
       THEN Writes("prep", job.options) /\ Finish("ok")
       ELSE /\ Running("prep") /\ Finish("raised")
            /\ UNCHANGED <<layout, source, files, verdict, commands>>

(* The process is killed, in the middle of the file it writes or before.   *)
Kill ==
  /\ job # Idle
  /\ Finish("killed")
  /\ \/ UNCHANGED files
     \/ /\ job.step \notin {"validate", "unlink"}
        /\ files' = [files EXCEPT ![FileOf(job.step)] = Torn]
  /\ UNCHANGED <<layout, source, verdict, commands>>

-----------------------------------------------------------------------------
(* Verify, and the runs that feed both.                                    *)

VerifyCommand(o) ==
  /\ job = Idle /\ commands < MaxCommands
  /\ commands' = commands + 1
  /\ verdict' =
       IF Unloadable THEN "raised"
       ELSE LET samples == CollectDatasetRecords([o.filter EXCEPT !.verifier_passed = None])
                issues == VerifyDatasetDir(DatasetManifest(samples), Rollouts(samples), samples,
                                           Config(o), o.max_length)
            IN  IF issues = {} THEN "ok" ELSE "issues"
  /\ UNCHANGED <<layout, source, files, job, outcome>>

Verify == \E o \in Options : VerifyCommand(o)

(* A run leaves its trajectory, whole or torn by a kill.                   *)
FinishRun(d) ==
  /\ job = Idle /\ source[d].trajectory = Absent
  /\ \E t \in {Torn} \cup {Whole(t) : t \in Trajectories} :
       source' = [source EXCEPT ![d].trajectory = t]
  /\ UNCHANGED <<layout, files, job, outcome, verdict, commands>>

(* The campaign records what a run came to; a trajectory it could not load *)
(* is never recorded as one.                                               *)
RecordRun(d) ==
  /\ job = Idle /\ layout = "campaign" /\ source[d].record = None
  /\ \/ /\ source[d].trajectory.state = "whole"
        /\ source' = [source EXCEPT ![d].record = "trajectory_recorded"]
     \/ source' = [source EXCEPT ![d].record = "executor_error"]
  /\ UNCHANGED <<layout, files, job, outcome, verdict, commands>>

Init ==
  /\ layout \in Layouts
  /\ source = [d \in Dirs |-> [trajectory |-> Absent, record |-> None]]
  /\ files = [f \in File |-> Absent]
  /\ job = Idle /\ outcome = None /\ verdict = None /\ commands = 0

Prep ==
  \/ StartPrep \/ WriteRollouts \/ WriteDatasetSamples \/ WriteDatasetManifest
  \/ ValidateSource \/ UnlinkManifest \/ WriteSamples \/ WriteTokenized \/ WritePacked
  \/ WriteTokenizerConfig \/ WriteTrainConfig \/ WriteReport \/ WriteManifest \/ FinishPrep

Next ==
  \/ Prep \/ Kill \/ Verify
  \/ \E d \in Dirs : FinishRun(d) \/ RecordRun(d)

Spec == Init /\ [][Next]_vars

-----------------------------------------------------------------------------
(* Properties.                                                             *)

(* From the messages alone, the characters of the text that render a tool  *)
(* call.                                                                   *)

RenderedCalls(m) == [j \in DOMAIN m.calls |-> Wrap + m.calls[j]]
RenderedAnswer(m) == IF m.content > 0 THEN Wrap + m.content ELSE 0

RenderedLength(m) ==
  IF m.role = "assistant" THEN RenderedAnswer(m) + Total(RenderedCalls(m)) ELSE Wrap + m.content

CallCharacters(t) ==
  LET Before(i) == Ends([k \in DOMAIN t.messages |-> RenderedLength(t.messages[k])])[i - 1]
      Start(i, j) == Before(i) + RenderedAnswer(t.messages[i])
                       + Ends(RenderedCalls(t.messages[i]))[j - 1]
  IN  UNION {UNION {Start(i, j) .. Start(i, j) + Wrap + t.messages[i].calls[j] - 1
                    : j \in DOMAIN t.messages[i].calls}
             : i \in DOMAIN t.messages}

(* In a bundle whose manifest verifies, every packed sequence spells, span *)
(* by span, the tokens of one run in order from its first, and a token is  *)
(* trained on exactly when it covers part of a tool call that this run     *)
(* made: serialization, mask, alignment, truncation and packing never      *)
(* shift the labels against the text.                                      *)
TrainedTokensAreCalls ==
  ManifestVerifies =>
    \A q \in DOMAIN files.packed.content :
      LET p == files.packed.content[q]
      IN  \A i \in DOMAIN p.source_spans :
            LET span == p.source_spans[i]
                run == span.metadata.run
                calls == CallCharacters(Loaded(run))
            IN  \A k \in 1 .. span.length :
                  LET token == p.input_ids[span.start + k]
                      from == (k - 1) * CharsPerToken
                  IN  /\ token[1] = run /\ token[2] = from
                      /\ p.labels[span.start + k] =
                           IF \E c \in token[2] .. token[3] - 1 : c \in calls
                             THEN token ELSE IGNORE_INDEX

(* However preps with different options were killed, rejected and run      *)
(* again over each other's files, a manifest that verifies describes one   *)
(* build: the tokens on disk are those of the samples on disk under the    *)
(* tokenizer configuration on disk, the packs hold each sample exactly     *)
(* once, the report beside them found no issue, and every sample is of a   *)
(* run that the recorded filters admit and, in a campaign, that has its    *)
(* terminal record.                                                        *)
VerifiedBundleIsOneBuild ==
  ManifestVerifies =>
    LET samples == files.samples.content.samples
        packs == files.packed.content
        spans == FlattenSeq([q \in DOMAIN packs |-> packs[q].source_spans])
    IN  /\ files.tokenized.content = Tensorize(samples, files.tokenizer_config.content)
        /\ files.report.content.issues = {}
        /\ Len(spans) = Len(samples)
        /\ \A i \in DOMAIN samples :
             /\ \E j \in DOMAIN spans : spans[j].metadata.run = samples[i].run
             /\ source[samples[i].run].trajectory.state = "whole"
             /\ PassesFilters(Loaded(samples[i].run), files.train_config.content)
             /\ layout = "campaign" => source[samples[i].run].record = "trajectory_recorded"

(* A prep that reports success leaves a bundle that verifies, and one that *)
(* its contract rejected leaves no manifest, not even that of an earlier   *)
(* prep in the same directory (training_bundle_contract.md: a failed       *)
(* preparation never receives a success manifest).                         *)
OutcomeMatchesManifest ==
  /\ outcome = "ok" => ManifestVerifies
  /\ outcome = "rejected" => files.manifest = Absent

(* The bundle on disk is an accepted preparation of the runs with options  *)
(* o.                                                                      *)
PreparedFrom(o) ==
  /\ ManifestVerifies
  /\ files.train_config.content = o.filter /\ o.filter.verifier_passed = None
  /\ files.tokenizer_config.content = Config(o)
  /\ ~Unloadable
  /\ files.samples.content.samples = OrderSamples(CollectDatasetRecords(o.filter))

(* The verify command agrees with an accepted preparation: run on the same *)
(* runs with the same options, it finds no issue.                          *)
VerifyAgrees ==
  [][\A o \in Options : VerifyCommand(o) /\ PreparedFrom(o) => verdict' = "ok"]_vars

(* What the preparation accepted the trainer can consume: its bridge,      *)
(* which tokenizes the rollouts once more, raises for none but the runs    *)
(* that made no tool call, and the response window it cuts holds every     *)
(* trained token of the bundle's own example of that run.                  *)
AcceptedIsConsumable ==
  outcome = "ok" =>
    \A i \in DOMAIN files.rollouts.content :
      LET r == files.rollouts.content[i]
          sample == RolloutToSlimeTrainSample(r, files.tokenizer_config.content)
      IN  /\ sample = Raises <=> CallCharacters(Loaded(r.run)) = {}
          /\ \E k \in DOMAIN files.tokenized.content :
               LET example == files.tokenized.content[k]
               IN  /\ example.metadata.run = r.run
                   /\ Ones(sample.loss_mask) = Ones(example.token_train_mask)

=============================================================================
