-------------------------- MODULE SchemaFollowing --------------------------
(***************************************************************************)
(* The schema-following datasets (pycodeagent/rl/schema_following_*.py and *)
(* pycodeagent/eval): runs are made under mutated tool profiles, their     *)
(* calls are exported as observed samples, or projected into other         *)
(* profiles as baseline samples; a dataset is evaluated against the        *)
(* profiles of its own manifest, and reconciled with the runs.             *)
(*                                                                         *)
(* A run directory appears when its run is over.  Runs and exports take    *)
(* turns, as in the data generation that does both, and an export may be   *)
(* cut short between its files.  A run's profile is the tool_profile.json  *)
(* saved in its directory.                                                 *)
(***************************************************************************)
EXTENDS ToolViews

CONSTANTS
  ModeSets,          \* the profile modes a data generation may be configured with
  Calls(_),          \* profile -> the calls a model may make under it
  Results,           \* what a handler may return: a status and its provenance
  Predictions(_),    \* profile -> the calls a predictor may answer with
  Intents,           \* the synthetic intents
  Seeds,             \* the seeds a generation may be started with
  LastSeed,          \* bound of the search for a second, different profile
  MaxRuns, MaxCalls, \* bounds: runs, and calls over all runs
  MaxScored          \* bound: runs a derivation or an evaluation is about

VARIABLES
  seed, modes,  \* of this data generation
  open,         \* the run under way, or NoRun
  runs,         \* the finished runs, in directory order
  train,        \* runtime_observed_raw/train.jsonl: each line names its call
  manifest,     \* runtime_observed_raw/profile_manifest.json: the profile_ids in it
  exporter,     \* what an export has in memory while it writes
  report        \* the command that last reported, if nothing has changed since

schemaVars == <<seed, modes, open, runs, train, manifest, exporter, report>>
config == <<seed, modes>>
dataset_files == <<train, manifest>>

NoError == "none"
NoRun == <<>>
NoExport == [at |-> "idle"]
Report(kind, intents) == [kind |-> kind, intents |-> intents]
Nothing == Report("none", {})

(* Commands are given one at a time.                                       *)
Quiet == open = NoRun /\ exporter = NoExport

-----------------------------------------------------------------------------
(* Runs.                                                                   *)

(* The sampler has no input but the mode and the seed a profile_id names. *)
Profiles == [id \in Modes \X (0 .. LastSeed) |-> Sample(id[1], id[2])]
BaseProfiles == [at \in 0 .. LastSeed |-> NativeProfile(<<"schema_following_base", at>>)]
Profile(id) == IF id[1] = "schema_following_base" THEN BaseProfiles[id[2]] ELSE Profiles[id]

(* A provider's own id, new in every turn, or native_call_<index in its    *)
(* response>: a response with one call gives every turn the same one.      *)
CallId(own, turn) == IF own THEN turn ELSE 1

CallCount == FoldLeft(LAMBDA n, run : n + Len(run.calls), 0, runs)

StartRun(mode, own) ==
  /\ mode \in modes /\ Quiet /\ Len(runs) < MaxRuns
  /\ open' = [profile_id |-> <<mode, seed>>, own |-> own, calls |-> <<>>]
  /\ report' = Nothing
  /\ UNCHANGED <<config, runs, dataset_files, exporter>>

(* The metadata of a result that name how it came about.  A handler fills  *)
(* them in or, when it raises or returns plain text, not.                  *)
NoValue == "no value"
ProvenanceFields == {"execution_kind", "policy_decision", "policy_reason_code"}
Provenance(result) == [field \in ProvenanceFields |-> result[field]]

(* The error a call is answered with that does not map.                    *)
InspectionError ==
  [ok |-> FALSE, execution_kind |-> NoValue, policy_decision |-> NoValue, policy_reason_code |-> NoValue]

(* One turn: the call is inspected and, when it maps, its handler runs.    *)
CallTool(call, result) ==
  /\ open # NoRun /\ CallCount + Len(open.calls) < MaxCalls
  /\ LET given == InspectCall(Profile(open.profile_id), call.name, call.payload)
     IN  open' = [open EXCEPT !.calls =
                    Append(@, [id |-> CallId(open.own, Len(@) + 1), name |-> call.name,
                               payload |-> call.payload, given |-> given,
                               result |-> IF given = {} THEN InspectionError ELSE result])]
  /\ report' = Nothing
  /\ UNCHANGED <<config, runs, dataset_files, exporter>>

CloseRun(status) ==
  /\ open # NoRun
  /\ runs' = Append(runs, [profile_id |-> open.profile_id, calls |-> open.calls, status |-> status])
  /\ open' = NoRun
  /\ report' = Nothing
  /\ UNCHANGED <<config, dataset_files, exporter>>

-----------------------------------------------------------------------------
(* generate_schema_following_from_runtime_runs.                            *)

RunPassesFilters(run, include_failed) == include_failed \/ run.status = "completed"

(* The entry an index keyed by call id is left with.                       *)
LastWith(calls, id) == calls[Max({i \in DOMAIN calls : calls[i].id = id})]

(* Mutant: the events are not told apart by their call id.                 *)
ExecutionEvent_anyid(calls, id) ==
  LET executed == {i \in DOMAIN calls : calls[i].given # {}}
      failed == {i \in executed : ~calls[i].result.ok}
  IN  calls[Max(IF failed # {} THEN failed ELSE executed)]

(* The call of the execution event an index keyed by call id holds: only a *)
(* call that maps has one, and that of a failure is preferred to any of a  *)
(* success.                                                                *)
ExecutionEvent(calls, id) ==
  LET executed == {i \in DOMAIN calls : calls[i].id = id /\ calls[i].given # {}}
      failed == {i \in executed : ~calls[i].result.ok}
  IN  calls[Max(IF failed # {} THEN failed ELSE executed)]

(* Field by field, the result the trajectory holds or else the event.      *)
ExecutionProvenance(calls, id) ==
  [field \in ProvenanceFields |->
     LET observed == LastWith(calls, id).result[field]
     IN  IF observed # NoValue THEN observed ELSE ExecutionEvent(calls, id).result[field]]

ObservedLine(r, step, intent) ==
  LET run == runs[r]
      call == run.calls[step]
  IN  [run |-> r, step |-> step, profile_id |-> run.profile_id, intent |-> intent,
       call_id |-> call.id, target |-> [name |-> call.name, payload |-> call.payload],
       freeform |-> GetTool(Profile(run.profile_id), call.name)[1].freeform,
       result_ok |-> LastWith(run.calls, call.id).result.ok,
       provenance |-> ExecutionProvenance(run.calls, call.id)]

(* Mutant: the exposed payload is taken for the canonical one.             *)
ObservedSample_unmapped(r, step) ==
  LET call == runs[r].calls[step]
  IN  {ObservedLine(r, step, Intent(i.tool, call.payload)) :
         i \in MapCallPayload(Profile(runs[r].profile_id), call.name, call.payload)}

(* One observed call as a sample, unless its intent cannot be recovered or *)
(* does not project back to the very call.                                 *)
ObservedSample(r, step) ==
  LET call == runs[r].calls[step]
      profile == Profile(runs[r].profile_id)
  IN  {ObservedLine(r, step, intent) :
         intent \in {i \in MapCallPayload(profile, call.name, call.payload) :
                       [name |-> call.name, payload |-> call.payload]
                         \in ProjectCanonicalPayload(profile, i)}}

Steps(include_failed) ==
  UNION {{<<r, s>> : s \in DOMAIN runs[r].calls} :
         r \in {r \in DOMAIN runs : RunPassesFilters(runs[r], include_failed)}}

ObservedSamples(include_failed) ==
  UNION {ObservedSample(at[1], at[2]) : at \in Steps(include_failed)}

(* get_tool returns nothing for an unknown tool and unpacking it raises,   *)
(* which ends the export; so does an intent that does not project.         *)
ExportRaises(include_failed) ==
  \E at \in Steps(include_failed) :
    LET run == runs[at[1]]
        call == run.calls[at[2]]
        profile == Profile(run.profile_id)
    IN  \/ GetTool(profile, call.name) = <<>>
        \/ \E i \in MapCallPayload(profile, call.name, call.payload) :
             ProjectCanonicalPayload(profile, i) = {}

(* Manifest entries by profile_id, of every run, filtered or not.          *)
ObservedProfiles == {run.profile_id : run \in ToSet(runs)}

ExportObserved(include_failed) ==
  /\ Quiet /\ runs # <<>>
  /\ ~ExportRaises(include_failed)
  /\ train' = ObservedSamples(include_failed)
  /\ exporter' = [at |-> "manifests", profiles |-> ObservedProfiles]
  /\ report' = Nothing
  /\ UNCHANGED <<config, open, runs, manifest>>

WriteManifests ==
  /\ exporter.at = "manifests"
  /\ manifest' = exporter.profiles
  /\ exporter' = NoExport
  /\ report' = Nothing
  /\ UNCHANGED <<config, open, runs, train>>

Crash ==
  /\ exporter # NoExport
  /\ exporter' = NoExport /\ report' = Nothing
  /\ UNCHANGED <<config, open, runs, dataset_files>>

-----------------------------------------------------------------------------
(* The controlled baselines: the profile plan, and intents or observed     *)
(* calls projected into every profile of it.                               *)

(* The first later seed whose profile differs from that of the given one:  *)
(* its signature has the views and their adapters.                         *)
NextSeed(mode, start) ==
  LET Signature(s) == Profiles[<<mode, s>>].tools
      others == {s \in start + 1 .. LastSeed : Signature(s) # Signature(start)}
  IN  {s \in others : \A t \in others : s <= t}

ProfileSpec(mode, at) == [mode |-> mode, seed |-> at]

(* The native profile, two of each kind and a mixed one; no specs when the *)
(* search for a second profile fails, which raises.  The code starts each  *)
(* search at its own offset from the seed.                                 *)
ProfileSpecs ==
  LET Pair(mode, second) == <<ProfileSpec(mode, seed), ProfileSpec(mode, second)>>
      found == [mode \in {"name_only", "description_only", "schema_only"} |-> NextSeed(mode, seed)]
  IN  {<<ProfileSpec("base", seed)>> \o Pair("name_only", n) \o Pair("description_only", d)
         \o Pair("schema_only", x) \o <<ProfileSpec("name_description_schema", seed)>> :
         n \in found["name_only"], d \in found["description_only"], x \in found["schema_only"]}

ProfileId(spec) ==
  <<IF spec.mode = "base" THEN "schema_following_base" ELSE spec.mode, spec.seed>>

(* Mutant: the manifest entry leaves the adapters out.                     *)
BaselineEntry_noadapters(profile) ==
  [profile EXCEPT !.tools = [i \in DOMAIN @ |-> [@[i] EXCEPT !.freeform = FALSE]],
                  !.adapters = [name \in DOMAIN @ |-> Identity]]

(* _tool_manifest_entry of the baselines leaves the contract kind out, so  *)
(* that every view is read back as a function tool.                        *)
BaselineEntry(profile) ==
  [profile EXCEPT !.tools = [i \in DOMAIN @ |-> [@[i] EXCEPT !.freeform = FALSE]]]

(* The target of an intent in a profile, if it maps back to the intent.    *)
RoundTrip(profile, intent) ==
  {t \in ProjectCanonicalPayload(profile, intent) :
     MapCallPayload(profile, t.name, t.payload) = {intent}}

BaselineSample(spec, intent, target) ==
  [profile_id |-> ProfileId(spec), intent |-> intent, target |-> target,
   freeform |-> intent.payload.input_text # NoText]

(* Every intent in every profile; the generation raises at the first that  *)
(* has no target or does not come back.                                    *)
BaselineSamples(specs, intents) ==
  UNION {{BaselineSample(specs[k], intent, t) :
            t \in RoundTrip(Profile(ProfileId(specs[k])), intent)} :
         k \in DOMAIN specs, intent \in intents}

(* The baselines read the finished runs and nothing else of this state,    *)
(* so it is enough to write them before anything is exported.              *)
WriteBaseline(intents) ==
  /\ Quiet /\ train = {}
  /\ \E specs \in ProfileSpecs :
       \A intent \in intents, k \in DOMAIN specs :
         RoundTrip(Profile(ProfileId(specs[k])), intent) # {}
  /\ report' = Report("baseline", intents)
  /\ UNCHANGED <<config, open, runs, dataset_files, exporter>>

GenerateSynthetic == runs = <<>> /\ WriteBaseline(Intents)

(* A call whose intent cannot be recovered ends the derivation.            *)
DeriveFromTrajectories(include_failed) ==
  LET steps == Steps(include_failed)
      Recovered(at) == MapCallPayload(Profile(runs[at[1]].profile_id), runs[at[1]].calls[at[2]].name,
                                      runs[at[1]].calls[at[2]].payload)
  IN  /\ steps # {} /\ Len(runs) <= MaxScored
      /\ \A at \in steps : Recovered(at) # {}
      /\ WriteBaseline(UNION {Recovered(at) : at \in steps})

-----------------------------------------------------------------------------
(* Evaluation: an answer is scored against the sample under the profile    *)
(* the dataset's manifest gives for it.                                    *)

Score(parse_ok, name_ok, valid, intent_ok, exact, stale, error) ==
  [parse_ok |-> parse_ok, tool_name_ok |-> name_ok, schema_valid |-> valid,
   canonical_intent_ok |-> intent_ok, exact_match |-> exact, stale |-> stale, error |-> error]

(* An answer is a set: the parsed call, or nothing when it does not parse. *)
(* An answer of text only has no arguments to score; text that comes with  *)
(* arguments is not looked at, except that the answer is no exact match.   *)
EvaluateSample(s, answer, profile) ==
  IF s.freeform THEN Score(FALSE, FALSE, FALSE, FALSE, FALSE, FALSE, "freeform")
  ELSE IF answer = {} THEN Score(FALSE, FALSE, FALSE, FALSE, FALSE, FALSE, "parse")
  ELSE LET call == CHOOSE c \in answer : TRUE
           stale == call.name = s.intent.tool /\ call.name # s.target.name
           name_ok == call.name = s.target.name
           mapped == MapCallPayload(profile, call.name, Payload(call.payload.arguments, NoText))
           exact == call = s.target
       IN  IF GetTool(profile, call.name) = <<>>
             THEN Score(TRUE, FALSE, FALSE, FALSE, FALSE, stale, "unknown_tool_name")
           ELSE IF call.payload.input_text # NoText /\ call.payload.arguments = <<>>
             THEN Score(TRUE, name_ok, FALSE, FALSE, FALSE, stale, "freeform")
           ELSE IF mapped = {}
             THEN Score(TRUE, name_ok, FALSE, FALSE, FALSE, stale, "schema_validation_error")
           ELSE Score(TRUE, name_ok, TRUE, mapped = {s.intent}, exact, stale,
                      IF mapped # {s.intent} THEN "canonical_intent_mismatch"
                      ELSE IF ~exact THEN "exact_text_mismatch" ELSE NoError)

(* The answers that parse: the target itself, the one of the               *)
(* CanonicalIntentBaselinePredictor, and what any other predictor gives.   *)
CanonicalIntentBaseline(s) ==
  [name |-> s.intent.tool, payload |-> Payload(s.intent.payload.arguments, NoText)]

Answers(s, profile) ==
  {s.target, CanonicalIntentBaseline(s)} \cup Predictions(profile)

(* A missing manifest raises, or one that lacks the profile of a sample.   *)
EvaluateObserved ==
  /\ Quiet /\ train # {} /\ Len(runs) <= MaxScored
  /\ \A s \in train : s.profile_id \in manifest
  /\ report' = Report("observed evaluation", {})
  /\ UNCHANGED <<config, open, runs, dataset_files, exporter>>

(* A baseline dataset depends on nothing that changes once it is written,  *)
(* and is looked at only in the step after.                                *)
EvaluateBaseline ==
  /\ report.kind = "baseline"
  /\ report' = Report("baseline evaluation", report.intents)
  /\ UNCHANGED <<config, open, runs, dataset_files, exporter>>

(* What is scored: the samples, each with the profile its manifest gives.  *)
Evaluated ==
  CASE report.kind = "observed evaluation" ->
         {[sample |-> s, profile |-> Profile(s.profile_id)] : s \in train}
    [] report.kind = "baseline evaluation" ->
         UNION {{[sample |-> s, profile |-> BaselineEntry(Profile(s.profile_id))] :
                   s \in BaselineSamples(specs, report.intents)} : specs \in ProfileSpecs}
    [] OTHER -> {}

-----------------------------------------------------------------------------
(* reconcile_runtime_execution: each observed sample against what its run  *)
(* holds under its call id, the last mapping event and observation and the *)
(* execution event.  The reasons that cannot arise are left out: the call  *)
(* a sample was made from leaves all of these, and the provider is read    *)
(* from the same trajectory twice.                                         *)
ReconcileSample(s) ==
  LET calls == runs[s.run].calls
      last == LastWith(calls, s.call_id)
      OfAnotherTool(call) == LET view == GetTool(Profile(runs[s.run].profile_id), call.name)
                             IN  view = <<>> \/ Head(view).canonical_name # s.intent.tool
      Mismatch(field) == s.provenance[field] # last.result[field]
  IN  {reason \in {"exposed_name_mismatch", "canonical_name_mismatch", "execution_kind_mismatch",
                   "policy_decision_mismatch", "policy_reason_code_mismatch",
                   "tool_result_status_mismatch"} :
         CASE reason = "exposed_name_mismatch" -> s.target.name # last.name
           [] reason = "canonical_name_mismatch" ->
                OfAnotherTool(last) \/ OfAnotherTool(ExecutionEvent(calls, s.call_id))
           [] reason = "execution_kind_mismatch" -> Mismatch("execution_kind")
           [] reason = "policy_decision_mismatch" -> Mismatch("policy_decision")
           [] reason = "policy_reason_code_mismatch" -> Mismatch("policy_reason_code")
           [] OTHER -> s.result_ok # last.result.ok}

Reconcile ==
  /\ Quiet /\ train # {}
  /\ report' = Report("reconciliation", {})
  /\ UNCHANGED <<config, open, runs, dataset_files, exporter>>

-----------------------------------------------------------------------------
(* A call as the parser gives it: arguments, perhaps none, and text.       *)
IsCall(call) ==
  LET object == call.payload.arguments
  IN  /\ call.payload = Payload(object, call.payload.input_text)
      /\ DOMAIN object = {} => object = <<>>

(* A family registers each canonical tool under one name, a generation     *)
(* starts within the seeds the model knows, and calls and answers are      *)
(* calls.                                                                  *)
Parameters ==
  /\ \A t, u \in ToSet(Tools) : t.canonical_name = u.canonical_name => t = u
  /\ Seeds \subseteq 0 .. LastSeed
  /\ \A mode \in Modes \cup {"schema_following_base"}, at \in 0 .. LastSeed :
       LET profile == Profile(<<mode, at>>)
       IN  \A call \in Calls(profile) \cup Predictions(profile)
                         \cup Predictions(BaselineEntry(profile)) : IsCall(call)

ASSUME SchemaFollowingConstants == Parameters

-----------------------------------------------------------------------------
SchemaInit ==
  /\ seed \in Seeds /\ modes \in ModeSets
  /\ open = NoRun /\ runs = <<>>
  /\ train = {} /\ manifest = {} /\ exporter = NoExport
  /\ report = Nothing

SchemaNext ==
  \/ \E mode \in Modes, own \in BOOLEAN : StartRun(mode, own)
  \/ \E call \in IF open = NoRun THEN {} ELSE Calls(Profile(open.profile_id)), result \in Results :
       CallTool(call, result)
  \/ \E status \in {"completed", "timeout"} : CloseRun(status)
  \/ \E include_failed \in BOOLEAN : ExportObserved(include_failed)
  \/ WriteManifests
  \/ Crash
  \/ GenerateSynthetic
  \/ \E include_failed \in BOOLEAN : DeriveFromTrajectories(include_failed)
  \/ EvaluateObserved
  \/ EvaluateBaseline
  \/ Reconcile

SchemaSpec == SchemaInit /\ [][SchemaNext]_schemaVars

-----------------------------------------------------------------------------
OwnCall(s) == runs[s.run].calls[s.step]
IdsDiffer(run) == \A i, j \in DOMAIN run.calls : run.calls[i].id = run.calls[j].id => i = j

(* Every observed sample in train.jsonl is a call the runtime mapped: its  *)
(* canonical intent is what the handler was given, and, when the provider  *)
(* numbers its calls, its recorded result is that call's own               *)
(* (schema_following_from_runtime.py recovers both after the run).         *)
ExportedIsExecuted ==
  \A s \in train :
    /\ OwnCall(s).given = {s.intent}
    /\ IdsDiffer(runs[s.run]) => s.result_ok = OwnCall(s).result.ok

(* An answer without input_text is scored canonical_intent_ok exactly when *)
(* the tool runtime, under the profile the sample names, would hand the    *)
(* handler the expected intent; a call by a stale canonical name never is, *)
(* and the target itself scores as an exact match.  _evaluate_sample sees  *)
(* only what the dataset's profile manifest holds, for observed and        *)
(* baseline datasets, also after an interrupted export.  Of an answer with *)
(* text and arguments this does not hold: the runtime rejects the text the *)
(* evaluator ignores.                                                      *)
VerdictIsRuntime ==
  \A e \in Evaluated : ~e.sample.freeform =>
    \A call \in Answers(e.sample, e.profile) :
      call.payload.input_text = NoText =>
        LET score == EvaluateSample(e.sample, {call}, e.profile)
        IN  /\ score.canonical_intent_ok
                 <=> InspectCall(Profile(e.sample.profile_id), call.name, call.payload)
                       = {e.sample.intent}
            /\ score.stale => ~score.canonical_intent_ok
            /\ call = e.sample.target => score.error = NoError

(* A sample that reconciliation passes is no mixture of calls: its tool,   *)
(* status and provenance are those of one call, the last its run holds     *)
(* under the call id, although the exporter fills in what the result lacks *)
(* from an event that may be another call's.  And it complains only when   *)
(* the run has calls under that id that differ in name or provenance, so   *)
(* never when the provider numbers its calls, whatever was exported since. *)
ReconciledIsOneCall ==
  report.kind = "reconciliation" =>
    \A s \in train :
      LET calls == runs[s.run].calls
          last == LastWith(calls, s.call_id)
          Told(call) == <<call.name, Provenance(call.result)>>
      IN  /\ ReconcileSample(s) = {} =>
               /\ last.name = s.target.name /\ last.result.ok = s.result_ok
               /\ Provenance(last.result) = s.provenance
          /\ ReconcileSample(s) # {} =>
               \E i, j \in DOMAIN calls : /\ calls[i].id = s.call_id /\ calls[j].id = s.call_id
                                         /\ Told(calls[i]) # Told(calls[j])

=============================================================================
