----------------------------- MODULE ToolViews -----------------------------
(***************************************************************************)
(* Tool views: what a model sees of a canonical tool (pycodeagent/tools/   *)
(* spec.py), how its calls are mapped to the canonical tool and back, and  *)
(* how the sampler of pycodeagent/mutations derives a mutated profile from *)
(* the native one.                                                         *)
(*                                                                         *)
(* A path is the sequence of keys of a dotted name.  An argument object is *)
(* a function from the paths of its values; the value is "empty" for an    *)
(* empty object, which has no leaf, "bad" for one of a wrong type, and any *)
(* other string stands for a value its schema allows.  A schema has the    *)
(* paths of its scalar properties; the objects around them are implied.    *)
(* An operator that may raise ToolArgumentError returns a set: the one     *)
(* result, or nothing.                                                     *)
(***************************************************************************)
EXTENDS Naturals, Sequences, SequencesExt, TLC

CONSTANTS
  Tools,             \* the canonical tools of a family, in their native order
  Variants,          \* tool name -> its candidates in the mutation config
  HashInt(_, _, _)   \* the digest of an axis, a seed and a tool

NoText == "no text"
NoCategory == "none"
Identity == [mapping |-> <<>>, defaults |-> <<>>]

Canonical(name) == CHOOSE t \in ToSet(Tools) : t.canonical_name = name

-----------------------------------------------------------------------------
(* Validation and the adapter.                                             *)

Present(args, path) == \E q \in DOMAIN args : IsPrefix(path, q)

ValidateJsonSchema(args, schema) ==
  /\ \A r \in schema.required : (Len(r) = 1 \/ Present(args, Front(r))) => Present(args, r)
  /\ \A q \in DOMAIN args :
       \/ q \in schema.properties /\ args[q] \notin {"bad", "empty"}
       \/ args[q] = "empty" /\ \E p \in schema.properties : IsStrictPrefix(q, p)
       \/ ~schema.closed /\ \A p \in schema.properties : ~IsPrefix(p, q) /\ ~IsPrefix(q, p)

LeafPaths(args) == {p \in DOMAIN args : args[p] # "empty"}

(* The values found at the paths `from', put at the paths `to'; the last   *)
(* of several for one path stays.                                          *)
Moved(args, pairs, from, to) ==
  LET found == {i \in DOMAIN pairs : pairs[i][from] \in DOMAIN args}
  IN  [path \in {pairs[i][to] : i \in found} |->
         args[pairs[Max({i \in found : pairs[i][to] = path})][from]]]

MapArguments(adapter, args, exposed, canonical) ==
  LET mapped == IF adapter.mapping = <<>> THEN args
                ELSE Moved(args, adapter.mapping, "exposed", "canonical")
      full == mapped @@ adapter.defaults
  IN  {result \in {full} :
         /\ ValidateJsonSchema(args, exposed)
         /\ adapter.mapping # <<>> =>
              LeafPaths(args) \subseteq {m.exposed : m \in ToSet(adapter.mapping)}
         /\ ValidateJsonSchema(full, canonical)}

Ambiguous(mapping) ==
  \E m, n \in ToSet(mapping) : m.canonical = n.canonical /\ m.exposed # n.exposed

ToExposedArgs(adapter, args, exposed, canonical) ==
  LET projected == IF adapter.mapping = <<>> THEN args
                   ELSE Moved(args, adapter.mapping, "canonical", "exposed")
  IN  {result \in {projected} :
         /\ ValidateJsonSchema(args, canonical)
         /\ ~Ambiguous(adapter.mapping)
         /\ adapter.mapping # <<>> =>
              LeafPaths(args) \subseteq {m.canonical : m \in ToSet(adapter.mapping)}
         /\ ValidateJsonSchema(projected, exposed)}

-----------------------------------------------------------------------------
(* A profile resolves a call by its exposed name: the first view with that *)
(* name, and the adapter registered under it.                              *)

GetTool(profile, name) ==
  LET named == {i \in DOMAIN profile.tools : profile.tools[i].exposed_name = name}
      first == {i \in named : \A j \in named : i <= j}
  IN  IF first = {} THEN <<>> ELSE <<profile.tools[CHOOSE i \in first : TRUE]>>

Payload(arguments, text) == [arguments |-> arguments, input_text |-> text]
Intent(tool, payload) == [tool |-> tool, payload |-> payload]

(* ToolProfile.map_call_payload, with the canonical tool of the view.      *)
MapCallPayload(profile, name, payload) ==
  IF GetTool(profile, name) = <<>> THEN {}
  ELSE LET view == GetTool(profile, name)[1]
           tool == Canonical(view.canonical_name)
           text == payload.input_text # NoText
           object == DOMAIN payload.arguments # {}
       IN  IF (text /\ object) \/ ~(view.freeform <=> tool.freeform) \/ ~(view.freeform <=> text)
           THEN {}
           ELSE IF view.freeform
             THEN {Intent(view.canonical_name, Payload(<<>>, payload.input_text))}
             ELSE {Intent(view.canonical_name, Payload(args, NoText)) :
                     args \in MapArguments(profile.adapters[name], payload.arguments,
                                           view.schema, tool.schema)}

(* ToolRuntime.inspect_call: what the handler is given, if anything.       *)
InspectCall(profile, name, payload) ==
  IF GetTool(profile, name) = <<>> THEN {}
  ELSE LET view == GetTool(profile, name)[1]
           tool == Canonical(view.canonical_name)
       IN  IF view.freeform
             THEN {Intent(view.canonical_name, p) :
                     p \in {q \in {payload} : q.input_text # NoText
                                              /\ DOMAIN q.arguments = {} /\ tool.freeform}}
             ELSE {Intent(view.canonical_name, Payload(args, NoText)) :
                     args \in IF payload.input_text # NoText \/ tool.freeform THEN {}
                              ELSE MapArguments(profile.adapters[name], payload.arguments,
                                                view.schema, tool.schema)}

(* ToolProfile.project_canonical_payload: the exposed call for an intent.  *)
ProjectCanonicalPayload(profile, intent) ==
  LET matches == {i \in DOMAIN profile.tools : profile.tools[i].canonical_name = intent.tool}
  IN  IF ~\E i \in matches : matches = {i} THEN {}
      ELSE LET view == profile.tools[CHOOSE i \in matches : TRUE]
               tool == Canonical(view.canonical_name)
               text == intent.payload.input_text # NoText
               object == DOMAIN intent.payload.arguments # {}
           IN  IF (text /\ object) \/ ~(view.freeform <=> tool.freeform) \/ ~(view.freeform <=> text)
               THEN {}
               ELSE IF view.freeform
                 THEN {[name |-> view.exposed_name,
                        payload |-> Payload(<<>>, intent.payload.input_text)]}
                 ELSE {[name |-> view.exposed_name, payload |-> Payload(args, NoText)] :
                         args \in ToExposedArgs(profile.adapters[view.exposed_name],
                                                intent.payload.arguments, view.schema, tool.schema)}

-----------------------------------------------------------------------------
(* The native profile and the sampler.                                     *)

AdaptersOf(views) ==
  FoldLeft(LAMBDA acc, v : (v.exposed_name :> v.adapter) @@ acc, <<>>, views)

View(index, name, description, candidate) ==
  [canonical_name |-> Tools[index].canonical_name, exposed_name |-> name,
   description |-> description, freeform |-> Tools[index].freeform,
   schema |-> candidate.schema, adapter |-> candidate.adapter,
   schema_variant_category |-> candidate.category]

BaseCandidate(index) ==
  [schema |-> Tools[index].schema, adapter |-> Identity, category |-> NoCategory]

NativeProfile(id) ==
  LET views == [i \in DOMAIN Tools |-> View(i, Tools[i].canonical_name, "native", BaseCandidate(i))]
  IN  [profile_id |-> id, mode |-> "native_family_base", tools |-> views,
       adapters |-> AdaptersOf(views)]

Modes == {"base", "name_only", "description_only", "argument_rename",
          "schema_flat_to_nested", "tool_reorder", "schema_only", "name_description_schema"}

ModeSpec(mode) ==
  [name |-> mode \in {"name_only", "name_description_schema"},
   description |-> mode \in {"description_only", "name_description_schema"},
   schema |-> mode \in {"argument_rename", "schema_flat_to_nested", "schema_only",
                        "name_description_schema"},
   category |-> IF mode \in {"argument_rename", "schema_flat_to_nested"} THEN mode ELSE NoCategory,
   reorder |-> mode = "tool_reorder"]

NormalizeStringCandidates(base, candidates) ==
  FoldLeft(LAMBDA acc, c : IF c \in ToSet(acc) THEN acc ELSE Append(acc, c), <<base>>, candidates)

(* A candidate without a category is nested when it has a dotted path.     *)
Categorized(candidate) ==
  IF candidate.category # NoCategory THEN candidate
  ELSE [candidate EXCEPT !.category =
          IF \E m \in ToSet(candidate.adapter.mapping) : Len(m.exposed) > 1 \/ Len(m.canonical) > 1
            THEN "schema_flat_to_nested" ELSE "argument_rename"]

NormalizeSchemaCandidates(index, candidates) ==
  LET base == BaseCandidate(index)
      IsBase(c) == c.schema = base.schema /\ c.adapter = Identity
      others == SelectSeq(candidates, LAMBDA c : ~IsBase(c))
  IN  <<base>> \o [i \in DOMAIN others |-> Categorized(others[i])]

FilterSchemaCandidates(candidates, category) ==
  IF category = NoCategory THEN candidates
  ELSE <<candidates[1]>> \o SelectSeq(Tail(candidates), LAMBDA c : c.category = category)

(* Any candidate but the first, the base; the base when it is alone.       *)
Mutated(candidates, hash) ==
  IF Len(candidates) <= 1 THEN candidates[1]
  ELSE candidates[2 + (hash % (Len(candidates) - 1))]

SelectToolVariant(index, mode, seed) ==
  LET tool == Tools[index].canonical_name
      spec == ModeSpec(mode)
      variants == Variants[tool]
      names == NormalizeStringCandidates(tool, variants.name_candidates)
      descriptions == NormalizeStringCandidates("native", variants.description_candidates)
      schemas == FilterSchemaCandidates(
                   NormalizeSchemaCandidates(index, variants.schema_variants), spec.category)
      Pick(mutate, candidates, axis) ==
        IF mutate THEN Mutated(candidates, HashInt(axis, seed, tool)) ELSE candidates[1]
  IN  View(index, Pick(spec.name, names, "name"),
           Pick(spec.description, descriptions, "description"),
           Pick(spec.schema /\ ~Tools[index].freeform, schemas, "schema"))

ReorderTools(views, seed) ==
  LET Before(v, w) == HashInt("tool_reorder", seed, v.canonical_name)
                        < HashInt("tool_reorder", seed, w.canonical_name)
      sorted == SortSeq(views, Before)
      offset == 1 + (HashInt("tool_reorder_offset", seed, "") % (Len(sorted) - 1))
  IN  IF sorted = views /\ Len(sorted) > 1
        THEN SubSeq(sorted, offset + 1, Len(sorted)) \o SubSeq(sorted, 1, offset)
        ELSE sorted

Sample(mode, seed) ==
  LET views == [i \in DOMAIN Tools |-> SelectToolVariant(i, mode, seed)]
  IN  [profile_id |-> <<mode, seed>>, mode |-> mode,
       tools |-> IF ModeSpec(mode).reorder THEN ReorderTools(views, seed) ELSE views,
       adapters |-> AdaptersOf(views)]
=============================================================================
