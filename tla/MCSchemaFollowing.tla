------------------------- MODULE MCSchemaFollowing -------------------------
(* Two Claude tools, one with a renaming and a nesting variant and one     *)
(* with a renaming only, and the freeform patch tool, for TLC.             *)
EXTENDS SchemaFollowing

Object(properties, required, closed) ==
  [properties |-> properties, required |-> required, closed |-> closed]
Tool(name, schema, freeform) == [canonical_name |-> name, schema |-> schema, freeform |-> freeform]
To(exposed, canonical) == [exposed |-> exposed, canonical |-> canonical]
Candidate(schema, mapping, defaults, category) ==
  [schema |-> schema, adapter |-> [mapping |-> mapping, defaults |-> defaults], category |-> category]

ReadSchema == Object({<<"file_path">>, <<"offset">>}, {<<"file_path">>}, TRUE)
GrepSchema == Object({<<"pattern">>, <<"path">>}, {<<"pattern">>}, TRUE)
PatchSchema == Object({}, {}, FALSE)

MCTools == <<Tool("Read", ReadSchema, FALSE), Tool("Grep", GrepSchema, FALSE),
             Tool("apply_patch", PatchSchema, TRUE)>>

ReadRenamed ==
  Candidate(Object({<<"path">>, <<"start">>}, {<<"path">>}, FALSE),
            <<To(<<"path">>, <<"file_path">>), To(<<"start">>, <<"offset">>)>>, <<>>, NoCategory)
ReadNested ==
  Candidate(Object({<<"target", "path">>, <<"window", "offset">>},
                   {<<"target">>, <<"target", "path">>}, FALSE),
            <<To(<<"target", "path">>, <<"file_path">>), To(<<"window", "offset">>, <<"offset">>)>>,
            <<>>, "schema_flat_to_nested")
GrepRenamed ==
  Candidate(Object({<<"query">>, <<"root">>}, {<<"query">>}, FALSE),
            <<To(<<"query">>, <<"pattern">>), To(<<"root">>, <<"path">>)>>,
            <<"path">> :> "a", "argument_rename")

MCVariants ==
  [Read |-> [name_candidates |-> <<"Read", "open_source", "view_file">>,
             description_candidates |-> <<"open", "view">>,
             schema_variants |-> <<Candidate(ReadSchema, <<>>, <<>>, NoCategory), ReadRenamed, ReadNested>>],
   Grep |-> [name_candidates |-> <<"search_regex", "Read">>,
             description_candidates |-> <<"search">>,
             schema_variants |-> <<GrepRenamed>>],
   apply_patch |-> [name_candidates |-> <<"edit_file">>, description_candidates |-> <<>>,
                    schema_variants |-> <<>>]]

(* One bit of the seed for names, one for schemas; patching sorts first.   *)
MCHashInt(axis, s, tool) ==
  CASE axis = "name" -> s
    [] axis = "schema" -> s \div 2
    [] axis = "tool_reorder" -> IF tool = "apply_patch" THEN 0 ELSE IF tool = "Read" THEN 1 ELSE 2
    [] OTHER -> s

Args(path, value) == Payload(path :> value, NoText)
Text == Payload(<<>>, "patch")

Call(view, payload) == [name |-> view.exposed_name, payload |-> payload]
Of(paths) == Payload([p \in paths |-> "a"], NoText)
Views(profile) == {v \in ToSet(profile.tools) : v.canonical_name # "Grep"}
Required(v) == v.schema.properties \cap v.schema.required

(* The calls of a run: every property of a view or none, an empty object   *)
(* where its schema has an optional one, text, and Grep by its canonical   *)
(* name.                                                                   *)
MCCalls(profile) ==
  UNION {LET groups == {Front(p) : p \in {q \in v.schema.properties : Len(q) > 1}}
         IN  IF v.freeform THEN {Call(v, Text)}
             ELSE {Call(v, Of(v.schema.properties)), Call(v, Of({}))}
                  \cup {Call(v, Payload(Of(Required(v)).arguments @@ (g :> "empty"), NoText)) :
                          g \in {h \in groups : ~\E r \in Required(v) : IsPrefix(h, r)}} :
           v \in Views(profile)}
  \cup {[name |-> "Grep", payload |-> Args(<<"pattern">>, "a")]}

(* A handler that succeeds, one the policy stops, and one that raises.     *)
Result(ok, kind, decision, code) ==
  [ok |-> ok, execution_kind |-> kind, policy_decision |-> decision, policy_reason_code |-> code]
MCResults ==
  {Result(TRUE, "file_read", "allow", NoValue), Result(FALSE, "file_read", "deny", "workspace_escape"),
   Result(FALSE, NoValue, NoValue, NoValue)}

(* A predictor may also leave out what is optional, name a field the       *)
(* schema does not, give a value of a wrong type, add text to arguments or *)
(* use a canonical name.                                                   *)
MCPredictions(profile) ==
  MCCalls(profile)
  \cup UNION {{Call(v, Of(Required(v))), Call(v, Of(Required(v) \cup {<<"extra">>}))} : v \in Views(profile)}
  \cup {[name |-> n, payload |-> Args(<<"path">>, "bad")] : n \in {"Read", "open_source"}}
  \cup {[name |-> "Read", payload |-> Args(<<"file_path">>, "b")],
         [name |-> "Read", payload |-> Payload(<<"file_path">> :> "a", "patch")]}

MCIntents ==
  {Intent("Read", Payload(<<"file_path">> :> "a" @@ <<"offset">> :> "b", NoText)),
    Intent("Grep", Payload(<<"pattern">> :> "b" @@ <<"path">> :> "a", NoText)),
    Intent("apply_patch", Payload(<<>>, "patch"))}

MCModeSets == {{"argument_rename", "schema_flat_to_nested"}, {"name_description_schema", "tool_reorder"}}
=============================================================================
