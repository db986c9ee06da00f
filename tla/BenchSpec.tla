----------------------------- MODULE BenchSpec -----------------------------
(***************************************************************************)
(* The configs that the spec of a comparison asks for: the base config     *)
(* with the overrides of each variant merged into it, and what that        *)
(* changes.  A JSON value is a text or an object; "null" is a text of its  *)
(* own type, and "none" the socket of a config that names none.            *)
(***************************************************************************)
EXTENDS Sequences

CONSTANTS
    Defaults,     \* the object Config::default() serialises to
    TypeOf,       \* TypeOf[t]: the type of a text
    BaseConfig,   \* the document of base_config
    Variants      \* the variants of the spec: [name, overrides]

Text(t) == [text |-> t]
Object(f) == [fields |-> f]
Null == Text("null")
IsObject(v) == "fields" \in DOMAIN v
Keys(v) == DOMAIN v.fields

RECURSIVE merge_json(_, _)
merge_json(base, over) ==
    IF over = Null THEN base
      ELSE IF IsObject(base) /\ IsObject(over)
      THEN Object([k \in Keys(base) \cup Keys(over) |->
                     IF k \notin Keys(over) THEN base.fields[k]
                       ELSE IF k \notin Keys(base) THEN over.fields[k]
                       ELSE merge_json(base.fields[k], over.fields[k])])
      ELSE over

(* Config::from_value, as far as a comparison can tell: every field has    *)
(* the type of its default, absent fields have their default, and unknown  *)
(* ones are ignored.                                                       *)
RECURSIVE Fits(_, _)
Fits(default, v) ==
    IF IsObject(default)
      THEN IsObject(v) /\ \A k \in Keys(default) \cap Keys(v) :
                             Fits(default.fields[k], v.fields[k])
      ELSE ~IsObject(v) /\ TypeOf[v.text] = TypeOf[default.text]
RECURSIVE Filled(_, _)
Filled(default, v) ==
    IF ~IsObject(default) THEN v
      ELSE Object([k \in Keys(default) |->
                     IF k \in Keys(v) THEN Filled(default.fields[k], v.fields[k])
                                      ELSE default.fields[k]])

Unset == Text("<unset>")
Get(v, k) == IF k \in Keys(v) THEN v.fields[k] ELSE Unset

RECURSIVE collect_diff_entries(_, _, _)
collect_diff_entries(path, base, variant) ==
    IF base = variant THEN {}
      ELSE IF IsObject(base) /\ IsObject(variant)
      THEN UNION {IF k \in Keys(base) \cap Keys(variant)
                    THEN collect_diff_entries(Append(path, k), Get(base, k), Get(variant, k))
                    ELSE {[key |-> Append(path, k),
                           before |-> Get(base, k), after |-> Get(variant, k)]}
                   : k \in Keys(base) \cup Keys(variant)}
      ELSE {[key |-> path, before |-> base, after |-> variant]}
flatten_diff(base, variant) == collect_diff_entries(<<>>, base, variant)

(* A baseline is a set of one effective config, or of none.                *)
build_variant_context(name, overrides, baseline) ==
    LET merged == merge_json(BaseConfig, overrides)
        effective == Filled(Defaults, merged)
    IN  IF ~Fits(Defaults, merged) THEN [name |-> name, ok |-> FALSE]
          ELSE [name |-> name, ok |-> TRUE,
                mode |-> effective.fields["transport_mode"].text,
                websockets |-> effective.fields["websockets"].text = "true",
                socket |-> effective.fields["redis_socket"].text # "none",
                diff |-> UNION {flatten_diff(b, effective) : b \in baseline}]

(* The baseline is a variant without overrides, and the first.             *)
VariantContexts ==
    <<build_variant_context("baseline", Object(<<>>), {})>>
      \o [i \in DOMAIN Variants |->
            build_variant_context(Variants[i].name, Variants[i].overrides,
                                  {Filled(Defaults, BaseConfig)})]
============================================================================
