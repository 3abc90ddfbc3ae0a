------------------------------ MODULE SchemaShapes ------------------------------
(***************************************************************************)
(* Which type a schema becomes (crates/forge-parser/src/schema.rs), for    *)
(* schemas without $ref and allOf, whose walk is the subject of SchemaWalk. *)
(*                                                                         *)
(* A schema is a function from the keywords it has to their values.  A     *)
(* value is a record of one field that tells what it is: [null |-> 0],     *)
(* [bool |-> b], [str |-> its length], [num |-> n], n the number of        *)
(* halves, so that an odd n is no integer, [arr |-> items],                *)
(* [obj |-> fields].                                                       *)
(***************************************************************************)
EXTENDS Naturals, Sequences, FiniteSets, SequencesExt, TLC

Is(v, what) == what \in DOMAIN v
IsInt(v) == Is(v, "num") /\ v.num % 2 = 0
Asserts(s, key, value) == key \in DOMAIN s /\ s[key] = value

(* What lowering comes to: `type` is <<>> or <<the type>>, `quiet` whether  *)
(* nothing was reported.                                                    *)
Lowered(type, quiet) == [type |-> <<type>>, quiet |-> quiet]
Rejected == [type |-> <<>>, quiet |-> FALSE]

NullType == [kind |-> "null"]
AnyType == [kind |-> "any"]
Union(types) == [kind |-> "union", variants |-> types]

(* ensure_null_singleton: null is the last variant. *)
OrNull(types, nullable) == IF nullable THEN Append(types, NullType) ELSE types

(* maybe_wrap_nullable. *)
Wrapped(type, nullable, quiet) ==
  Lowered(IF nullable THEN Union(OrNull(<<type>>, TRUE)) ELSE type, quiet)

-----------------------------------------------------------------------------
(* `type` and `nullable`.  The value of `type` is a sequence of names: the  *)
(* one of its string form, or those of its array form.                      *)

(* Mutant: null in an array of types is not seen. *)
NullableByKeyword(s) == Asserts(s, "nullable", TRUE) \/ Asserts(s, "type", <<"null">>)

(* detect_nullable. *)
Nullable(s) == Asserts(s, "nullable", TRUE) \/ ("type" \in DOMAIN s /\ Contains(s.type, "null"))

(* extract_types: the others, each once. *)
Types(s) ==
  IF "type" \notin DOMAIN s THEN <<>>
  ELSE LET first(i) == \A j \in 1..(i - 1) : s.type[j] # s.type[i]
           kept == SelectSeq([i \in DOMAIN s.type |-> i],
                             LAMBDA i : s.type[i] # "null" /\ first(i))
       IN [i \in DOMAIN kept |-> s.type[kept[i]]]

(* parse_freeform, is_bare_null_schema. *)
Freeform(s) ==
  IF Nullable(s) /\ DOMAIN s \subseteq {"type", "nullable"} /\ "type" \in DOMAIN s
  THEN Lowered(NullType, TRUE)
  ELSE Wrapped(AnyType, Nullable(s), TRUE)

-----------------------------------------------------------------------------
(* Bounds.  The exclusive keyword has a boolean or a number; no bound is    *)
(* <<>>.                                                                    *)
Bound(s, key) == IF key \in DOMAIN s THEN <<s[key].num>> ELSE <<>>

(* Mutant: the boolean of 3.0 leaves the bound inclusive. *)
SplitBoundLoose(s, oas30, key, exclusive) ==
  IF exclusive \in DOMAIN s /\ Is(s[exclusive], "num") /\ ~oas30
  THEN [incl |-> Bound(s, key), excl |-> Bound(s, exclusive), quiet |-> TRUE]
  ELSE [incl |-> Bound(s, key), excl |-> <<>>, quiet |-> TRUE]

(* split_bound. *)
SplitBound(s, oas30, key, exclusive) ==
  LET e == IF exclusive \in DOMAIN s THEN s[exclusive] ELSE [bool |-> FALSE] IN
  CASE Is(e, "num") /\ ~oas30 ->
         [incl |-> Bound(s, key), excl |-> Bound(s, exclusive), quiet |-> TRUE]
    [] Is(e, "bool") /\ e.bool ->
         [incl |-> <<>>, excl |-> Bound(s, key), quiet |-> key \in DOMAIN s]
    [] Is(e, "bool") /\ ~e.bool ->
         [incl |-> Bound(s, key), excl |-> <<>>, quiet |-> TRUE]
    [] ~Is(e, "bool") /\ (oas30 \/ ~Is(e, "num")) ->
         [incl |-> Bound(s, key), excl |-> <<>>, quiet |-> FALSE]

(* parse_primitive, primitive_kind, primitive_constraints. *)
Primitive(s, oas30, type) ==
  LET low == SplitBound(s, oas30, "minimum", "exclusiveMinimum")
      high == SplitBound(s, oas30, "maximum", "exclusiveMaximum")
  IN Wrapped([kind |-> type, low |-> low, high |-> high,
              minLength |-> IF "minLength" \in DOMAIN s THEN s.minLength ELSE 0],
             Nullable(s), low.quiet /\ high.quiet)

-----------------------------------------------------------------------------
(* Enums and constants. *)

(* Mutant: what an enum cannot hold goes without a word. *)
EnumSilent(s) ==
  LET kept == SelectSeq(s.enum, LAMBDA v : IF Types(s) = <<"integer">> THEN IsInt(v) ELSE Is(v, "str"))
      null == \E v \in Range(s.enum) : Is(v, "null")
  IN IF kept = <<>> THEN Rejected
     ELSE Wrapped([kind |-> "enum", values |-> Range(kept)], Nullable(s) \/ null, TRUE)

(* parse_string_enum, parse_int_enum: null makes the enum nullable, what    *)
(* else is of another type is dropped with a warning.                       *)
Enum(s) ==
  LET kept == SelectSeq(s.enum, LAMBDA v : IF Types(s) = <<"integer">> THEN IsInt(v) ELSE Is(v, "str"))
      null == \E v \in Range(s.enum) : Is(v, "null")
      rest == {v \in Range(s.enum) \ Range(kept) : ~Is(v, "null")}
  IN IF kept = <<>> THEN Rejected
     ELSE Wrapped([kind |-> "enum", values |-> Range(kept)], Nullable(s) \/ null, rest = {})

(* parse_const: null is the null type, whatever `nullable` says. *)
Const(s) ==
  CASE Is(s.const, "null")                      -> Lowered(NullType, TRUE)
    [] Is(s.const, "arr") \/ Is(s.const, "obj") -> Rejected
    [] \E what \in {"bool", "str", "num"} : Is(s.const, what) ->
         Wrapped([kind |-> "enum", values |-> {s.const}], Nullable(s), TRUE)

-----------------------------------------------------------------------------
(* Structures. *)

RECURSIVE Lower(_, _)

Quiet(lowered) == \A i \in DOMAIN lowered : lowered[i].quiet
Parts(schemas, oas30) == [i \in DOMAIN schemas |-> Lower(schemas[i], oas30)]

(* The types of those parts that have come to one. *)
Usable(parts) == FlattenSeq([i \in DOMAIN parts |-> parts[i].type])

(* lift_union_variants, parse_untagged_union. *)
UnionOf(parts, nullable) ==
  IF Usable(parts) = <<>> THEN [type |-> <<>>, quiet |-> Quiet(parts)]
  ELSE Lowered(Union(OrNull(Usable(parts), nullable)), Quiet(parts))

Composed(s, key, oas30) ==
  IF s[key] = <<>> THEN Rejected ELSE UnionOf(Parts(s[key], oas30), Nullable(s))

(* parse_type_array_union: each type without the other keywords. *)
TypeArray(s, oas30) ==
  UnionOf([i \in DOMAIN Types(s) |-> Lower([type |-> <<Types(s)[i]>>], oas30)], Nullable(s))

(* parse_array. *)
ArrayOf(s, oas30) ==
  LET items == Lower(s.items, oas30) IN
  CASE "items" \notin DOMAIN s -> Rejected
    [] "items" \in DOMAIN s /\ items.type = <<>> -> items
    [] "items" \in DOMAIN s /\ items.type # <<>> ->
         Wrapped([kind |-> "array", items |-> items.type[1]], Nullable(s), items.quiet)

(* parse_property_names: names are strings, though `type` need not say so. *)
StringByDefault(names) ==
  IF "type" \in DOMAIN names THEN names ELSE names @@ [type |-> <<"string">>]

(* A keyword with a schema that may be missing or a boolean, which are both *)
(* <<>>, or <<schema>>.                                                     *)
Sub(s, key) == IF key \in DOMAIN s THEN s[key] ELSE <<>>

(* parse_object, parse_pattern_properties.  `properties` maps names to      *)
(* schemas, `patternProperties` sets of names, those a pattern matches;     *)
(* the keyword `closed` stands for additionalProperties: false.             *)
ObjectOf(s, oas30) ==
  LET map(key) == IF key \in DOMAIN s THEN s[key] ELSE [n \in {} |-> s]
      lowered(m) == [n \in DOMAIN m |-> Lower(m[n], oas30)]
      kept(l) == [n \in {x \in DOMAIN l : l[x].type # <<>>} |-> l[n].type[1]]
      props == lowered(map("properties"))
      patterns == lowered(map("patternProperties"))
      required == IF "required" \in DOMAIN s THEN s.required ELSE {}
      others == Parts(Sub(s, "additionalProperties"), oas30)
      names == [i \in DOMAIN Sub(s, "propertyNames") |->
                  Lower(StringByDefault(Sub(s, "propertyNames")[i]), oas30)]
  IN Wrapped([kind |-> "object", props |-> kept(props), patterns |-> kept(patterns),
              required |-> required \cap DOMAIN kept(props),
              closed |-> Asserts(s, "closed", TRUE),
              others |-> Usable(others), names |-> Usable(names)],
             Nullable(s), Quiet(props) /\ Quiet(patterns) /\ Quiet(others) /\ Quiet(names))

(* parse_schema: the first keyword in this order decides. *)
Lower(s, oas30) ==
  LET has(key) == key \in DOMAIN s IN
  IF has("oneOf") THEN Composed(s, "oneOf", oas30)
  ELSE IF has("anyOf") THEN Composed(s, "anyOf", oas30)
  ELSE IF has("not") THEN Rejected
  ELSE IF has("const") THEN Const(s)
  ELSE IF has("enum") THEN Enum(s)
  ELSE IF Types(s) = <<>> THEN Freeform(s)
  ELSE IF Len(Types(s)) > 1 THEN TypeArray(s, oas30)
  ELSE LET type == Types(s)[1] IN
    CASE type \in {"string", "integer", "number", "boolean"} -> Primitive(s, oas30, type)
      [] type = "array"  -> ArrayOf(s, oas30)
      [] type = "object" -> ObjectOf(s, oas30)
      [] OTHER           -> Rejected

=================================================================================
