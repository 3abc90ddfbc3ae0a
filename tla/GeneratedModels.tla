---------------------------- MODULE GeneratedModels ----------------------------
(***************************************************************************)
(* The models that the two generators write for the types of the IR        *)
(* (types.rs of plugins/generator-typescript-fetch and of                  *)
(* plugins/generator-rust-reqwest), and which JSON values they take.       *)
(*                                                                         *)
(* Types are those of SchemaShapes; names, formats and the text of the     *)
(* declarations are left out.                                              *)
(***************************************************************************)
EXTENDS SchemaShapes

(* peel_nullable: <<T>> for a union of two of which one is null. *)
Peeled(t) ==
  IF t.kind # "union" \/ Len(t.variants) # 2 \/ ~Contains(t.variants, NullType) THEN <<>>
  ELSE <<IF t.variants[1] = NullType THEN t.variants[2] ELSE t.variants[1]>>

(* AdditionalProperties: none for `closed`, else a type, any by default.    *)
Extras(t) == IF t.closed THEN <<>> ELSE IF t.others = <<>> THEN <<AnyType>> ELSE t.others

(* The enums whose values are not strings. *)
OfNumbers(t) == t.kind = "enum" /\ \E v \in t.values : ~Is(v, "str")

-----------------------------------------------------------------------------
(* TypeScript.  A type is the set of its alternatives.                      *)

RECURSIVE TsType(_)

(* render_object, render_map_alias; patternProperties are left out. *)
Interface(t) ==
  [fields |-> [n \in DOMAIN t.props |-> TsType(t.props[n])],
   optional |-> DOMAIN t.props \ t.required,
   index |-> [i \in DOMAIN Extras(t) |-> TsType(Extras(t)[i])]]

(* Mutant: null is left to the place that uses a union. *)
TsUnionBare(t) == UNION {TsType(t.variants[i]) : i \in {j \in DOMAIN t.variants : t.variants[j] # NullType}}

(* render_union, render_plain_union_body. *)
TsUnion(t) == UNION {TsType(t.variants[i]) : i \in DOMAIN t.variants}

(* render_enum_string, render_enum_int, render_enum_bool, render_enum_number. *)
TsEnum(t) == {[literal |-> v] : v \in t.values}

(* render_type_ref, render_named_type, primitive_ts. *)
TsType(t) ==
  IF Peeled(t) # <<>> THEN TsType(Peeled(t)[1]) \union {[base |-> "null"]}
  ELSE CASE t.kind \in {"integer", "number"} -> {[base |-> "num"]}
         [] t.kind = "string"  -> {[base |-> "str"]}
         [] t.kind = "boolean" -> {[base |-> "bool"]}
         [] t.kind = "null"    -> {[base |-> "null"]}
         [] t.kind = "any"     -> {[base |-> "unknown"]}
         [] t.kind = "enum"    -> TsEnum(t)
         [] t.kind = "array"   -> {[array |-> TsType(t.items)]}
         [] t.kind = "object"  -> {Interface(t)}
         [] t.kind = "union"   -> TsUnion(t)

(* What a compiler asks of an interface: the index signature covers every   *)
(* declared field, with `undefined` if the field is optional.               *)
Unknown == {[base |-> "unknown"]}
IndexFits(type) ==
  \A a \in type : "index" \in DOMAIN a =>
    \A i \in DOMAIN a.index : Unknown \subseteq a.index[i] \/
      (a.optional = {} /\ \A n \in DOMAIN a.fields : a.fields[n] \subseteq a.index[i])

(* The values of a TypeScript type. *)
RECURSIVE TsTakes(_, _)
TsTakes(type, v) ==
  \E a \in type :
    CASE "base" \in DOMAIN a    -> a.base = "unknown" \/ Is(v, a.base)
      [] "literal" \in DOMAIN a -> v = a.literal
      [] "array" \in DOMAIN a   -> Is(v, "arr") /\ \A i \in DOMAIN v.arr : TsTakes(a.array, v.arr[i])
      [] "fields" \in DOMAIN a  ->
           /\ Is(v, "obj") /\ DOMAIN a.fields \ a.optional \subseteq DOMAIN v.obj
           /\ \A n \in DOMAIN v.obj :
                IF n \in DOMAIN a.fields THEN TsTakes(a.fields[n], v.obj[n])
                ELSE \E i \in DOMAIN a.index : TsTakes(a.index[i], v.obj[n])

-----------------------------------------------------------------------------
(* Rust, by what serde makes of the derives and attributes.                 *)

Option(type) == IF "option" \in DOMAIN type THEN type ELSE [option |-> type]

RECURSIVE RustType(_)

(* Mutant: a field that need not be there is declared like any other. *)
StructStrict(t) ==
  [fields |-> [n \in DOMAIN t.props |-> RustType(t.props[n])],
   extras |-> [i \in DOMAIN Extras(t) |-> RustType(Extras(t)[i])]]

(* render_object: an optional field is an Option, which is not doubled.     *)
Struct(t) ==
  LET field(n) == LET type == RustType(t.props[n])
                  IN IF n \in t.required THEN type ELSE Option(type)
  IN [fields |-> [n \in DOMAIN t.props |-> field(n)],
      extras |-> [i \in DOMAIN Extras(t) |-> RustType(Extras(t)[i])]]

(* as_map, render_map_alias. *)
IsMap(t) == DOMAIN t.props = {} /\ ~t.closed /\ t.others # <<>>

(* render_enum_string keeps the wire values; render_enum_int and its like   *)
(* leave serde the names of the variants, which are strings.                *)
RustEnum(t) == [variants |-> IF OfNumbers(t) THEN {[name |-> v] : v \in t.values} ELSE t.values]

(* render_union, union_has_null: null is in the Option around the enum.     *)
RustUnion(t) ==
  LET visible == SelectSeq(t.variants, LAMBDA x : x # NullType)
      enum == [untagged |-> [i \in DOMAIN visible |-> RustType(visible[i])]]
  IN IF visible = t.variants THEN enum ELSE Option(enum)

(* render_type_ref, primitive_rust. *)
RustType(t) ==
  IF Peeled(t) # <<>> THEN [option |-> RustType(Peeled(t)[1])]
  ELSE CASE t.kind = "integer" -> [base |-> "int"]
         [] t.kind = "number"  -> [base |-> "num"]
         [] t.kind = "string"  -> [base |-> "str"]
         [] t.kind = "boolean" -> [base |-> "bool"]
         [] t.kind = "null"    -> [base |-> "null"]
         [] t.kind = "any"     -> [base |-> "value"]
         [] t.kind = "enum"    -> RustEnum(t)
         [] t.kind = "array"   -> [vec |-> RustType(t.items)]
         [] t.kind = "object"  -> IF IsMap(t) THEN [map |-> RustType(t.others[1])] ELSE Struct(t)
         [] t.kind = "union"   -> RustUnion(t)

(* The values that deserialize.  A missing field is None if it is an        *)
(* Option; an unknown one goes to the extras or is ignored.                 *)
RECURSIVE RustReads(_, _)
RustReads(type, v) ==
  LET has(what) == what \in DOMAIN type IN
  CASE has("option")   -> Is(v, "null") \/ RustReads(type.option, v)
    [] has("base")     -> type.base = "value" \/ (type.base = "int" /\ IsInt(v)) \/ Is(v, type.base)
    [] has("variants") -> v \in type.variants
    [] has("vec")      -> Is(v, "arr") /\ \A i \in DOMAIN v.arr : RustReads(type.vec, v.arr[i])
    [] has("map")      -> Is(v, "obj") /\ \A n \in DOMAIN v.obj : RustReads(type.map, v.obj[n])
    [] has("untagged") -> \E i \in DOMAIN type.untagged : RustReads(type.untagged[i], v)
    [] has("fields")   ->
         /\ Is(v, "obj")
         /\ \A n \in DOMAIN type.fields :
              IF n \in DOMAIN v.obj THEN RustReads(type.fields[n], v.obj[n]) ELSE "option" \in DOMAIN type.fields[n]
         /\ \A n \in DOMAIN v.obj \ DOMAIN type.fields :
              \A i \in DOMAIN type.extras : RustReads(type.extras[i], v.obj[n])
================================================================================
