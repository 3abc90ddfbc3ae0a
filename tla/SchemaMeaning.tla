----------------------------- MODULE SchemaMeaning -----------------------------
(***************************************************************************)
(* What schemas and types mean, as a reference for SchemaShapes: which     *)
(* values a schema accepts, by JSON Schema and, for `nullable` and boolean *)
(* exclusive bounds, by OpenAPI 3.0; and which values a type of the IR     *)
(* admits.                                                                 *)
(***************************************************************************)
EXTENDS SchemaShapes

(* The keywords nobody in the code has to interpret: a name as a value. *)
NameValue(name) == [str |-> IF name = "a" THEN 1 ELSE 2]

OfType(v, type) ==
  CASE type = "string"  -> Is(v, "str")
    [] type = "number"  -> Is(v, "num")
    [] type = "integer" -> IsInt(v)
    [] type = "boolean" -> Is(v, "bool")
    [] type = "array"   -> Is(v, "arr")
    [] type = "object"  -> Is(v, "obj")
    [] type = "null"    -> Is(v, "null")
    [] OTHER            -> FALSE

(* n against `minimum` and `exclusiveMinimum`; `above` turns it round. *)
Within(s, n, key, exclusive, above(_, _)) ==
  LET strict == Asserts(s, exclusive, [bool |-> TRUE]) IN
  /\ key \in DOMAIN s => above(n, s[key].num) \/ (~strict /\ n = s[key].num)
  /\ (exclusive \in DOMAIN s /\ Is(s[exclusive], "num")) => above(n, s[exclusive].num)

Count(S) == Cardinality(S)

RECURSIVE Accepts(_, _)
Accepts(s, v) ==
  LET has(key) == key \in DOMAIN s
      branches(key) == {i \in DOMAIN s[key] : Accepts(s[key][i], v)}
      obj(test(_)) == Is(v, "obj") => \A n \in DOMAIN v.obj : test(n)
      declared(n) == has("properties") /\ n \in DOMAIN s.properties
      matched(n) == has("patternProperties") /\ \E p \in DOMAIN s.patternProperties : n \in p
  IN
  /\ has("type") => \/ \E i \in DOMAIN s.type : OfType(v, s.type[i])
                    \/ Asserts(s, "nullable", TRUE) /\ Is(v, "null")
  /\ has("enum") => Contains(s.enum, v)
  /\ has("const") => s.const = v
  /\ has("oneOf") => Count(branches("oneOf")) = 1
  /\ has("anyOf") => branches("anyOf") # {}
  /\ has("not") => ~Accepts(s["not"], v)
  /\ Is(v, "num") => /\ Within(s, v.num, "minimum", "exclusiveMinimum", LAMBDA a, b : a > b)
                     /\ Within(s, v.num, "maximum", "exclusiveMaximum", LAMBDA a, b : a < b)
  /\ (has("minLength") /\ Is(v, "str")) => v.str >= s.minLength
  /\ (has("items") /\ Is(v, "arr")) => \A i \in DOMAIN v.arr : Accepts(s.items, v.arr[i])
  /\ (has("required") /\ Is(v, "obj")) => s.required \subseteq DOMAIN v.obj
  /\ obj(LAMBDA n : declared(n) => Accepts(s.properties[n], v.obj[n]))
  /\ obj(LAMBDA n : has("patternProperties") =>
           \A p \in DOMAIN s.patternProperties :
             n \in p => Accepts(s.patternProperties[p], v.obj[n]))
  /\ obj(LAMBDA n : declared(n) \/ matched(n) \/
           /\ ~Asserts(s, "closed", TRUE)
           /\ \A i \in DOMAIN Sub(s, "additionalProperties") :
                Accepts(s.additionalProperties[i], v.obj[n]))
  /\ obj(LAMBDA n : \A i \in DOMAIN Sub(s, "propertyNames") :
           Accepts(s.propertyNames[i], NameValue(n)))

RECURSIVE Admits(_, _)
Admits(t, v) ==
  LET low == t.low high == t.high
      above(b, test(_)) == \A i \in DOMAIN b : test(b[i])
      matching(n) == {p \in DOMAIN t.patterns : n \in p}
  IN
  CASE t.kind = "any"  -> TRUE
    [] t.kind = "null" -> Is(v, "null")
    [] t.kind = "enum" -> v \in t.values
    [] t.kind = "union" -> \E i \in DOMAIN t.variants : Admits(t.variants[i], v)
    [] t.kind \in {"string", "boolean"} ->
         OfType(v, t.kind) /\ (Is(v, "str") => v.str >= t.minLength)
    [] t.kind \in {"number", "integer"} ->
         /\ OfType(v, t.kind)
         /\ above(low.incl, LAMBDA b : v.num >= b) /\ above(low.excl, LAMBDA b : v.num > b)
         /\ above(high.incl, LAMBDA b : v.num <= b) /\ above(high.excl, LAMBDA b : v.num < b)
    [] t.kind = "array" -> Is(v, "arr") /\ \A i \in DOMAIN v.arr : Admits(t.items, v.arr[i])
    [] t.kind = "object" ->
         /\ Is(v, "obj") /\ t.required \subseteq DOMAIN v.obj
         /\ \A n \in DOMAIN v.obj :
              /\ n \in DOMAIN t.props => Admits(t.props[n], v.obj[n])
              /\ \A p \in matching(n) : Admits(t.patterns[p], v.obj[n])
              /\ \/ n \in DOMAIN t.props \/ matching(n) # {}
                 \/ ~t.closed /\ \A i \in DOMAIN t.others : Admits(t.others[i], v.obj[n])
              /\ \A i \in DOMAIN t.names : Admits(t.names[i], NameValue(n))
=================================================================================
