----------------------------- MODULE SchemaWalk -----------------------------
(***************************************************************************)
(* The parser's walk over the schemas of an OpenAPI description            *)
(* (crates/forge-parser: lib.rs, schema.rs, normalize.rs, ctx.rs): a       *)
(* recursive descent that lifts every schema into one pool of types.  It   *)
(* follows references across documents, ends cycles by a set of schemas    *)
(* in progress, invents ids for inline schemas, and flattens allOf by      *)
(* looking up what it has already put into the pool.                       *)
(*                                                                         *)
(* The recursion is a stack of frames: one step is a call of parse_schema, *)
(* a turn of a loop over subschemas, or a return.  An id is the sequence   *)
(* of the parts that `_` joins, so `Pet_property_a` is both the id of an   *)
(* inline property and a name that a component may have.                   *)
(***************************************************************************)
EXTENDS Naturals, FiniteSets, FiniteSetsExt, Sequences, SequencesExt, TLC

CONSTANTS Specs, Schemas

(* A schema is [kind, file, target, nullable, subs]; file and target say    *)
(* where a "ref" points, with file "" for a reference inside its own        *)
(* document.  A subschema is [role, part, schema]: its role in the id of    *)
(* its owner, and whether it is a part of an allOf rather than a property,  *)
(* an element or a variant.                                                 *)
Kinds == {"leaf", "null", "bad", "ref", "object", "array", "union", "allof"}
ASSUME SchemasAssumption ==
  \A s \in Schemas :
    /\ s.kind \in Kinds /\ s.target \in Seq(STRING)
    /\ s.subs \in Seq([role : Seq(STRING) \ {<<>>}, part : BOOLEAN, schema : Schemas])

(* A specification has documents and uses.  A document is a sequence of     *)
(* [name, schema], in alphabetical order; "main" is the one being parsed.   *)
(* A use is the schema of one of the media types of a body.  The names of a *)
(* document are those that sanitize makes of the keys of a map.             *)
ASSUME SpecsAssumption ==
  \A s \in Specs :
    /\ "main" \in DOMAIN s.docs /\ DOMAIN s.docs \subseteq STRING /\ s.uses \in Seq(Schemas)
    /\ \A d \in DOMAIN s.docs :
         /\ s.docs[d] \in Seq([name : Seq(STRING), schema : Schemas])
         /\ \A i, j \in DOMAIN s.docs[d] : s.docs[d][i].name = s.docs[d][j].name => i = j
ASSUME FilesAssumption == \A s \in Specs : "" \notin DOMAIN s.docs

Main == "main"
NullId == <<"null">>
NoId == <<>>
NoKey == <<>>
NoDefs == [x \in {} |-> x]

(* The map f with y at x, and the map f over the map g. *)
Put(f, x, y) == [z \in DOMAIN f \union {x} |-> IF z = x THEN y ELSE f[z]]
Over(f, g) == [z \in DOMAIN f \union DOMAIN g |-> IF z \in DOMAIN f THEN f[z] ELSE g[z]]

VARIABLES
  spec,      (* the specification                                           *)
  types,     (* Ctx::types: id -> [kind, schema, props]                     *)
  counter,   (* Ctx::ident_counter                                          *)
  current,   (* Ctx::current_doc                                            *)
  walking,   (* Ctx::walking: <<document, name>> in progress                *)
  dedup,     (* Ctx::external_ref_to_id                                     *)
  failed,    (* has an error diagnostic been pushed?                        *)
  todo,      (* the components of the main document still to be walked      *)
  used,      (* how many uses have been walked                              *)
  stack,     (* calls in progress, the innermost first                      *)
  pc,        (* "root", "parse", "subs", "return", "done"                   *)
  arg,       (* the [schema, hint] to parse                                 *)
  ret        (* the id the last call returned, or NoId                      *)

pool == <<types, counter>>
where == <<current, walking, dedup>>
roots == <<todo, used>>
vars == <<spec, pool, where, failed, roots, stack, pc, arg, ret>>

Composites == {"object", "array", "union", "allof"}

Has(d, n) == d \in DOMAIN spec.docs /\ \E i \in DOMAIN spec.docs[d] : spec.docs[d][i].name = n
Schema(d, n) == (CHOOSE x \in Range(spec.docs[d]) : x.name = n).schema

(* NameHint. *)
Named(id) == [named |-> TRUE, base |-> id]
Inline(owner, role) == [named |-> FALSE, base |-> owner \o role]

-----------------------------------------------------------------------------
(* The type pool. *)

(* Mutant: the id is not looked up. *)
UniqueIdBlind(b, ts, n) == [id |-> b, count |-> 1]

(* unique_id: the id b, or the first free b_k after the last one handed out. *)
(* The id is free when it is asked for; it is taken when a type is pushed.   *)
UniqueId(b, ts, n) ==
  IF b \notin DOMAIN ts
  THEN [id |-> b, count |-> 1]
  ELSE LET from == IF b \in DOMAIN n THEN n[b] ELSE 1
           free == {k \in (from + 1)..(from + 1 + Cardinality(DOMAIN ts)) :
                      Append(b, ToString(k)) \notin DOMAIN ts}
       IN [id |-> Append(b, ToString(Min(free))), count |-> Min(free)]

Def(kind, schema, props) == [kind |-> kind, schema |-> schema, props |-> props]
NullSchema == [kind |-> "null", file |-> "", target |-> NoId, nullable |-> FALSE, subs |-> <<>>]
WithNull(ts) == IF NullId \in DOMAIN ts THEN ts
                ELSE Put(ts, NullId, Def("null", NullSchema, NoDefs))

(* alloc_id: a named schema gets its name, unless that is `null`. *)
Alloc(hint) ==
  IF hint.named /\ hint.base # NullId
  THEN [id |-> hint.base, types |-> types, counter |-> counter]
  ELSE LET ts == IF hint.named THEN WithNull(types) ELSE types
           u == UniqueId(hint.base, ts, counter)
       IN [id |-> u.id, types |-> ts, counter |-> Put(counter, hint.base, u.count)]

(* maybe_wrap_nullable: push the type, or push it under an inner id with a  *)
(* union of it and null in its place.                                       *)
Lifted(s, id, def, nullable) ==
  IF ~nullable
  THEN [types |-> Put(s.types, id, def), counter |-> s.counter]
  ELSE LET inner == Append(id, "nonnull")
           u == UniqueId(inner, s.types, s.counter)
           either == Put(Put(NoDefs, <<"nonnull">>, u.id), <<"null">>, NullId)
           whole == Def("union", def.schema, either)
       IN [types |-> Put(WithNull(Put(s.types, u.id, def)), id, whole),
           counter |-> Put(s.counter, inner, u.count)]

-----------------------------------------------------------------------------
(* The order of components. *)

(* The components whose allOf, at their top, names them. *)
Parents(s, i) ==
  LET main == s.docs[Main]
      part(x) == x.part /\ x.schema.kind = "ref" /\ x.schema.file = ""
  IN {j \in DOMAIN main \ {i} :
        \E x \in Range(main[i].schema.subs) : part(x) /\ x.schema.target = main[j].name}

(* What a cycle of such references keeps back.                              *)
KeptBack(s) ==
  UNION {c \in SUBSET DOMAIN s.docs[Main] : \A i \in c : Parents(s, i) \cap c # {}}

(* order_components_by_allof: always the first component whose parents are  *)
(* all there; what a cycle keeps back comes at the end.                     *)
NextComponent ==
  IF todo \subseteq KeptBack(spec)
  THEN Min(todo)
  ELSE Min({i \in todo : Parents(spec, i) \cap todo = {}})

(* pre_register_external_named_hints: a component that is nothing but a     *)
(* reference into another document claims the type there for its name; the  *)
(* first one wins.                                                          *)
Claims(s) ==
  LET main == s.docs[Main]
      claims(i) == main[i].schema.kind = "ref" /\ main[i].schema.file \in DOMAIN s.docs
      key(i) == <<main[i].schema.file, main[i].schema.target>>
      claimed == {i \in DOMAIN main : claims(i)}
  IN [k \in {key(i) : i \in claimed} |-> main[Min({i \in claimed : key(i) = k})].name]

Init ==
  /\ spec \in Specs
  /\ types = NoDefs
  /\ counter = NoDefs
  /\ current = Main
  /\ walking = {}
  /\ dedup = Claims(spec)
  /\ failed = FALSE
  /\ todo = DOMAIN spec.docs[Main]
  /\ used = 0
  /\ stack = <<>>
  /\ pc = "root"
  /\ arg = [schema |-> NullSchema, hint |-> Named(NullId)]
  /\ ret = NoId

-----------------------------------------------------------------------------
(* Calls and returns. *)

Frame(kind, id, schema, key) ==
  [kind |-> kind, id |-> id, schema |-> schema, key |-> key, prev |-> current,
   next |-> 1, props |-> NoDefs, got |-> FALSE, parts |-> {}]

Parse(s, hint) == pc' = "parse" /\ arg' = [schema |-> s, hint |-> hint]
Return(id) == pc' = "return" /\ ret' = id
Reject == failed' = TRUE /\ Return(NoId)
SetPool(s) == types' = s.types /\ counter' = s.counter

WalkComponent ==
  /\ pc = "root" /\ todo # {}
  /\ LET c == spec.docs[Main][NextComponent]
         key == <<Main, c.name>>
     IN /\ todo' = todo \ {NextComponent}
        /\ walking' = walking \union {key}
        /\ stack' = <<Frame("root", NoId, c.schema, key)>>
        /\ Parse(c.schema, Named(c.name))
  /\ UNCHANGED <<spec, pool, current, dedup, failed, used, ret>>

(* All media types of a body want one id for their schemas. *)
WalkUse ==
  /\ pc = "root" /\ todo = {} /\ used < Len(spec.uses)
  /\ LET s == spec.uses[used + 1] IN
     /\ stack' = <<Frame("root", NoId, s, NoKey)>>
     /\ Parse(s, Inline(<<"op">>, <<"request", "body">>))
  /\ used' = used + 1
  /\ UNCHANGED <<spec, pool, where, failed, todo, ret>>

Finish ==
  /\ pc = "root" /\ todo = {} /\ used = Len(spec.uses)
  /\ pc' = "done"
  /\ UNCHANGED <<spec, pool, where, failed, roots, stack, arg, ret>>

RootReturns ==
  /\ pc = "return" /\ Head(stack).kind = "root"
  /\ walking' = walking \ {Head(stack).key}
  /\ stack' = <<>>
  /\ pc' = "root"
  /\ UNCHANGED <<spec, pool, current, dedup, failed, roots, arg, ret>>

ParseLeaf ==
  /\ pc = "parse" /\ arg.schema.kind = "leaf"
  /\ LET a == Alloc(arg.hint) IN
     /\ SetPool(Lifted(a, a.id, Def("leaf", arg.schema, NoDefs), arg.schema.nullable))
     /\ Return(a.id)
  /\ UNCHANGED <<spec, where, failed, roots, stack, arg>>

(* A schema that permits null only: the shared type, or an alias of it. *)
ParseNull ==
  /\ pc = "parse" /\ arg.schema.kind = "null"
  /\ LET a == Alloc(arg.hint) IN
     IF arg.hint.named
     THEN SetPool(Lifted(a, a.id, Def("null", arg.schema, NoDefs), FALSE)) /\ Return(a.id)
     ELSE types' = WithNull(types) /\ Return(NullId) /\ UNCHANGED counter
  /\ UNCHANGED <<spec, where, failed, roots, stack, arg>>

(* `not`, an unknown type, a schema that is no object. *)
ParseBad ==
  /\ pc = "parse" /\ arg.schema.kind = "bad"
  /\ Reject
  /\ UNCHANGED <<spec, pool, where, roots, stack, arg>>

(* parse_object, parse_array, parse_untagged_union and parse_all_of take an *)
(* id for the type before they look at what is inside it.                   *)
ParseComposite ==
  /\ pc = "parse" /\ arg.schema.kind \in Composites
  /\ LET a == Alloc(arg.hint) IN
     /\ SetPool(a)
     /\ stack' = <<Frame(arg.schema.kind, a.id, arg.schema, NoKey)>> \o stack
  /\ pc' = "subs"
  /\ UNCHANGED <<spec, where, failed, roots, arg, ret>>

NextSub ==
  /\ pc = "subs"
  /\ LET f == Head(stack) IN
     /\ f.next <= Len(f.schema.subs)
     /\ Parse(f.schema.subs[f.next].schema, Inline(f.id, f.schema.subs[f.next].role))
  /\ UNCHANGED <<spec, pool, where, failed, roots, stack, ret>>

Advanced(f) == [f EXCEPT !.next = @ + 1]
Replace(f) == stack' = <<f>> \o Tail(stack)

(* Mutant: after a subschema that came to nothing the loop does not move on. *)
SubReturnsAgain ==
  /\ pc = "return" /\ Head(stack).kind \in Composites
  /\ LET f == Head(stack)
         sub == f.schema.subs[f.next]
     IN /\ ~sub.part
        /\ Replace(IF ret = NoId THEN f
                   ELSE [Advanced(f) EXCEPT !.props = Put(@, sub.role, ret)])
  /\ pc' = "subs"
  /\ UNCHANGED <<spec, pool, where, failed, roots, arg, ret>>

(* A property, an element or a variant; one that came to nothing is dropped. *)
SubReturns ==
  /\ pc = "return" /\ Head(stack).kind \in Composites
  /\ LET f == Head(stack)
         sub == f.schema.subs[f.next]
     IN /\ ~sub.part
        /\ Replace(IF ret = NoId THEN Advanced(f)
                   ELSE [Advanced(f) EXCEPT !.props = Put(@, sub.role, ret)])
  /\ pc' = "subs"
  /\ UNCHANGED <<spec, pool, where, failed, roots, arg, ret>>

PartRole(k) == <<"allof", "part", ToString(k)>>

(* Mutant: every part is taken for an inline one. *)
SyntheticAny(owner, id) == TRUE

(* The id starts with `{owner}_allof_part_`. *)
IsPart(id, k) == {k, k + 1, k + 2} \subseteq DOMAIN id /\ id[k] = "allof" /\ id[k + 1] = "part"
Synthetic(owner, id) == \E k \in DOMAIN id : IsPart(id, k) /\ SubSeq(id, 1, k - 1) = owner

(* merge_part: the fields of the part are copied out of the pool.  A part   *)
(* that is not there is passed over without a word.                         *)
PartReturns ==
  /\ pc = "return" /\ Head(stack).kind = "allof"
  /\ LET f == Head(stack)
         found == ret # NoId /\ ret \in DOMAIN types
     IN /\ f.schema.subs[f.next].part
        /\ \/ /\ found /\ types[ret].kind = "object"
              /\ Replace([Advanced(f) EXCEPT
                   !.props = Over(types[ret].props, @),
                   !.got = TRUE,
                   !.parts = IF Synthetic(f.id, ret) THEN @ \union {ret} ELSE @])
              /\ UNCHANGED failed
           \/ /\ found /\ types[ret].kind # "object"
              /\ Replace(Advanced(f))
              /\ failed' = TRUE
           \/ ~found /\ Replace(Advanced(f)) /\ UNCHANGED failed
  /\ pc' = "subs"
  /\ UNCHANGED <<spec, pool, where, roots, arg, ret>>

(* Does the composite come to anything?  An array without elements, a union *)
(* without variants and an empty allOf do not.                              *)
Fruitless(f) == f.kind # "object" /\ f.props = NoDefs /\ ~f.got

Without(ts, ids) == [id \in DOMAIN ts \ ids |-> ts[id]]

(* The type goes into the pool.  A nullable union takes null as a variant.  *)
(* allOf becomes an object, and the inline parts it copied leave the pool.  *)
Close ==
  /\ pc = "subs"
  /\ LET f == Head(stack)
         now == [types |-> types, counter |-> counter]
         nullable == f.schema.nullable
     IN /\ f.next > Len(f.schema.subs)
        /\ stack' = Tail(stack)
        /\ \/ Fruitless(f) /\ Return(NoId) /\ UNCHANGED pool
           \/ /\ ~Fruitless(f) /\ f.kind = "union"
              /\ LET props == IF nullable THEN Put(f.props, <<"null">>, NullId) ELSE f.props
                     ts == IF nullable THEN WithNull(types) ELSE types
                 IN types' = Put(ts, f.id, Def("union", f.schema, props))
              /\ Return(f.id)
              /\ UNCHANGED counter
           \/ /\ ~Fruitless(f) /\ f.kind # "union"
              /\ LET kind == IF f.kind = "allof" THEN "object" ELSE f.kind
                     s == Lifted(now, f.id, Def(kind, f.schema, f.props), nullable)
                 IN SetPool([s EXCEPT !.types = Without(@, f.parts)])
              /\ Return(f.id)
  /\ UNCHANGED <<spec, where, failed, roots, arg>>

-----------------------------------------------------------------------------
(* References. *)

(* build_doc_prefix: one for each document. *)
Prefix(d) == IF d = Main THEN <<>> ELSE <<d, "">>

(* Mutant: a schema in progress does not end the walk, only a type that is  *)
(* in the pool does.                                                        *)
KnownInPool(id, key) == id \in DOMAIN types

Known(id, key) == id \in DOMAIN types \/ key \in walking

(* Mutant: the id ignores the one the schema got before, or that a          *)
(* component claims for it.                                                 *)
TargetIdUnclaimed(d, n, hint) ==
  IF hint.named THEN hint.base ELSE Prefix(d) \o n

(* The id of a schema of another document: the one it got before, the name  *)
(* it is wanted for, or its own name with the document's prefix.            *)
TargetId(d, n, hint) ==
  IF <<d, n>> \in DOMAIN dedup THEN dedup[<<d, n>>]
  ELSE IF hint.named THEN hint.base ELSE Prefix(d) \o n

(* walk_resolved_schema_at_pointer. *)
WalkAt(d, n) ==
  LET id == TargetId(d, n, arg.hint) IN
  \/ /\ Known(id, <<d, n>>)
     /\ Return(id)
     /\ UNCHANGED <<current, walking, stack, arg, failed>>
  \/ /\ ~Known(id, <<d, n>>) /\ ~Has(d, n)
     /\ Reject
     /\ UNCHANGED <<current, walking, stack, arg>>
  \/ /\ ~Known(id, <<d, n>>) /\ Has(d, n)
     /\ stack' = <<Frame("ref", id, arg.schema, <<d, n>>)>> \o stack
     /\ current' = d
     /\ walking' = walking \union {<<d, n>>}
     /\ Parse(Schema(d, n), Named(id))
     /\ UNCHANGED <<ret, failed>>

(* A reference inside the main document is its name, as the walk over the   *)
(* components covers the target.                                            *)
ParseLocalRef ==
  /\ pc = "parse" /\ arg.schema.kind = "ref" /\ arg.schema.file = ""
  /\ LET n == arg.schema.target IN
     \/ /\ ~Has(current, n)
        /\ Reject
        /\ UNCHANGED <<current, walking, stack, arg>>
     \/ /\ Has(current, n) /\ current = Main
        /\ Return(n)
        /\ UNCHANGED <<current, walking, stack, arg, failed>>
     \/ /\ Has(current, n) /\ current # Main
        /\ WalkAt(current, n)
  /\ UNCHANGED <<spec, pool, dedup, roots>>

(* walk_external_ref: the document is loaded, or cannot be. *)
ParseExternalRef ==
  /\ pc = "parse" /\ arg.schema.kind = "ref" /\ arg.schema.file # ""
  /\ \/ /\ arg.schema.file \notin DOMAIN spec.docs
        /\ Reject
        /\ UNCHANGED <<current, walking, stack, arg>>
     \/ /\ arg.schema.file \in DOMAIN spec.docs
        /\ WalkAt(arg.schema.file, arg.schema.target)
  /\ UNCHANGED <<spec, pool, dedup, roots>>

(* Mutant: the document is not switched back. *)
RefReturnsElsewhere ==
  /\ pc = "return" /\ Head(stack).kind = "ref"
  /\ LET f == Head(stack) IN
     /\ walking' = walking \ {f.key}
     /\ stack' = Tail(stack)
     /\ \/ ret # NoId /\ dedup' = Put(dedup, f.key, ret) /\ UNCHANGED ret
        \/ ret = NoId /\ ret' = f.id /\ UNCHANGED dedup
  /\ UNCHANGED <<spec, pool, current, failed, roots, pc, arg>>

(* Back from another document.  A walk that failed leaves its id all the    *)
(* same: a diagnostic has been pushed, or finalize finds it dangling.       *)
RefReturns ==
  /\ pc = "return" /\ Head(stack).kind = "ref"
  /\ LET f == Head(stack) IN
     /\ current' = f.prev
     /\ walking' = walking \ {f.key}
     /\ stack' = Tail(stack)
     /\ \/ ret # NoId /\ dedup' = Put(dedup, f.key, ret) /\ UNCHANGED ret
        \/ ret = NoId /\ ret' = f.id /\ UNCHANGED dedup
  /\ UNCHANGED <<spec, pool, failed, roots, pc, arg>>

Next ==
  \/ WalkComponent
  \/ WalkUse
  \/ Finish
  \/ RootReturns
  \/ ParseLeaf
  \/ ParseNull
  \/ ParseBad
  \/ ParseComposite
  \/ NextSub
  \/ SubReturns
  \/ PartReturns
  \/ Close
  \/ ParseLocalRef
  \/ ParseExternalRef
  \/ RefReturns

(* One sequential call. *)
Spec == Init /\ [][Next]_vars /\ WF_vars(Next)

-----------------------------------------------------------------------------
(* Properties. *)

(* The walk ends, however the schemas refer to each other and to other      *)
(* documents.                                                               *)
Terminates == <>(pc = "done")

(* The document in which the call at depth i of a stack works. *)
Within(s, i) ==
  IF i > Len(s) THEN Main ELSE IF s[i].kind = "ref" THEN s[i].key[1] ELSE s[i].prev

(* The current document is that of the innermost call, every call was made   *)
(* from the document of the call around it, and the schemas in progress are *)
(* those of the calls in progress: on every way into and out of a reference.*)
ContextFollowsCalls ==
  /\ current = Within(stack, 1)
  /\ \A i \in DOMAIN stack : stack[i].prev = Within(stack, i + 1)
  /\ walking = {f.key : f \in Range(stack)} \ {NoKey}

(* No schema is walked inside itself: a reference to one that is in progress *)
(* ends there, from whatever document and by whatever name it comes.         *)
NoReentry ==
  \A i, j \in DOMAIN stack : i # j /\ stack[i].key # NoKey => stack[i].key # stack[j].key

(* No name is the beginning of another one, nor of the ids that the parser  *)
(* makes of something else.                                                 *)
Apart(ids) == \A a, b \in ids : a # b => ~IsPrefix(a, b)
Names(d) == {x.name : x \in Range(spec.docs[d])}
NamesApart ==
  LET others == {<<"op">>} \union {Prefix(d) : d \in DOMAIN spec.docs \ {Main}} IN
  /\ Names(Main) \intersect others = {}
  /\ Apart(Names(Main) \union {NullId} \union others)
  /\ \A d \in DOMAIN spec.docs : Apart(Names(d))

(* Where names do not run into each other, a type that is in the pool is    *)
(* only ever replaced by the component of that name: unique_id merely looks *)
(* for a free id, and the type is pushed after everything inside it has been *)
(* walked (ctx.rs:148-149).                                                 *)
ByItsComponent(id) == Has(Main, id) /\ types'[id].schema = Schema(Main, id)
InlineReplacesNothing ==
  [][NamesApart =>
       \A id \in DOMAIN types : id \in DOMAIN types' =>
         types'[id] = types[id] \/ ByItsComponent(id)]_vars

(* A component of the main document is in the pool under its own name, made *)
(* from its own schema, whatever else was walked before and after it.  One  *)
(* called `null` gets another name, and one that is called like an inline   *)
(* part of an allOf may be taken for it (normalize.rs:106).                 *)
PartName(id) == \E k \in DOMAIN id : IsPart(id, k)
ComponentsServed ==
  pc = "done" => \A c \in Range(spec.docs[Main]) :
    c.schema.kind \in {"leaf", "object"} /\ c.name # NullId /\ ~PartName(c.name) =>
      c.name \in DOMAIN types /\ types[c.name].schema = c.schema

(* No reference is left dangling in silence, in a description whose names   *)
(* do not run into each other and whose named schemas come to something and *)
(* are no mere references, but for components that stand for different      *)
(* schemas of other documents: a walk that ends on a schema in progress     *)
(* returns the id under which that one will be, and no part that an allOf   *)
(* removes from the pool is somebody else's (normalize.rs:158). A reference *)
(* to a schema that its document does not have is answered with an inline   *)
(* type that happens to have the id (schema.rs:533): where that is the part *)
(* of an allOf it is removed, so no external reference may name one.        *)
Fruitful(x) ==
  IF x.part THEN x.schema.kind = "object" /\ ~x.schema.nullable
  ELSE x.schema.kind \in {"leaf", "null", "object", "ref"}
Solid(s) ==
  \/ s.kind \in {"leaf", "null", "bad", "object"}
  \/ s.kind \in Composites /\ \E x \in Range(s.subs) : Fruitful(x)
StandsFor(x) ==
  /\ x.schema.kind = "ref" /\ x.schema.file \notin {"", Main}
  /\ \A y \in Range(spec.docs[Main]) :
       y.schema.kind = "ref" /\ y.schema.file = x.schema.file /\ y.schema.target = x.schema.target => y = x
NamesWhatIsThere ==
  \A d \in DOMAIN spec.docs : \A x \in Range(spec.docs[d]) :
    Solid(x.schema) \/ (d = Main /\ StandsFor(x))
NamesNoPart == \A s \in Schemas : s.kind = "ref" /\ s.file # "" => ~PartName(s.target)
RefsResolve ==
  pc = "done" /\ ~failed /\ NamesApart /\ NamesWhatIsThere /\ NamesNoPart =>
    \A id \in DOMAIN types : \A r \in DOMAIN types[id].props :
      types[id].props[r] \in DOMAIN types

(* Where the allOf of a component names components, they have been walked   *)
(* before it, unless they form a cycle.                                     *)
SeesTarget ==
  Has(Main, ret) /\ Schema(Main, ret).kind \in {"leaf", "object"} => ret \in DOMAIN types
PartFound == pc = "return" /\ Head(stack).kind = "allof"

(* Wherever an allOf names a component, it sees that component's type:      *)
(* components are walked "in dependency-aware order so allOf $refs resolve  *)
(* to already-walked targets" (lib.rs:152-153).                             *)
AllOfSeesTarget == PartFound => SeesTarget
=============================================================================
