-------------------------- MODULE MCOperationWalk --------------------------
(***************************************************************************)
(* Instances of OperationWalk for TLC, and what a description means: read  *)
(* as a tree, with every reference replaced by its target.                 *)
(***************************************************************************)
EXTENDS OperationWalk

Obj(has, parts) == [kind |-> "object", file |-> "", frag |-> <<>>, has |-> has, parts |-> parts]
Ref(file, class, name) ==
  [kind |-> "ref", file |-> file, frag |-> <<class, name>>, has |-> NoFields, parts |-> <<>>]
Bad == [kind |-> "bad", file |-> "", frag |-> <<>>, has |-> NoFields, parts |-> <<>>]
P(slot, key, node) == [slot |-> slot, key |-> key, node |-> node]

Typed(t) == Obj([type |-> t], <<>>)
Untyped == Obj(NoFields, <<>>)
Schema(t) == P("schema", "", Typed(t))
Param(name, loc, t) == P("parameter", name, Obj([name |-> name, in |-> loc], <<Schema(t)>>))
Media(parts) == P("content", "json", Obj(NoFields, parts))
Body(parts) == P("body", "", Obj(NoFields, parts))
Response(parts) == P("response", "200", Obj(NoFields, parts))
Callback(name, item) == P("callback", name, Obj(NoFields, <<P("expr", "url", item)>>))

Op(method, id, parts) == P("op", method, Obj([operationId |-> id], parts))
Item(parts) == Obj(NoFields, parts)

Root(has) == Obj(has, <<>>)
Description(root, schemes, paths, webhooks, at) ==
  [version |-> TRUE, info |-> TRUE, root |-> root, tags |-> <<>>, ident |-> [getyA |-> "getA"],
   entries |-> [schemes |-> schemes, paths |-> paths, webhooks |-> webhooks], at |-> at]
Paths(nodes) == [i \in DOMAIN nodes |-> P("path", <<"a", "b", "c">>[i], nodes[i])]
Webhooks(nodes) == [i \in DOMAIN nodes |-> P("webhook", <<"v", "w">>[i], nodes[i])]

-----------------------------------------------------------------------------
(* References: chains, cycles and dead ends, through two documents.         *)

ItemRefs == {Ref("", "pathItems", "I"), Ref("ext", "pathItems", "I")}
DeadRefs == {Ref("gone", "pathItems", "I"), Ref("", "pathItems", "None")}
ByRef(param) == Item(<<Op("get", "getA", <<P("parameter", "x", param), Param("y", "query", "T")>>)>>)
RefSpecs ==
  {Description(Root(NoFields), <<>>, Paths(<<a, ByRef(Ref("", "parameters", "L"))>>), <<>>,
     (<<"main", <<"pathItems", "I">>>> :> i) @@ (<<"ext", <<"pathItems", "I">>>> :> j)
       @@ (<<"main", <<"parameters", "L">>>> :> Param("x", "query", "M").node)
       @@ (<<"ext", <<"parameters", "L">>>> :> l)) :
     a \in ItemRefs \union DeadRefs,
     i \in {ByRef(Ref("ext", "parameters", "L")), Ref("ext", "pathItems", "I"), Ref("", "pathItems", "I")},
     j \in {ByRef(Ref("", "parameters", "L")), Ref("main", "pathItems", "I"), Bad},
     l \in {Param("x", "query", "E").node, Ref("main", "parameters", "L"),
            Ref("", "parameters", "L"), Ref("", "parameters", "None")}}

(* Operation ids and callbacks, in paths and webhooks.                      *)
Calls(id, callbacks) == Item(<<Op("get", id, callbacks)>>)
CallbackOf(id) == Callback("c", Calls(id, <<>>))
InCallback ==
  {<<>>, <<CallbackOf("getA")>>, <<CallbackOf("getB"), Callback("d", Calls("getC", <<>>))>>,
   <<P("callback", "c", Ref("", "callbacks", "C"))>>,
   <<Callback("c", Ref("", "pathItems", "I"))>>, <<P("callback", "c", Bad)>>,
   <<P("callback", "c", Obj(NoFields, <<P("expr", "url", Bad)>>))>>}
CallbackSpecs ==
  {Description(Root(NoFields), <<>>, Paths(<<Calls("getA", c), Calls(b, <<>>)>>),
     Webhooks(<<Calls(w, d), Ref("", "pathItems", "I")>>),
     (<<"main", <<"callbacks", "C">>>> :> Callback("c", Calls("getC", e)).node)
       @@ (<<"main", <<"pathItems", "I">>>> :> Calls("getI", <<>>))) :
     b \in {"getB", "getyA"}, w \in {"getW", "getA"}, c \in InCallback,
     d \in {<<>>, <<CallbackOf("getV")>>, <<CallbackOf("getA")>>},
     e \in {<<>>, <<P("callback", "c", Ref("", "callbacks", "C"))>>}}

(* What operations inherit.                                                 *)
Optional(field, values) == {NoFields} \union {field :> v : v \in values}
InheritSpecs ==
  {Description(Root(r @@ ("security" :> <<{"key"}>>)),
     <<P("scheme", "key", Obj([type |-> "mutualTLS"], <<>>))>>,
     Paths(<<Obj(i, shared \o <<P("op", "get", Obj([operationId |-> "getA"] @@ o @@ s, own)),
                                Op("put", "putA", <<>>)>>)>>), <<>>, NoFields) :
     r \in Optional("servers", {<<"r">>}), i \in Optional("servers", {<<"i">>, <<"">>}),
     o \in Optional("servers", {<<>>, <<"o", "p">>}),
     s \in Optional("security", {<<>>, <<{"key"}, {"one", "two"}>>}),
     shared \in {<<>>, <<Param("x", "query", "S"), Param("z", "path", "S")>>},
     own \in {<<>>, <<Param("x", "header", "O")>>, <<Param("x", "query", "O")>>}}

(* Everything below an operation, and the rest of the document.             *)
Parts ==
  {<<Body(<<>>)>>, <<P("body", "", Bad)>>,
   <<Body(<<Media(<<Schema("T"), P("item", "", Typed("U"))>>)>>)>>,
   <<Body(<<Media(<<P("item", "", Typed("U")),
       P("encoding", "e", Obj(NoFields, <<P("header", "h", Obj(NoFields, <<Schema("T")>>))>>))>>)>>)>>,
   <<Body(<<P("content", "json", Ref("", "mediaTypes", "M"))>>)>>,
   <<Body(<<Media(<<P("schema", "", Untyped)>>), P("content", "text", Bad)>>)>>,
   <<Response(<<Media(<<Schema("T"), P("encoding", "e", Obj(NoFields, <<>>)),
       P("example", "x", Obj([value |-> "v", externalValue |-> "u"], <<>>))>>), P("content", "text", Bad)>>)>>,
   <<Response(<<P("header", "h", Obj(NoFields, <<>>)),
       P("header", "i", Obj(NoFields, <<Schema("T")>>)),
       P("link", "l", Obj([operationRef |-> "r", operationId |-> "getA"], <<>>))>>)>>,
   <<P("response", "20x", Bad), P("response", "default", Bad)>>,
   <<Param("x", "nowhere", "T"), P("parameter", "y", Obj([name |-> "y"], <<Schema("T")>>)),
     P("parameter", "z", Obj([name |-> "z", in |-> "query"], <<P("schema", "", Bad), P("example", "x", Bad)>>))>>}
Schemes ==
  {<<>>, <<P("scheme", "s", Obj([type |-> "dance"], <<>>)), P("scheme", "t", Obj([type |-> "apiKey", name |-> "k"], <<>>))>>,
   <<P("scheme", "s", Obj([type |-> "oauth2", flows |-> "f"],
       <<P("flow", "implicit", Obj([authorizationUrl |-> "u"], <<>>)), P("flow", "authorizationCode", Obj([tokenUrl |-> "u"], <<>>))>>))>>,
   <<P("scheme", "s", Obj([type |-> "oauth2", flows |-> "f"], <<P("flow", "implied", Obj(NoFields, <<>>))>>))>>}
PartSpecs ==
  {[Description(Root([servers |-> <<"r">>]), s,
       Paths(<<Item(<<P("op", "get", Obj(NoFields, <<>>)), Op("put", "putA", p)>>)>>), <<>>,
       <<"main", <<"mediaTypes", "M">>>> :> Obj(NoFields, <<Schema("T")>>)) EXCEPT
      !.version = v, !.info = i, !.tags = t] :
     p \in Parts, s \in Schemes, v \in BOOLEAN, i \in BOOLEAN,
     t \in {<<>>, <<[name |-> "x", parent |-> "y"], [name |-> "y", parent |-> "z"], [name |-> "", parent |-> ""]>>}}

MCSpecs == RefSpecs \union CallbackSpecs \union InheritSpecs \union PartSpecs

-----------------------------------------------------------------------------
(* The meaning of a description, without a context that is switched and     *)
(* restored: for a walk that met no error, so that every chain ends.        *)

RECURSIVE Chase(_, _)
Chase(d, node) ==
  IF node.kind # "ref" THEN [doc |-> d, node |-> node]
  ELSE LET e == IF node.file = "" THEN d ELSE node.file IN Chase(e, spec.at[<<e, node.frag>>])

At(d, part) ==
  IF part.slot \in Followed THEN Chase(d, part.node) ELSE [doc |-> d, node |-> part.node]

RECURSIVE Written(_, _)
(* The tree below a part; of operations only their ids.                     *)
Written(d, part) ==
  LET x == At(d, part)
      under == Range(x.node.parts)
  IN [slot |-> part.slot, key |-> part.key,
      has |-> IF part.slot = "expr"
              THEN [ids |-> {Ident(q.node.has.operationId) : q \in {p \in under : p.slot = "op"}}]
              ELSE x.node.has,
      got |-> IF part.slot = "expr" THEN {} ELSE {Written(x.doc, q) : q \in under}]

RECURSIVE Lowered(_)
Lowered(v) ==
  [slot |-> v.slot, key |-> v.key, has |-> v.has, got |-> {Lowered(g) : g \in Range(v.got)}]

ParamsIn(x) == {Written(x.doc, q) : q \in {p \in Range(x.node.parts) : p.slot = "parameter"}}
Place(p) == <<p.has.name, p.has["in"]>>

(* An operation q of the path item at x. *)
OperationAsWritten(x, q) ==
  LET own == ParamsIn([doc |-> x.doc, node |-> q.node])
      first(lists) == IF lists[1] # <<>> THEN lists[1] ELSE IF lists[2] # <<>> THEN lists[2] ELSE lists[3]
      url(n) == IF Has(n, "servers") THEN n.has.servers ELSE <<>>
  IN [id |-> Ident(q.node.has.operationId),
      params |-> own \union {p \in ParamsIn(x) : \A o \in own : Place(o) # Place(p)},
      security |-> UNION Range(IF Has(q.node, "security") THEN q.node.has.security
                               ELSE IF Has(spec.root, "security") THEN spec.root.has.security ELSE <<>>),
      servers |-> first(<<url(q.node), url(x.node), url(spec.root)>>),
      parts |-> {Written(x.doc, p) : p \in {p \in Range(q.node.parts) : p.slot # "parameter"}}]

OperationAsLowered(op) ==
  [id |-> op.has.id, security |-> op.has.security, servers |-> op.has.servers,
   params |-> {Lowered(p) : p \in UNION {Range(op.has.params[loc]) : loc \in Locations}},
   parts |-> {Lowered(v) : v \in Range(op.got)}]

OpsOf(x) == {q \in Range(x.node.parts) : q.slot = "op"}
RECURSIVE Called(_)
(* The path items of the callbacks of the operations of x, and of those.    *)
Called(x) ==
  LET callbacks == {c \in UNION {Range(q.node.parts) : q \in OpsOf(x)} : c.slot = "callback"}
      items == UNION {LET y == At(x.doc, c) IN {[doc |-> y.doc, node |-> e.node] : e \in Range(y.node.parts)} :
                        c \in callbacks}
  IN items \union UNION {Called(i) : i \in items}

Items(entries) == {At(Main, p) : p \in Range(entries)}
Operations(items) == UNION {{OperationAsWritten(x, q) : q \in OpsOf(x)} : x \in items}

(* Everything in the description that is read, and what of it the parser    *)
(* drops without an error.                                                  *)
Slotted(d, p) == [slot |-> p.slot] @@ At(d, p)
RECURSIVE Reachable(_)
Reachable(S) ==
  LET T == S \union UNION {{Slotted(x.doc, q) : q \in Range(x.node.parts)} : x \in S}
  IN IF T = S THEN S ELSE Reachable(T)
Lossy ==
  \E x \in Reachable({Slotted(Main, p) : p \in Range(spec.entries.paths \o spec.entries.webhooks)}) :
    \/ x.node.kind # "object"
    \/ x.slot = "header" /\ ~HasPart(x.node, {"schema"})
    \/ x.slot \in {"schema", "item"} /\ ~Has(x.node, "type")

(* A walk without an error, over a description of which nothing is dropped  *)
(* in silence, arrives at the operations that are written there, each with  *)
(* the parameters, requirements and servers it has or inherits, and all     *)
(* that is below it, whatever references lead to it: those of paths and     *)
(* callbacks in one list, those of each webhook with it (docs/              *)
(* parser-coverage.md).                                                     *)
LowersWhatIsWritten ==
  pc = "done" /\ ~failed /\ ~Lossy =>
    LET paths == Items(spec.entries.paths)
        webhooks == Items(spec.entries.webhooks)
        called == UNION {Called(x) : x \in paths \union webhooks}
        lowered(ops) == {OperationAsLowered(op) : op \in Range(ops)}
    IN /\ lowered(ir.operations) = Operations(paths \union called)
       /\ \A i \in DOMAIN ir.webhooks :
            lowered(ir.webhooks[i].operations) = Operations(Items(<<spec.entries.webhooks[i]>>))
       /\ Len(ir.webhooks) = Len(spec.entries.webhooks)
=============================================================================
