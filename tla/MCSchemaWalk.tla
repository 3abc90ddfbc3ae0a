---------------------------- MODULE MCSchemaWalk ----------------------------
(* Instances of SchemaWalk for TLC. *)
EXTENDS SchemaWalk

S(kind, nullable, subs) ==
  [kind |-> kind, file |-> "", target |-> NoId, nullable |-> nullable, subs |-> subs]
Ref(file, name) ==
  [kind |-> "ref", file |-> file, target |-> name, nullable |-> FALSE, subs |-> <<>>]
Property(x) == [role |-> <<"property", "p">>, part |-> FALSE, schema |-> x]
Items(x) == [role |-> <<"items">>, part |-> FALSE, schema |-> x]
Variant(i, x) == [role |-> <<"variant", ToString(i)>>, part |-> FALSE, schema |-> x]
Part(i, x) == [role |-> PartRole(i), part |-> TRUE, schema |-> x]

A == <<"A">>
AP == <<"A", "property", "p">>
B == <<"B">>
X == <<"X">>
Y == <<"Y">>

Leaf == S("leaf", FALSE, <<>>)
Maybe == S("leaf", TRUE, <<>>)
Bad == S("bad", FALSE, <<>>)
Object(x) == S("object", FALSE, <<Property(x)>>)
Array(x) == S("array", FALSE, <<Items(x)>>)
Either(x, y) == S("union", TRUE, <<Variant(0, x), Variant(1, y)>>)
AllOf(x) == S("allof", FALSE, <<Part(0, x), Property(Leaf)>>)
AllOfOnly(x) == S("allof", TRUE, <<Part(0, x)>>)

InA ==
  {Leaf, Object(Maybe), Object(AllOfOnly(Object(Leaf))), Object(AllOfOnly(Ref("", B))),
   Either(Bad, Maybe), Object(Ref("", B)), Object(Ref("ext", X)), AllOf(Ref("", B)),
   AllOf(Ref("ext", Y)), Ref("ext", X)}
InB ==
  {Leaf, Object(Leaf), Object(Ref("", A)), AllOf(Ref("", A)), AllOf(Ref("ext", X)), Ref("ext", Y)}
InX == {Leaf, Array(Ref("", Y)), Object(Ref("", X)), Object(Ref("main", A)), AllOf(Ref("", Y))}
InY == {Object(Leaf), Object(Ref("", X)), Object(Ref("main", B)), AllOf(Ref("", X)), Ref("", X)}
InUse == {Ref("", A), Object(S("null", FALSE, <<>>)), Array(Ref("ext", X)), Ref("other", X)}

Doc(names, schemas) == [i \in DOMAIN names |-> [name |-> names[i], schema |-> schemas[i]]]
Pair(x, y) == ("main" :> x) @@ ("ext" :> y)

BPart == <<"B">> \o PartRole(0)
NearA == {Object(Maybe), AllOf(Ref("", AP)), Object(AllOfOnly(Ref("", AP)))}
NearB == {AllOf(Ref("", BPart)), AllOf(Object(Leaf))}
XP == <<"X", "property", "p">>
NearX == {Object(Ref("ext", X)), Object(Ref("ext", XP)), AllOf(Ref("ext", X)), AllOf(Ref("ext", XP))}
InXP == {Object(Object(Leaf)), AllOf(Object(Leaf))}

(* Two components, two schemas of another document, and the media types of  *)
(* a body; names that inline schemas, or the parser itself, want too; and   *)
(* references to a schema that is not there, but an inline one of that id.  *)
MCSpecs ==
  {[docs |-> Pair(Doc(<<A, B>>, <<a, b>>), Doc(<<X, Y>>, <<x, y>>)), uses |-> <<u, Object(Leaf)>>] :
     a \in InA, b \in InB, x \in InX, y \in InY, u \in InUse}
  \union
  {[docs |-> Pair(Doc(<<A, n>>, <<a, b>>), Doc(<<X>>, <<Leaf>>)), uses |-> <<u>>] :
     n \in {AP, NullId}, b \in InB, u \in InUse,
     a \in NearA}
  \union
  {[docs |-> Pair(Doc(<<B, BPart>>, <<x, y>>), Doc(<<X>>, <<Leaf>>)), uses |-> <<Leaf>>] :
     x \in NearB, y \in InB}
  \union
  {[docs |-> Pair(Doc(<<A, B>>, <<a, b>>), Doc(<<X>>, <<x>>)), uses |-> <<Leaf>>] :
     a \in NearX, b \in NearX, x \in InXP}

(* Everything that these descriptions are made of. *)
Below(schemas) == schemas \union {x.schema : x \in UNION {Range(s.subs) : s \in schemas}}
MCSchemas ==
  Below(Below(Below(InA \union InB \union InX \union InY \union InUse
    \union NearA \union NearB \union NearX \union InXP)))
=============================================================================
