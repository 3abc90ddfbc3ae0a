------------------------------ MODULE MCFunctions ------------------------------
(***************************************************************************)
(* The parts of the system that compute a result in one go, each over all  *)
(* of its small inputs and against a reference that says what the result   *)
(* is for: the canonical order of types, the output guard, the search for  *)
(* a credential, the lowering of a schema, the pool of values, and a       *)
(* method of the generated client.  An input is chosen once; only the      *)
(* order of types takes steps, and lists of files grow.                    *)
(***************************************************************************)
EXTENDS TopologicalOrder, OutputGuard, Credentials, Discriminators, SchemaMeaning,
        ValuePool, GeneratedModels, RustClient, ServerView

VARIABLE input  (* [kind |-> ...] and what that kind of input has *)

fvars == <<refs, order, input>>

Few(S, n) == UNION {[1..k -> S] : k \in 0..n}

(* One way or another to have the keywords of f: with or without each.      *)
Optional(key, values) == {[k \in {} |-> 0]} \union {key :> v : v \in values}
With(A, B) == {a @@ b : a \in A, b \in B}

-----------------------------------------------------------------------------
(* Lists of files. *)

Names == {"a", "bad"}
Comps == Few(Names \union {".", ".."}, 2)
Paths == [abs : {FALSE}, comps : Comps] \union [abs : {TRUE}, comps : {<<"a">>}]
Files == [path : Paths, size : {1, MaxPerFile + 1, MaxInt}]

(* What the guard accepts leads to files below the output directory, not    *)
(* out of it and not to the directory itself, and to a file of its own      *)
(* each, however the paths are spelled.                                     *)
AcceptedFilesApart ==
  (input.kind = "files" /\ GuardAccepts(input.files)) => FilesApart(input.files)

(* What the host accepts from a generator is within the byte budget by the  *)
(* real sum, also when the running sum of the code saturates.               *)
BudgetHolds ==
  (input.kind = "files" /\ HostAccepts(input.files)) => WithinBudget(input.files)

-----------------------------------------------------------------------------
(* Credentials. *)

Host(h) == [url |-> FALSE, host |-> h, path |-> FALSE]
Registries == {Host(Ghcr), Host("other")}
Places == {"DOCKER_CONFIG", "~/.docker", "REGISTRY_AUTH_FILE", "XDG_RUNTIME_DIR", "~/.config"}

Helper(starts, reads, exit, reply) ==
  [starts |-> starts, reads |-> reads, exit |-> exit, reply |-> reply]
Helpers == {Helper(FALSE, TRUE, "ok", TRUE), Helper(TRUE, FALSE, "ok", TRUE),
            Helper(TRUE, TRUE, "ok", FALSE), Helper(TRUE, TRUE, "ok", TRUE),
            Helper(TRUE, FALSE, "miss", FALSE), Helper(TRUE, TRUE, "fails", FALSE)}

EmptyMap == [k \in {} |-> 0]
Parsed(helpers, auths, store) ==
  [state |-> "parsed", helpers |-> helpers, auths |-> auths, store |-> store]
Unparsed(state) == [state |-> state, helpers |-> EmptyMap, auths |-> EmptyMap, store |-> <<>>]
Entry(key, auth, clear) == key :> [auth |-> auth, clear |-> clear, secret |-> [host |-> key.host]]
Keys == {Host("other"), Host(Ghcr), [Host("other") EXCEPT !.url = TRUE, !.path = TRUE],
         [Host("other") EXCEPT !.path = TRUE]}

CredentialFiles ==
  {Unparsed(s) : s \in {"absent", "unreadable", "broken"}}
  \union {Parsed(Host("other") :> h, EmptyMap, <<>>) : h \in Helpers}
  \union {Parsed(EmptyMap, Entry(k, a, c), <<>>) :
            k \in Keys, a \in {"bad", "good"}, c \in {FALSE}}
  \union {Parsed(EmptyMap, Entry(k, "absent", c), <<>>) : k \in Keys, c \in BOOLEAN}
  \union {Parsed(EmptyMap, EmptyMap, <<h>>) : h \in Helpers}
  \union {Parsed(EmptyMap, Entry(Host("other"), "absent", FALSE), <<h>>) : h \in Helpers}

Environments ==
  [set : {{}, {"HOME"}, {"HOME", "DOCKER_CONFIG"}, {"REGISTRY_AUTH_FILE", "XDG_RUNTIME_DIR"},
          {"HOME"} \union Places},
   ghToken : {""}, githubToken : {"unset", "token"}, gh : {"unset"}]

(* Two files, wherever they are, and no others. *)
Disks == {[p \in Places |-> IF p = a THEN f ELSE IF p = b THEN g ELSE Unparsed("absent")] :
            a \in {"DOCKER_CONFIG"}, b \in {"~/.docker", "~/.config"},
            f \in CredentialFiles, g \in CredentialFiles}

(* Wherever a credential may be, and whatever is wrong with some sources,   *)
(* the search serves its purpose: none that is there is hidden, no failure  *)
(* is passed over in silence, and none is of another registry.              *)
CredentialFound ==
  input.kind = "auth" => CredentialServes(input.env, input.disk, input.registry)

-----------------------------------------------------------------------------
(* Schemas. *)

Scalars == {[null |-> 0], [bool |-> TRUE], [str |-> 1], [str |-> 2]} \union [num : 1..5]
Objects == UNION {[obj : [ns -> {[null |-> 0], [str |-> 1], [num |-> 2]}]] : ns \in SUBSET {"a", "bb"}}
Values == Scalars \union {[arr |-> <<>>]} \union {[arr |-> <<v>>] : v \in Scalars} \union Objects

TypeNames == {<<"string">>, <<"integer">>, <<"number">>, <<"null">>, <<"boolean">>,
              <<"string", "null">>, <<"number", "null">>}
OddTypes == {<<"string", "integer">>, <<"integer", "null", "string">>, <<"array", "string">>,
             <<"object", "string">>, <<"file">>, <<"null", "null">>}
Numbers == {[num |-> 2], [num |-> 3]}

(* Schemas nothing of which is beside the point of their type. *)
Plain ==
  LET typed(types) == {[type |-> t] : t \in types}
      nullable == Optional("nullable", {TRUE})
  IN With(With(typed({<<"number">>, <<"number", "null">>, <<"integer">>}), nullable),
          With(With(Optional("minimum", Numbers),
                    Optional("exclusiveMinimum", Numbers \union {[bool |-> TRUE], [bool |-> FALSE], [str |-> 1]})),
               Optional("maximum", {[num |-> 4]})))
     \union With(With(typed({<<"number">>}), Optional("maximum", Numbers)),
                 Optional("exclusiveMaximum", Numbers \union {[bool |-> TRUE]}))
     \union With(With(typed(TypeNames \ {<<"null">>}), nullable), Optional("minLength", {2}))
     \union With(typed({<<"null">>}), nullable)

Leaves == {[type |-> <<"string">>], [type |-> <<"number">>, minimum |-> [num |-> 2]],
           [type |-> <<"string", "null">>, minLength |-> 2], [type |-> <<"null">>]}
Arrays == With({[type |-> <<"array">>]}, With(Optional("items", Leaves), Optional("nullable", {TRUE})))
PlainObjects ==
  With(With({[type |-> <<"object">>]}, Optional("properties", {("a" :> s) : s \in Leaves})),
       With(With(Optional("required", {{"a"}}), Optional("nullable", {TRUE})),
            With(With(Optional("closed", {TRUE}), Optional("additionalProperties", {<<s>> : s \in Leaves})),
                 Optional("propertyNames", {<<[minLength |-> 2]>>, <<[type |-> <<"string">>]>>}))))
Patterned ==
  With({[type |-> <<"object">>]},
       With(With(Optional("properties", {("a" :> s) : s \in Leaves}),
                 {"patternProperties" :> ({n} :> s) : n \in {"a", "bb"}, s \in Leaves}),
            With(Optional("closed", {TRUE}), Optional("additionalProperties", {<<s>> : s \in Leaves}))))

Exact == Plain \union Patterned \union {s \in Arrays \union PlainObjects :
                                          "required" \in DOMAIN s => "properties" \in DOMAIN s}

Literals == {[null |-> 0], [str |-> 1], [num |-> 2], [num |-> 3], [bool |-> TRUE], [arr |-> <<>>]}
Mixed ==
  With(With({[enum |-> e] : e \in Few(Literals, 2)} \union {[const |-> v] : v \in Literals},
            Optional("type", TypeNames \union OddTypes)), Optional("nullable", {TRUE}))
  \union With({[type |-> t] : t \in TypeNames \union OddTypes},
              With(Optional("nullable", {TRUE}), Optional("minimum", Numbers)))
  \union With({key :> ps : key \in {"oneOf", "anyOf"},
                           ps \in Few(Leaves \union {[type |-> <<"file">>], [enum |-> <<[str |-> 1], [null |-> 0]>>]}, 2)},
              With(Optional("nullable", {TRUE}), Optional("type", {<<"string">>, <<"string", "null">>})))
  \union With({[k \in {} |-> 0], [k \in {"not"} |-> [type |-> <<"string">>]]}, Optional("nullable", {TRUE}))
  \union Arrays \union PlainObjects

(* A schema that is lowered without a word about it comes to a type, and    *)
(* that type has room for every value the schema accepts; if all that the   *)
(* schema says is of its type, for no other value.                          *)
TypesKeepValues ==
  input.kind = "schema" =>
    LET l == Lower(input.schema, input.oas30) IN
    l.quiet =>
      /\ l.type # <<>>
      /\ \A v \in Values : Accepts(input.schema, v) => Admits(l.type[1], v)
      /\ input.schema \in Exact =>
           \A v \in Values : Admits(l.type[1], v) => Accepts(input.schema, v)

(* An enum that Rust's models read and write by the names of its variants.  *)
ByName(t) == OfNumbers(t) \/ (t.kind = "union" /\ \E u \in Range(t.variants) : OfNumbers(u))

(* A generated model, in TypeScript if it compiles and in Rust unless it is *)
(* an enum of numbers, takes every value that the schema accepts, if the    *)
(* schema has no patternProperties; and it takes neither null nor an object *)
(* without fields where the schema does not, but for a required field that  *)
(* Rust takes for null when it is missing.                                  *)
ModelsTakeValues ==
  (input.kind = "schema" /\ "patternProperties" \notin DOMAIN input.schema) =>
    LET l == Lower(input.schema, input.oas30)
        bare == [obj |-> EmptyMap]
    IN l.quiet =>
      LET ts == TsType(l.type[1])
          rust == RustType(l.type[1])
      IN /\ \A v \in Values : Accepts(input.schema, v) =>
              /\ IndexFits(ts) => TsTakes(ts, v)
              /\ ~ByName(l.type[1]) => RustReads(rust, v)
         /\ input.schema \in Exact =>
              /\ \A v \in {[null |-> 0], bare} : TsTakes(ts, v) => Accepts(input.schema, v)
              /\ RustReads(rust, [null |-> 0]) => Accepts(input.schema, [null |-> 0])
              /\ RustReads(rust, bare) =>
                   Accepts(input.schema, bare) \/ Accepts(input.schema.properties["a"], [null |-> 0])

(* The explicit entries of a discriminator have a tag each. *)
Explicits == {e \in Few({"A", "t", "u"} \X {"A", "B", "gone"}, 2) :
                Len(e) = 2 => e[1][1] # e[2][1]}

(* Every variant of a discriminated union has a tag, which leads to it; no  *)
(* entry that names a variant is lost, and none leads elsewhere.  (Unless a *)
(* tag is the id of a variant that has no tag of its own.)                  *)
TagsRoute ==
  (input.kind = "discriminator" /\ Unambiguous(input.variants, input.explicit)) =>
    TagsLead(input.variants, input.explicit)

-----------------------------------------------------------------------------
(* Values. *)

Json0 == {[null |-> 0], [str |-> "s"]} \union [int : MaxI64..(MaxI64 + 2)] \union {[float |-> MaxI64 + 1]}
Json1 == Json0 \union [list : Few(Json0, 2)]
               \union {[fields |-> f] : f \in {<<>>} \union {<<<<n, v>>>> : n \in {"k", "l"}, v \in Json0}}
Json2 == Json1 \union {[list |-> <<a, b>>] : a \in [list : Few({[null |-> 0]}, 1)], b \in Json1}
               \union {[fields |-> <<<<"k", a>>, <<"l", b>>>>] : a \in Json0, b \in [list : Few(Json0, 1)]}

RECURSIVE ReadBack(_, _), Represented(_)
ReadBack(pool, at) ==
  LET node == pool[at] IN
  IF "list" \in DOMAIN node
  THEN [list |-> [i \in DOMAIN node.list |-> ReadBack(pool, node.list[i])]]
  ELSE IF "fields" \in DOMAIN node
  THEN [fields |-> [i \in DOMAIN node.fields |->
                      <<node.fields[i][1], ReadBack(pool, node.fields[i][2])>>]]
  ELSE node

(* A value as far as 64 bits can tell. *)
Represented(v) ==
  CASE "int" \in DOMAIN v /\ v.int > MaxI64 -> [float |-> v.int - (v.int % Precision)]
    [] "list" \in DOMAIN v -> [list |-> [i \in DOMAIN v.list |-> Represented(v.list[i])]]
    [] "fields" \in DOMAIN v ->
         [fields |-> [i \in DOMAIN v.fields |-> <<v.fields[i][1], Represented(v.fields[i][2])>>]]
    [] OTHER -> v

(* Whatever the parser has put in the pool can be read back where it was    *)
(* told to look, also after more has been put there; no node is there twice *)
(* and every node refers only to nodes before it.                           *)
PoolReadsBack ==
  input.kind = "values" =>
    LET all == InternAll(<<>>, input.values)
        parts(node) == IF "list" \in DOMAIN node THEN Range(node.list)
                       ELSE IF "fields" \in DOMAIN node THEN {f[2] : f \in Range(node.fields)} ELSE {}
    IN /\ \A i \in DOMAIN all.pool : \A p \in parts(all.pool[i]) : p < i
       /\ IsInjective(all.pool)
       /\ \A i \in DOMAIN input.values :
            ReadBack(all.pool, all.at[i]) = Represented(input.values[i])

-----------------------------------------------------------------------------
(* The generated client. *)

Name(text, words) == [text |-> text, words |-> words]
ParamNames == {Name("page-size", <<"page", "size">>), Name("pageSize", <<"page", "size">>),
               Name("class", <<"class">>), Name("url", <<"url">>)}
Styles == {<<"path", "simple", "scalar">>, <<"path", "simple", "array">>,
           <<"query", "form", "scalar">>, <<"query", "form", "array">>,
           <<"query", "pipeDelimited", "array">>, <<"query", "spaceDelimited", "array">>,
           <<"query", "deepObject", "object">>, <<"query", "form", "object">>,
           <<"query", "simple", "array">>, <<"header", "simple", "scalar">>,
           <<"header", "simple", "array">>, <<"cookie", "form", "scalar">>, <<"cookie", "form", "array">>}
Param(name, style, explode, required) ==
  [name |-> name, in |-> style[1], style |-> style[2], shape |-> style[3],
   explode |-> explode, fields |-> IF style[3] = "object" THEN {"f"} ELSE {}, required |-> required \/ style[1] = "path"]
Params == {Param(n, s, s[1] = "query" /\ s[2] = "form", r) : n \in ParamNames, s \in Styles, r \in BOOLEAN}
          \union {Param(n, <<"query", "form", "array">>, FALSE, TRUE) : n \in ParamNames}

Arguments(p) ==
  (IF p.required THEN {} ELSE {<<>>}) \union
  CASE p.shape = "scalar" -> {<<[text |-> <<"x", "y">>]>>}
    [] p.shape = "array"  -> {<<[items |-> <<>>]>>, <<[items |-> <<<<"x">>, <<"x", "y">>>>]>>}
    [] p.shape = "object" -> {<<[fields |-> [f \in {"f"} |-> <<"x", "y">>]]>>}

Schemes == {<<>>, <<[kind |-> "oauth2", in |-> "none", name |-> "none"],
                    [kind |-> "apiKey", in |-> "header", name |-> "X-Key"],
                    [kind |-> "apiKey", in |-> "query", name |-> "key"]>>,
            <<[kind |-> "apiKey", in |-> "cookie", name |-> "sid"],
              [kind |-> "bearer", in |-> "none", name |-> "none"]>>,
            <<[kind |-> "apiKey", in |-> "query", name |-> "key"]>>,
            <<[kind |-> "oauth2", in |-> "none", name |-> "none"]>>}
Auths == {<<>>} \union {<<[kind |-> k, secret |-> "secret"]>> : k \in {"apiKey", "bearer"}}

Operation(params, body, security, responses) ==
  LET holes == SelectSeq(params, LAMBDA p : p.in = "path")
  IN [path |-> <<[lit |-> "pets"]>> \o [i \in DOMAIN holes |-> [hole |-> holes[i].name]]
               \o <<[hole |-> Name("undeclared", <<"undeclared">>)]>>,
      params |-> params, body |-> body, security |-> security, responses |-> responses]

(* The arguments by identifier; a method in which two parameters have one   *)
(* does not compile.                                                        *)
Calls(op, bodies, ident(_)) ==
  LET ps == op.params
      owner(id) == CHOOSE i \in DOMAIN ps : ident(ps[i].name) = id
      ids == {ident(ps[i].name) : i \in DOMAIN ps}
      all == UNION {Arguments(p) : p \in Range(ps)}
  IN {(<<"body">> :> b) @@ args : b \in bodies,
           args \in {a \in [ids -> all] : \A id \in ids : a[id] \in Arguments(ps[owner(id)])}}

Ranked(in) == CASE in = "path" -> 1 [] in = "query" -> 2 [] in = "header" -> 3 [] in = "cookie" -> 4
ParamLists == {<<p>> : p \in Params} \union
  {<<p, q>> : p \in {x \in Params : x.name.text = "page-size"}, q \in Params}
BucketedLists == {l \in ParamLists :  (* not two objects whose fields would meet *)
  Len(l) = 2 => /\ ~(\A i \in 1..2 : l[i].shape = "object" /\ l[i].style = "form")
                /\ Ranked(l[1].in) <= Ranked(l[2].in)
                /\ l[1].in = l[2].in => l[1].name.text # l[2].name.text}

Media == {JSON, URLENCODED, MULTIPART, OCTETS, "text/csv", "application/cbor", JSON_PATCH}
Contents == {[media |-> m, props |-> <<"p", "f">>, lists |-> ls, binary |-> {"f"}] :
               m \in Media, ls \in {{}, {"p"}}}
Bodies == {[content |-> cs, required |-> r] : r \in BOOLEAN,
             cs \in {l \in Few(Contents, 2) \ {<<>>} : Len(l) = 2 => l[1].media # l[2].media}}
BodyArguments(content) ==
  LET p == IF content.lists = {} THEN [text |-> <<"x">>] ELSE [items |-> <<<<"x">>, <<"y">>>>]
  IN {<<[fields |-> f]>> : f \in {[p |-> p, f |-> [blob |-> "b"]], [p |-> p]}}

Responses == [status : {"200", "2XX", "404", "default"}, media : {<<>>, <<JSON>>, <<"text/csv">>, <<JSON, "text/csv">>}]

ParamRequests == {[kind |-> "client", op |-> Operation(l, <<>>, s, <<>>), auth |-> a] :
                    l \in BucketedLists, s \in Schemes, a \in Auths}
BodyRequests == {[kind |-> "client", op |-> Operation(<<>>, <<b>>, <<>>, <<>>), auth |-> <<>>] : b \in Bodies}
ResponseRequests == {[kind |-> "client", op |-> Operation(<<>>, <<>>, <<>>, rs), auth |-> <<>>] :
                       rs \in {l \in Few(Responses, 2) : Len(l) = 2 => l[1].status # l[2].status}}

(* A server reads from the request what the caller gave: every argument,    *)
(* the credential and the body.                                             *)
Understood(op, content, request, arg(_), body) ==
  /\ \A p \in Range(op.params) : Received(op, request, p) = Sent(arg(p))
  /\ CredentialSent(op, request, input.auth)
  /\ op.body # <<>> => BodySent(op, content, request, body)

(* A TypeScript method that is called without its optional form throws.     *)
TypeScriptKeeps(op) ==
  LET content == IF op.body = <<>> THEN <<>> ELSE PickBody(op.body[1])
      bodies == IF op.body = <<>> THEN {<<>>}
                ELSE BodyArguments(content) \union (IF op.body[1].required THEN {} ELSE {<<>>})
  IN /\ AllJson(op) \/ NoJson(op) => ResultFits(op, LAMBDA m : Result(op, m, "value"))
     /\ Compiles(op) /\ ClassCompiles(Range(op.security))
        /\ CookiesCarriable(op, input.auth) /\ NoFormObject(op) =>
          \A args \in Calls(op, bodies, TsIdent) :
            LET arg(p) == Argument(args, p)
                body == args[<<"body">>]
                sent == Request(op, args, input.auth, "X-Trace" :> <<"t">>)
            IN ListsCarriable(op, arg) =>
                 \/ sent = <<>> /\ body = <<>>
                 \/ \E request \in Range(sent) : Understood(op, content, request, arg, body)

(* The Rust client writes these formats; a list in a URL-encoded body is an *)
(* error.  A key that belongs in the query or a cookie, and a header or     *)
(* cookie called `url`, are not sent as they should.                        *)
RustWrites == {JSON, URLENCODED, MULTIPART, OCTETS} \union TextMedia
RustKeeps(op) ==
  LET content == IF op.body = <<>> THEN <<>> ELSE RustPickBody(op.body[1])
      bodies == IF op.body = <<>> THEN {<<>>} ELSE BodyArguments(content)
      first == SelectSeq(op.security, LAMBDA s : input.auth # <<>> /\ s.kind = input.auth[1].kind)
  IN /\ AllJson(op) => ResultFits(op, LAMBDA m : RustResult(op, m, "value"))
     /\ /\ RustCompiles(op) /\ RustClassCompiles(Range(op.security))
        /\ first = <<>> \/ first[1].in \in {"header", "none"}
        /\ op.body # <<>> => content.media \in RustWrites
        /\ \A p \in Range(op.params) : p.in \in {"header", "cookie"} => p.name.text # "url"
        => \A args \in Calls(op, bodies, RustIdent) :
             LET arg(p) == RustArgument(args, p)
                 body == args[<<"body">>]
                 sent == RustRequest(op, args, op.security, input.auth)
             IN ListsCarriable(op, arg) =>
                  \/ sent = <<>> /\ content.media = URLENCODED
                  \/ \E request \in Range(sent) : Understood(op, content, request, arg, body)

(* A method whose source compiles, in a client with the schemes it names,   *)
(* sends every argument so that the server reads the same one, with the     *)
(* credential of the first requirement of the configured kind and the body  *)
(* in a declared format; and it returns what the server has answered.       *)
ClientKeepsContract ==
  input.kind = "client" => TypeScriptKeeps(input.op) /\ RustKeeps(input.op)

-----------------------------------------------------------------------------
Inputs ==
  {[kind |-> "files", files |-> <<>>]}
  \union [kind : {"auth"}, env : Environments, disk : Disks, registry : Registries]
  \union [kind : {"schema"}, schema : Exact \union Mixed, oas30 : BOOLEAN]
  \union [kind : {"discriminator"}, variants : Few({"A", "B"}, 3) \ {<<>>}, explicit : Explicits]
  \union [kind : {"values"}, values : {<<a, b>> : a \in Json1, b \in Json2}]
  \union ParamRequests \union BodyRequests \union ResponseRequests

(* Everything emitted: no order is asked for. *)
Done == refs = [t \in Ids |-> {}] /\ order = [i \in 1..Cardinality(Ids) |-> {i}]

FInit ==
  \/ Init /\ input = [kind |-> "order"]
  \/ Done /\ input \in Inputs

EmitNext == input.kind = "order" /\ Next /\ UNCHANGED input

MoreFiles ==
  /\ input.kind = "files" /\ Len(input.files) <= MaxFiles
  /\ \E f \in Files : input' = [input EXCEPT !.files = Append(@, f)]
  /\ UNCHANGED ovars

FNext == EmitNext \/ MoreFiles

FSpec == FInit /\ [][FNext]_fvars
================================================================================
