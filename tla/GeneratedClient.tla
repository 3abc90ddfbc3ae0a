---------------------------- MODULE GeneratedClient ----------------------------
(***************************************************************************)
(* The methods of a generated TypeScript client                            *)
(* (plugins/generator-typescript-fetch): which request one sends for its   *)
(* arguments, and what it makes of the response.                           *)
(*                                                                         *)
(* An operation is [path, params, body, security, responses].  A path is a *)
(* sequence of [lit] and [hole] segments, a hole being a name.  A          *)
(* parameter is [name, in, style, explode, required, shape, fields], the   *)
(* fields being those of an object.  A name is [text, words], words the    *)
(* parts that separators and humps make.  An argument is [text], [items],  *)
(* [fields] or [blob], where a text is the sequence of what its commas     *)
(* separate; one left out is <<>>, one given is <<value>>.                 *)
(***************************************************************************)
EXTENDS Naturals, Sequences, FiniteSets, SequencesExt, TLC

CONSTANT ReservedWords  (* TS_RESERVED *)

(* ts_ident. *)
TsIdent(name) ==
  IF Len(name.words) = 1 /\ name.words[1] \in ReservedWords
  THEN Append(name.words, "_") ELSE name.words

(* What String(value) is; an array's items are joined with bare commas. *)
Text(value) ==
  CASE "text" \in DOMAIN value   -> value.text
    [] "items" \in DOMAIN value  -> FlattenSeq(value.items)
    [] "fields" \in DOMAIN value -> <<"[object Object]">>
    [] "blob" \in DOMAIN value   -> <<"[object Blob]">>

(* Encoded texts keep their commas apart from the delimiter: how they are   *)
(* joined, and the texts.                                                   *)
Joined(delimiter, texts) == [by |-> delimiter, texts |-> texts]
Encoded(value) ==
  IF "items" \in DOMAIN value THEN Joined(",", value.items) ELSE Joined(",", <<Text(value)>>)

In(op, place) == SelectSeq(op.params, LAMBDA p : p.in = place)
Argument(args, p) == args[TsIdent(p.name)]

-----------------------------------------------------------------------------
(* The signature. *)

(* render_param_list: the parameters of the method, in order. *)
Signature(op) ==
  LET needed == SelectSeq(op.params, LAMBDA p : p.in = "path" \/ p.required)
      others == SelectSeq(op.params, LAMBDA p : p.in # "path" /\ ~p.required)
      idents(ps) == [i \in DOMAIN ps |-> TsIdent(ps[i].name)]
      body(required) == IF op.body # <<>> /\ op.body[1].required = required THEN <<<<"body">>>> ELSE <<>>
  IN idents(needed) \o body(TRUE) \o idents(others) \o body(FALSE) \o <<<<"options">>>>

(* The names render_operation itself declares. *)
Locals == {<<"url">>, <<"headers">>, <<"init">>, <<"res">>}

(* render_auth_config_type: the kinds of credential a client may be given.  *)
AuthConfig(schemes) == {s.kind : s \in schemes} \cap {"apiKey", "bearer", "basic"}

(* render_client_class names the type of the credentials if there is any    *)
(* scheme, but a type without alternatives is not declared.                 *)
ClassCompiles(schemes) == schemes # {} => AuthConfig(schemes) # {}

(* A compiler takes the method. *)
Compiles(op) == IsInjective(Signature(op)) /\ Range(Signature(op)) \cap Locals = {}

-----------------------------------------------------------------------------
(* The URL. *)

(* render_path_template: a hole nobody declares stays as it is. *)
Path(op, args) ==
  LET segment(s) ==
        LET ps == SelectSeq(In(op, "path"), LAMBDA p : "hole" \in DOMAIN s /\ p.name.text = s.hole.text)
        IN IF ps = <<>> THEN s ELSE [value |-> Encoded(Argument(args, ps[1])[1])]
  IN [i \in DOMAIN op.path |-> segment(op.path[i])]

Pair(key, joined) == [key |-> key, value |-> joined]

(* appendQueryForm. *)
FormPairs(key, value, explode) ==
  CASE "items" \in DOMAIN value /\ explode ->
         [i \in DOMAIN value.items |-> Pair(<<key>>, Joined(",", <<value.items[i]>>))]
    [] "items" \in DOMAIN value /\ ~explode ->
         IF value.items = <<>> THEN <<>> ELSE <<Pair(<<key>>, Joined(",", value.items))>>
    [] OTHER -> <<Pair(<<key>>, Joined(",", <<Text(value)>>))>>

(* appendQueryDelimited. *)
DelimitedPairs(key, value, delimiter) ==
  IF value.items = <<>> THEN <<>> ELSE <<Pair(<<key>>, Joined(delimiter, value.items))>>

(* appendQueryDeepObject: <<key, field>> is key[field]. *)
DeepPairs(key, value) ==
  LET names == SetToSeq(DOMAIN value.fields)
  IN [i \in DOMAIN names |-> Pair(<<key, names[i]>>, Joined(",", <<value.fields[names[i]]>>))]

(* Mutant: what is repeated and what is joined are mixed up. *)
QueryPairsFolded(p, arg) ==
  IF arg = <<>> THEN <<>> ELSE FormPairs(p.name.text, arg[1], ~p.explode)

(* render_query_assembly: other styles are taken for an exploded form. *)
QueryPairs(p, arg) ==
  IF arg = <<>> THEN <<>>
  ELSE CASE p.style = "form"           -> FormPairs(p.name.text, arg[1], p.explode)
         [] p.style = "pipeDelimited"  -> DelimitedPairs(p.name.text, arg[1], "|")
         [] p.style = "spaceDelimited" -> DelimitedPairs(p.name.text, arg[1], " ")
         [] p.style = "deepObject"     -> DeepPairs(p.name.text, arg[1])
         [] OTHER                      -> FormPairs(p.name.text, arg[1], TRUE)

Query(op, args) ==
  FlattenSeq([i \in DOMAIN In(op, "query") |->
                QueryPairs(In(op, "query")[i], Argument(args, In(op, "query")[i]))])

-----------------------------------------------------------------------------
(* Headers: a function from names, as a JavaScript object has them.         *)

Given(op, args, place) == SelectSeq(In(op, place), LAMBDA p : Argument(args, p) # <<>>)

(* render_header_injection: texts, whose commas nobody escapes. *)
HeaderParams(op, args) ==
  [h \in {p.name.text : p \in Range(Given(op, args, "header"))} |->
     LET p == CHOOSE q \in Range(Given(op, args, "header")) : q.name.text = h
     IN Text(Argument(args, p)[1])]

(* render_cookie_injection: all cookies are one header. *)
CookieHeader(op, args) ==
  LET given == Given(op, args, "cookie") IN
  IF given = <<>> THEN <<>>
  ELSE "Cookie" :> [i \in DOMAIN given |->
                      Pair(<<given[i].name.text>>, Encoded(Argument(args, given[i])[1]))]

(* render_auth_block.  A scheme is [kind, in, name]; the branches are the   *)
(* requirements in order, without those whose scheme the client leaves to   *)
(* its caller; the first of the kind that is configured is taken.           *)
Branches(op) == SelectSeq(op.security, LAMBDA s : s.kind \in {"apiKey", "bearer", "basic"})

Branch(op, auth) ==
  LET fits == SelectSeq(Branches(op), LAMBDA s : auth # <<>> /\ s.kind = auth[1].kind)
  IN IF fits = <<>> THEN <<>> ELSE <<fits[1]>>

AuthHeaders(branch, auth) ==
  IF branch = <<>> \/ (branch[1].kind = "apiKey" /\ branch[1].in = "query") THEN <<>>
  ELSE CASE branch[1].kind # "apiKey"    -> "Authorization" :> <<auth[1].secret>>
         [] branch[1].kind = "apiKey" /\ branch[1].in = "header" ->
              branch[1].name :> <<auth[1].secret>>
         [] branch[1].kind = "apiKey" /\ branch[1].in = "cookie" ->
              "Cookie" :> <<Pair(<<branch[1].name>>, Joined(",", <<<<auth[1].secret>>>>))>>

AuthQuery(branch, auth) ==
  IF branch # <<>> /\ branch[1].kind = "apiKey" /\ branch[1].in = "query"
  THEN <<Pair(<<branch[1].name>>, Joined(",", <<<<auth[1].secret>>>>))>> ELSE <<>>

-----------------------------------------------------------------------------
(* The body.  A media type is one of those with a name below, a "text" or   *)
(* another; a content is [media, props, lists, binary], props the           *)
(* properties that its schema, an object, declares, or <<>>, lists those of *)
(* them that are arrays and binary those whose format is byte or binary.    *)

JSON == "application/json"
URLENCODED == "application/x-www-form-urlencoded"
MULTIPART == "multipart/form-data"
OCTETS == "application/octet-stream"
TextMedia == {"text/plain", "text/csv"}

(* pick_body. *)
PickBody(body) ==
  LET of(medias) == SelectSeq(body.content, LAMBDA c : c.media \in medias)
      ranked == of({JSON}) \o of({URLENCODED}) \o of({MULTIPART}) \o of({OCTETS})
                \o of(TextMedia) \o body.content
  IN ranked[1]

(* is_json, explicit_content_type, JSON_HEADERS: fetch itself names the     *)
(* media type of a multipart body, for it makes up the boundary.            *)
ContentHeader(media) ==
  CASE media = JSON      -> "content-type" :> <<media>>
    [] media = MULTIPART -> <<>>
    [] OTHER             -> "Content-Type" :> <<media>>

(* The pairs that URLSearchParams and FormData get, from body_properties.   *)
FormBody(content, fields) ==
  LET props == SelectSeq(content.props, LAMBDA p : p \in DOMAIN fields)
      sent(p) == CASE p \in content.lists ->
                        [i \in DOMAIN fields[p].items |-> <<p, fields[p].items[i]>>]
                   [] content.media = MULTIPART /\ p \in content.binary -> <<<<p, fields[p]>>>>
                   [] OTHER -> <<<<p, Text(fields[p])>>>>
  IN FlattenSeq([i \in DOMAIN props |-> sent(props[i])])

(* render_body_construction.  A form reads the properties of its body,      *)
(* which throws when the body was left out.                                 *)
Throws(content, arg) == content.media \in {URLENCODED, MULTIPART} /\ arg = <<>> /\ content.props # <<>>

BodyInit(content, arg) ==
  IF content.media \in {URLENCODED, MULTIPART}
  THEN <<[form |-> IF arg = <<>> THEN <<>> ELSE FormBody(content, arg[1].fields)]>>
  ELSE arg

-----------------------------------------------------------------------------
(* render_operation: the request, in the order in which it is put together, *)
(* <<>> if the method throws first.  The later of two settings of a header  *)
(* replaces the earlier.                                                    *)
Request(op, args, auth, options) ==
  LET branch == Branch(op, auth)
      picked == IF op.body = <<>> THEN <<>> ELSE <<PickBody(op.body[1])>>
      content == IF picked = <<>> THEN <<>> ELSE ContentHeader(picked[1].media)
      json == picked # <<>> /\ picked[1].media = JSON
      first == IF json THEN content ELSE <<>>
      last == IF json THEN <<>> ELSE content
  IN IF picked # <<>> /\ Throws(picked[1], args[<<"body">>]) THEN <<>>
     ELSE <<[path |-> Path(op, args),
             query |-> Query(op, args) \o AuthQuery(branch, auth),
             headers |-> last @@ AuthHeaders(branch, auth) @@ CookieHeader(op, args)
                           @@ HeaderParams(op, args) @@ options @@ first,
             body |-> IF picked = <<>> THEN <<>> ELSE BodyInit(picked[1], args[<<"body">>])]>>

-----------------------------------------------------------------------------
(* The response.  A response is [status, media], media a sequence of media  *)
(* types; its status is a code, a class such as "2XX", or "default".  The   *)
(* codes "200" and "204" stand for those from 200 to 299.                   *)

Success(status) == status \in {"200", "204", "2XX"}

(* pick_response. *)
PickResponse(op) ==
  LET ok == SelectSeq(op.responses, LAMBDA r : Success(r.status))
      some(test(_)) == \E r \in Range(ok) : test(r)
      json(r) == JSON \in Range(r.media)
  IN CASE some(json) -> [kind |-> "json", void |-> some(LAMBDA r : r.media = <<>>)]
       [] ~some(json) /\ some(LAMBDA r : r.media # <<>>) -> [kind |-> "raw"]
       [] ~some(LAMBDA r : r.media # <<>>) -> [kind |-> "void"]

(* What the method comes to when a response without error has arrived: its  *)
(* media type, or "none" when it is empty, and the value in it.             *)
Result(op, media, value) ==
  CASE PickResponse(op).kind = "void" -> [kind |-> "void"]
    [] PickResponse(op).kind = "raw"  -> [kind |-> "response", media |-> media, value |-> value]
    [] PickResponse(op).kind = "json" ->
         IF media = JSON THEN [kind |-> "value", value |-> value] ELSE [kind |-> "throws"]

================================================================================
