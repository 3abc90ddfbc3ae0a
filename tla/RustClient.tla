------------------------------- MODULE RustClient -------------------------------
(***************************************************************************)
(* The methods of a generated Rust client                                  *)
(* (plugins/generator-rust-reqwest): operations.rs, params.rs, bodies.rs,  *)
(* naming.rs.  Operations, parameters and arguments are those of           *)
(* GeneratedClient, and so is what a request consists of.                  *)
(***************************************************************************)
EXTENDS GeneratedClient

(* rust_ident_snake. *)
RustIdent(name) == name.words
RustArgument(args, p) == args[RustIdent(p.name)]

Idents(ps) == {RustIdent(p.name) : p \in Range(ps)}

-----------------------------------------------------------------------------
(* The body: pick_body goes by what a media type starts with. *)

JSON_PATCH == "application/json-patch+json"

RustPickBody(body) ==
  LET of(medias) == SelectSeq(body.content, LAMBDA c : c.media \in medias)
      ranked == of({JSON, JSON_PATCH}) \o of({URLENCODED}) \o of({MULTIPART}) \o of({OCTETS})
                \o of(TextMedia) \o body.content
  IN ranked[1]

(* What a body is sent as; an unknown media type is JSON by another name.   *)
RustContentHeader(media) ==
  CASE media \in {JSON, JSON_PATCH} -> "content-type" :> <<JSON>>
    [] media = MULTIPART            -> <<>>
    [] OTHER                        -> "content-type" :> <<media>>

(* render_multipart_body: a part for each field that is there, as bytes if  *)
(* its format is byte or binary.                                            *)
FormParts(content, fields) ==
  LET there == SelectSeq(content.props, LAMBDA p : p \in DOMAIN fields)
  IN [i \in DOMAIN there |->
        <<there[i], IF there[i] \in content.binary THEN fields[there[i]] ELSE Text(fields[there[i]])>>]

(* serde_urlencoded writes scalars, and no sequence. *)
Refuses(content, fields) ==
  content.media = URLENCODED /\ \E p \in Range(content.props) \cap DOMAIN fields : "text" \notin DOMAIN fields[p]

(* render_body_assembly. *)
RustBody(content, arg) ==
  CASE content.media \in {URLENCODED, MULTIPART} -> <<[form |-> FormParts(content, arg.fields)]>>
    [] content.media \in {JSON, JSON_PATCH, OCTETS} \union TextMedia -> <<arg>>
    [] OTHER -> <<[json |-> arg]>>

-----------------------------------------------------------------------------
(* The signature. *)

(* body_signature, render_operation: the parameters by place, then a body,  *)
(* which is required whatever the document says.                            *)
RustSignature(op) ==
  LET places == FlattenSeq([i \in 1..4 |-> In(op, <<"path", "query", "header", "cookie">>[i])])
  IN [i \in DOMAIN places |-> RustIdent(places[i].name)] \o (IF op.body = <<>> THEN <<>> ELSE <<<<"body">>>>)

(* render_auth_config, render_client_module: with schemes of which none has *)
(* a variant, the client holds a type that is not declared.                 *)
RustAuthConfig(schemes) == {s.kind : s \in schemes} \cap {"apiKey", "bearer", "basic"}
RustClassCompiles(schemes) == schemes # {} => RustAuthConfig(schemes) # {}

(* A compiler takes the method: its own `base`, `url` and `req` hide no     *)
(* parameter that is still to be read, every argument of the URL's format!  *)
(* is used in it, and a list or an object has a style that writes it.  (A   *)
(* required header or cookie parameter `url` passes, and reads the URL.)    *)
RustCompiles(op) ==
  LET reads == In(op, "header") \o In(op, "cookie")
      holes == {RustIdent(s.hole) : s \in {x \in Range(op.path) : "hole" \in DOMAIN x}}
  IN /\ IsInjective(RustSignature(op))
     /\ <<"base">> \notin Idents(In(op, "path")) /\ Idents(In(op, "path")) \subseteq holes
     /\ <<"url">> \notin Idents(In(op, "query")) /\ <<"req">> \notin Idents(reads)
     /\ \A p \in Range(reads) : RustIdent(p.name) = <<"url">> => p.required /\ p.shape = "scalar"
     /\ \A p \in Range(In(op, "query")) :
          /\ p.shape = "array" => p.style \in {"form", "pipeDelimited", "spaceDelimited"}
          /\ p.shape = "object" => p.style = "deepObject" \/ (p.style = "form" /\ p.explode)
     /\ op.body # <<>> =>
          LET content == RustPickBody(op.body[1]) IN content.media = MULTIPART => content.lists = {}

-----------------------------------------------------------------------------
(* The request. *)

(* render_url_construction: a hole is filled by identifier. *)
RustPath(op, args) ==
  LET segment(s) ==
        LET ps == SelectSeq(In(op, "path"), LAMBDA p :
                    "hole" \in DOMAIN s /\ RustIdent(p.name) = RustIdent(s.hole))
        IN IF ps = <<>> THEN s ELSE [value |-> Encoded(RustArgument(args, ps[1])[1])]
  IN [i \in DOMAIN op.path |-> segment(op.path[i])]

(* _append_query, _append_query_form_explode, _append_query_delimited.      *)
Appended(key, value) == <<Pair(<<key>>, Joined(",", <<Text(value)>>))>>
Repeated(key, items) == FlattenSeq([i \in DOMAIN items |-> Appended(key, [text |-> items[i]])])
Delimited(key, items, delimiter) ==
  IF items = <<>> THEN <<>> ELSE <<Pair(<<key>>, Joined(delimiter, items))>>

(* render_object_form_explode_appends: the fields, without the name of the  *)
(* parameter.                                                               *)
FieldPairs(value) ==
  LET names == SetToSeq(DOMAIN value.fields)
  IN [i \in DOMAIN names |-> Pair(<<names[i]>>, Joined(",", <<value.fields[names[i]]>>))]

(* Mutant: a list that is not exploded loses its delimiters' meaning. *)
RustQueryPairsExploded(p, arg) ==
  IF arg = <<>> THEN <<>>
  ELSE IF p.shape = "array" THEN Repeated(p.name.text, arg[1].items)
  ELSE FormPairs(p.name.text, arg[1], p.explode)

(* render_one_query_param. *)
RustQueryPairs(p, arg) ==
  LET key == p.name.text
      delimiter == CASE p.style = "form" -> "," [] p.style = "pipeDelimited" -> "|" [] OTHER -> " "
  IN IF arg = <<>> THEN <<>>
     ELSE CASE p.shape = "array" /\ p.style = "form" /\ p.explode -> Repeated(key, arg[1].items)
            [] p.shape = "array" /\ ~(p.style = "form" /\ p.explode) -> Delimited(key, arg[1].items, delimiter)
            [] p.shape = "object" /\ p.style = "deepObject" -> DeepPairs(key, arg[1])
            [] p.shape = "object" /\ p.style # "deepObject" -> FieldPairs(arg[1])
            [] p.shape = "scalar" -> Appended(key, arg[1])

RustQuery(op, args) ==
  FlattenSeq([i \in DOMAIN In(op, "query") |->
                RustQueryPairs(In(op, "query")[i], RustArgument(args, In(op, "query")[i]))])

(* What a statement after the URL was put together reads for a parameter.   *)
Read(args, p) == IF RustIdent(p.name) = <<"url">> THEN <<[text |-> <<"the url">>]>> ELSE RustArgument(args, p)
Present(op, args, place) == SelectSeq(In(op, place), LAMBDA p : Read(args, p) # <<>>)

(* render_header_assembly. *)
RustHeaders(op, args) ==
  [h \in {p.name.text : p \in Range(Present(op, args, "header"))} |->
     Text(Read(args, CHOOSE p \in Range(In(op, "header")) : p.name.text = h)[1])]

(* render_cookie_assembly. *)
RustCookies(op, args) ==
  LET given == Present(op, args, "cookie") IN
  IF given = <<>> THEN <<>>
  ELSE "Cookie" :> [i \in DOMAIN given |-> Pair(<<given[i].name.text>>, Encoded(Read(args, given[i])[1]))]

(* render_auth_application: the first scheme of the document that has the   *)
(* kind of the credential, whatever the operation asks for; a key is a      *)
(* header wherever it belongs.                                              *)
RustAuth(schemes, auth) ==
  LET fits == SelectSeq(schemes, LAMBDA s : auth # <<>> /\ s.kind = auth[1].kind)
  IN CASE fits = <<>> -> <<>>
       [] fits # <<>> /\ auth[1].kind = "apiKey" -> fits[1].name :> <<auth[1].secret>>
       [] fits # <<>> /\ auth[1].kind # "apiKey" -> "Authorization" :> <<auth[1].secret>>

(* render_operation: <<>> if the request cannot be built. *)
RustRequest(op, args, schemes, auth) ==
  LET picked == IF op.body = <<>> THEN <<>> ELSE <<RustPickBody(op.body[1])>>
      arg == args[<<"body">>]
  IN IF picked # <<>> /\ Refuses(picked[1], arg[1].fields) THEN <<>>
     ELSE <<[path |-> RustPath(op, args),
             query |-> RustQuery(op, args),
             headers |-> RustHeaders(op, args) @@ RustCookies(op, args) @@ RustAuth(schemes, auth)
                           @@ (IF picked = <<>> THEN <<>> ELSE RustContentHeader(picked[1].media)),
             body |-> IF picked = <<>> THEN <<>> ELSE RustBody(picked[1], arg[1])]>>

-----------------------------------------------------------------------------
(* pick_response and the end of render_operation: what the method comes to  *)
(* when a response without error has arrived.  JSON of one good response is *)
(* read from all of them.                                                   *)
RustResult(op, media, value) ==
  IF \E r \in Range(op.responses) :
       Success(r.status) /\ \E m \in Range(r.media) : m \in {JSON, JSON_PATCH}
  THEN IF media = JSON THEN [kind |-> "value", value |-> value] ELSE [kind |-> "fails"]
  ELSE [kind |-> "unit"]
================================================================================
